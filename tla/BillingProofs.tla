----------------------------- MODULE BillingProofs -----------------------------
(***************************************************************************)
(* What an account is charged, credited and shown, for any limits, any     *)
(* length of months and paid periods, and any number of videos, orders and *)
(* failures.                                                               *)
(***************************************************************************)
EXTENDS Billing, FiniteSetTheorems, NaturalsInduction, TLAPS

\* The times a month begins.
Months   == {t \in Nat : t % Month = 0}

Profiles == [tier : {"free", "pro"}, used : Nat, reset : Months, extra : Nat, end : Times,
             cancel : {"unknown", "yes", "no"}, linked : BOOLEAN]
Debits   == [kind : {"none", "monthly", "extra"}, reset : Nat, tier : {"free", "pro"}, end : Times,
             refunded : BOOLEAN, current : BOOLEAN]
Orders   == [product : {"pro", "topup"}, known : BOOLEAN, paid : BOOLEAN,
             status : {"none", "pending", "completed"}]
Events   == [type : {"checkout", "paid", "cancel"}, order : OrderIds, end : Times]

Typed ==
    /\ clock \in 0..MaxClock
    /\ profile \in Profiles
    /\ debits \in [Videos -> Debits]
    /\ orders \in [OrderIds -> Orders]
    /\ ends \in [OrderIds -> Times] /\ canceled \subseteq Times
    /\ granted \in Seq(OrderIds) /\ mail \subseteq Events
    /\ troubles \in Nat /\ silent \in BOOLEAN
    /\ seen \in {"unknown", "free", "pro"}

\* The allowance of q comes after that of d: a later paid period, the free plan after the same
\* paid period, or a later month of the same plan.
Before(d, q) ==
    \/ d.end < q.end
    \/ d.end = q.end /\ d.tier = "pro" /\ q.tier = "free"
    \/ d.end = q.end /\ d.tier = q.tier /\ d.reset < q.reset

Counted(ds)  == {v \in Videos : ds[v].kind = "monthly" /\ ~ds[v].refunded /\ ds[v].current}
Credited(ds) == {v \in Videos : ds[v].kind = "extra" /\ ~ds[v].refunded}

\* The plan and its use. A debit has the identity of the allowance it was taken from, and an allowance
\* never comes back: a debit that matches the account's is still counted in its use.
UsageKept ==
    /\ profile.used <= LimitOf(profile.tier)
    /\ profile.tier = "free" => profile.end <= clock
    /\ \A v \in Videos : debits[v].kind = "monthly" =>
           Before(debits[v], profile) \/ (SameAllowance(debits[v], profile) /\ debits[v].current)
    /\ Cardinality(Counted(debits)) <= profile.used

\* An order is paid once and its events come after the payment.
OrdersKept ==
    /\ \A o \in OrderIds :
          /\ orders[o].status = "none" => ~orders[o].paid
          /\ orders[o].status # "none" /\ ~orders[o].known => silent
          /\ ~orders[o].paid => ends[o] = NoPeriod
    /\ \A e \in mail :
          /\ orders[e.order].paid
          /\ e.type = "checkout" => e.end = ends[e.order] /\ (orders[e.order].product = "topup" => e.end = NoPeriod)
          /\ e.type = "paid" => e.end <= ends[e.order]
          /\ e.type = "cancel" => e.end \in canceled

\* Credits are what was granted less what was used; a grant has its receipt.
CreditsKept ==
    /\ profile.extra + Cardinality(Credited(debits)) = Credits * Len(granted)
    /\ ~silent => \A i \in 1..Len(granted) :
          /\ orders[granted[i]].known /\ orders[granted[i]].status = "completed"
          /\ \A j \in 1..Len(granted) : granted[i] = granted[j] => i = j

Awaited(o, type) == \E e \in mail : e.type = type /\ e.order = o /\ e.end = ends[o]

\* A paid period that has not arrived is still to be announced to an account it will find.
PeriodsKept ==
    /\ profile.end = NoPeriod \/ \E o \in OrderIds : profile.end <= ends[o]
    /\ ~silent => \A o \in OrderIds :
          /\ ends[o] # NoPeriod => profile.linked \/ Awaited(o, "checkout")
          /\ ends[o] > clock => \/ profile.end >= ends[o]
                                \/ Awaited(o, "checkout") /\ orders[o].status # "completed"
                                \/ Awaited(o, "paid") /\ profile.linked

\* A cancellation is marked, is still to be delivered, or no longer matters.
CancelsKept ==
    /\ profile.cancel = "yes" => profile.end \in canceled
    /\ profile.end # NoPeriod => profile.cancel # "unknown"
    /\ \A end \in canceled :
          \/ end <= clock \/ end < profile.end
          \/ end = profile.end /\ profile.cancel = "yes"
          \/ \E e \in mail : e.type = "cancel" /\ e.end = end

AccountInv ==
    /\ Typed
    /\ UsageKept
    /\ OrdersKept
    /\ CreditsKept
    /\ PeriodsKept
    /\ CancelsKept
    /\ SubscriberIsLinked

-----------------------------------------------------------------------------
(* Numbers. *)

\* A set of bounded naturals has a greatest element, the one Max chooses.
LEMMA GreatestTime ==
    ASSUME NEW S \in SUBSET Nat, NEW b \in Nat, \A x \in S : x <= b, S # {}
    PROVE  Max(S) \in S /\ \A x \in S : Max(S) >= x
<1> DEFINE D == {b - x : x \in S}
           R == OpToRel(<, Nat)
<1>1. D \subseteq Nat /\ D # {}
  <2>1. \A x \in S : x \in Nat /\ x <= b
    OBVIOUS
  <2>2. \A x \in S : b - x \in Nat
    BY <2>1
  <2>3. PICK x \in S : TRUE
    OBVIOUS
  <2>4. b - x \in D
    OBVIOUS
  <2> QED
    BY <2>2, <2>4
<1>2. PICK d \in D : \A e \in D : <<e, d>> \notin R
  <2>1. IsWellFoundedOn(R, Nat)
    BY NatLessThanWellFounded
  <2> HIDE DEF D, R
  <2> QED
    BY <1>1, <2>1, WFMin
<1>3. \A e \in D : ~(e < d)
  BY <1>1, <1>2 DEF OpToRel
<1>4. PICK x \in S : d = b - x
  OBVIOUS
<1>5. \A y \in S : x >= y
  <2> TAKE y \in S
  <2>1. b - y \in D
    OBVIOUS
  <2>2. x \in Nat /\ y \in Nat
    OBVIOUS
  <2> HIDE DEF D
  <2>3. ~(b - y < b - x)
    BY <1>3, <1>4, <2>1
  <2> QED
    BY <2>2, <2>3
<1> QED
  BY <1>5 DEF Max

\* A month begins after every time before it.
LEMMA NextMonthLater ==
    ASSUME NEW t \in Nat
    PROVE  NextMonth(t) \in Months /\ NextMonth(t) \in Nat /\ NextMonth(t) > t
<1>1. Month \in Nat /\ Month > 0
  BY BillingAssumption
<1> DEFINE n == t \div Month
<1>2. n \in Nat /\ t < n * Month + Month
  BY <1>1, SMTT(60)
<1> HIDE DEF n
<1>3. (n + 1) * Month = n * Month + Month /\ n * Month \in Nat
  BY <1>1, <1>2, SMTT(60)
<1>4. ((n + 1) * Month) % Month = 0
  BY <1>1, <1>2, SMTT(60)
<1> QED
  BY <1>1, <1>2, <1>3, <1>4 DEF NextMonth, Months, n

\* The order of allowances.
LEMMA BeforeOrder ==
    ASSUME NEW d, NEW p, NEW q, d.end \in Nat, p.end \in Nat, q.end \in Nat,
           d.reset \in Nat, p.reset \in Nat, q.reset \in Nat,
           d.tier \in {"free", "pro"}, p.tier \in {"free", "pro"}, q.tier \in {"free", "pro"}
    PROVE  /\ Before(d, p) => ~SameAllowance(d, p)
           /\ Before(p, q) /\ (Before(d, p) \/ SameAllowance(d, p)) => Before(d, q)
BY DEF Before, SameAllowance

\* The components of what an account is made of.
LEMMA Parts ==
    /\ \A p \in Profiles : /\ p.tier \in {"free", "pro"} /\ p.used \in Nat /\ p.reset \in Nat /\ p.extra \in Nat
                           /\ p.end \in Times /\ p.end \in Nat /\ p.cancel \in {"unknown", "yes", "no"}
                           /\ p.linked \in BOOLEAN
    /\ \A d \in Debits : /\ d.kind \in {"none", "monthly", "extra"} /\ d.reset \in Nat /\ d.tier \in {"free", "pro"}
                         /\ d.end \in Times /\ d.end \in Nat /\ d.refunded \in BOOLEAN /\ d.current \in BOOLEAN
    /\ \A e \in Events : e.type \in {"checkout", "paid", "cancel"} /\ e.order \in OrderIds /\ e.end \in Times
    /\ Times \subseteq Nat /\ MaxClock \in Nat /\ Period \in Nat
BY BillingAssumption DEF Profiles, Debits, Events, Times, Months

\* Both limits are numbers.
LEMMA LimitType == \A tier : LimitOf(tier) \in Nat
BY BillingAssumption DEF LimitOf

-----------------------------------------------------------------------------
(* The two functions of a profile. *)

\* The lazy reconciliation keeps what was paid for; it starts a new allowance, or changes nothing.
LEMMA ReconcileEffect ==
    ASSUME NEW p \in Profiles, NEW t \in 0..MaxClock, p.used <= LimitOf(p.tier), p.tier = "free" => p.end <= t
    PROVE  LET q == Reconcile(p, t) IN
           /\ q \in Profiles /\ q.used <= LimitOf(q.tier) /\ (q.tier = "free" => q.end <= t)
           /\ q.extra = p.extra /\ q.end = p.end /\ q.cancel = p.cancel /\ q.linked = p.linked
           /\ q.tier = "pro" => p.tier = "pro"
           /\ IF Lapsed(p, t) \/ p.reset <= t THEN Before(p, q) /\ q.used = 0 ELSE q = p
<1> DEFINE q == IF Lapsed(p, t) THEN [p EXCEPT !.tier = "free", !.used = 0] ELSE p
<1>0. t \in Nat /\ NextMonth(t) \in Months /\ NextMonth(t) \in Nat /\ NextMonth(t) > t /\ p.reset \in Nat /\ p.end \in Nat
  BY NextMonthLater, Parts
<1>1. q \in Profiles /\ q.used <= LimitOf(q.tier) /\ (q.tier = "free" => q.end <= t)
  <2>1. CASE Lapsed(p, t)
    <3>1. q \in Profiles
      BY <2>1 DEF Profiles
    <3>2. q.used = 0 /\ q.end = p.end /\ p.end <= t
      BY <2>1 DEF Lapsed, Profiles
    <3> QED
      BY <3>1, <3>2, LimitType
  <2>2. CASE ~Lapsed(p, t)
    BY <2>2
  <2> QED
    BY <2>1, <2>2
<1>2. q.extra = p.extra /\ q.end = p.end /\ q.cancel = p.cancel /\ q.linked = p.linked /\ q.reset = p.reset
  BY DEF Profiles
<1>3. q.tier = "pro" => p.tier = "pro" /\ q = p
  BY DEF Profiles
<1>4. IF Lapsed(p, t) THEN p.tier = "pro" /\ q.tier = "free" /\ q.used = 0 ELSE q = p
  BY DEF Lapsed, Profiles
<1>5. Reconcile(p, t) = IF q.reset <= t THEN [q EXCEPT !.used = 0, !.reset = NextMonth(t)] ELSE q
  BY DEF Reconcile
<1> HIDE DEF q
<1>6. CASE q.reset <= t
  <2> DEFINE z == [q EXCEPT !.used = 0, !.reset = NextMonth(t)]
  <2>1. z \in Profiles
    BY <1>0, <1>1 DEF Profiles
  <2>2. /\ z.used = 0 /\ z.reset = NextMonth(t) /\ z.tier = q.tier /\ z.extra = q.extra /\ z.end = q.end
        /\ z.cancel = q.cancel /\ z.linked = q.linked
    BY <1>1 DEF Profiles
  <2>3. Reconcile(p, t) = z
    BY <1>5, <1>6
  <2> HIDE DEF z
  <2>4. Before(p, z)
    BY <1>0, <1>2, <1>4, <1>6, <2>2, Parts DEF Before
  <2> QED
    BY <1>1, <1>2, <1>3, <1>6, <2>1, <2>2, <2>3, <2>4, LimitType
<1>7. CASE ~(q.reset <= t)
  <2>1. Reconcile(p, t) = q
    BY <1>5, <1>7
  <2>2. Lapsed(p, t) => Before(p, q)
    BY <1>2, <1>4 DEF Before
  <2> QED
    BY <1>1, <1>2, <1>3, <1>4, <1>7, <2>1, <2>2
<1> QED
  BY <1>6, <1>7

\* An activation never goes back to an older period; it starts a new allowance, extends the current
\* one, or changes nothing.
LEMMA ActivateEffect ==
    ASSUME NEW p \in Profiles, NEW t \in 0..MaxClock, NEW end \in Times,
           p.used <= LimitOf(p.tier), p.tier = "free" => p.end <= t
    PROVE  LET q == Activate(p, end, t) IN
           /\ q \in Profiles /\ q.used <= LimitOf(q.tier) /\ (q.tier = "free" => q.end <= t)
           /\ q.extra = p.extra /\ q.linked = p.linked /\ q.end >= p.end
           /\ end > t => q.end >= end
           /\ q.end = p.end => q.cancel = p.cancel
           /\ q.end # p.end => q.end = end /\ end > t /\ q.cancel = "no"
           /\ q.tier = "pro" => p.tier = "pro" \/ Applies(p, end, t)
           /\ IF Applies(p, end, t) /\ Starts(p, t) THEN Before(p, q) /\ q.used = 0
              ELSE q.used = p.used /\ q.tier = p.tier /\ (Before(p, q) \/ q = p)
<1> DEFINE q == [p EXCEPT !.tier = "pro", !.end = end,
                   !.used  = IF Starts(p, t) THEN 0 ELSE @,
                   !.reset = IF Starts(p, t) THEN NextMonth(t) ELSE @,
                   !.cancel = IF p.end = NoPeriod \/ p.end < end THEN "no" ELSE @]
<1>0. t \in Nat /\ NextMonth(t) \in Months /\ NextMonth(t) \in Nat /\ NextMonth(t) > t /\ p.reset \in Nat /\ p.end \in Nat /\ end \in Nat /\ p.used \in Nat
  BY NextMonthLater, Parts
<1>1. CASE ~Applies(p, end, t)
  <2>1. Activate(p, end, t) = p
    BY <1>1 DEF Activate
  <2> QED
    BY <1>0, <1>1, <2>1 DEF Applies
<1>2. CASE Applies(p, end, t)
  <2>0. end > t /\ p.end <= end
    BY <1>2 DEF Applies
  <2>1. q \in Profiles
    BY <1>0 DEF Profiles
  <2>2. /\ q.tier = "pro" /\ q.end = end /\ q.extra = p.extra /\ q.linked = p.linked
        /\ q.used = (IF Starts(p, t) THEN 0 ELSE p.used)
        /\ q.reset = (IF Starts(p, t) THEN NextMonth(t) ELSE p.reset)
        /\ q.cancel = (IF p.end = NoPeriod \/ p.end < end THEN "no" ELSE p.cancel)
    BY DEF Profiles
  <2>3. Activate(p, end, t) = q
    BY <1>2 DEF Activate
  <2>4. p.tier \in {"free", "pro"}
    BY Parts
  <2>5. Starts(p, t) => p.end < end
    BY <1>0, <2>0, <2>4 DEF Starts
  <2>6. ~Starts(p, t) => p.tier = "pro"
    BY DEF Starts
  <2>7. ~Starts(p, t) /\ p.end = end /\ p.end # NoPeriod => q = p
    <3> SUFFICES ASSUME ~Starts(p, t), p.end = end, p.end # NoPeriod PROVE q = p
      OBVIOUS
    <3>1. q.tier = p.tier /\ q.used = p.used /\ q.reset = p.reset /\ q.end = p.end /\ q.cancel = p.cancel
      BY <1>0, <2>2, <2>6
    <3> QED
      BY <2>1, <2>2, <3>1 DEF Profiles
  <2> HIDE DEF q
  <2>8. q.used <= LimitOf(q.tier)
    BY <1>0, <2>2, <2>6, LimitType
  <2>9. IF Starts(p, t) THEN Before(p, q) /\ q.used = 0 ELSE q.used = p.used /\ q.tier = p.tier /\ (Before(p, q) \/ q = p)
    BY <1>0, <2>0, <2>2, <2>5, <2>6, <2>7 DEF Before, NoPeriod
  <2> QED
    BY <1>0, <1>2, <2>0, <2>1, <2>2, <2>3, <2>8, <2>9 DEF NoPeriod
<1> QED
  BY <1>1, <1>2

-----------------------------------------------------------------------------
(* The allowance: submissions and refunds. *)

\* Videos can be counted.
LEMMA VideoSets ==
    ASSUME NEW ds
    PROVE  /\ IsFiniteSet(Counted(ds)) /\ Cardinality(Counted(ds)) \in Nat
           /\ IsFiniteSet(Credited(ds)) /\ Cardinality(Credited(ds)) \in Nat
<1>1. IsFiniteSet(Videos)
  BY BillingAssumption, FS_Interval DEF Videos
<1>2. Counted(ds) \in SUBSET Videos /\ Credited(ds) \in SUBSET Videos
  BY DEF Counted, Credited
<1>3. IsFiniteSet(Counted(ds)) /\ IsFiniteSet(Credited(ds))
  BY <1>1, <1>2, FS_Subset
<1> QED
  BY <1>3, FS_CardinalityType

\* A new account has used nothing and paid for nothing.
LEMMA InitAccount == BillingInit => AccountInv
<1> SUFFICES ASSUME BillingInit PROVE AccountInv
  OBVIOUS
<1>0. NextMonth(0) \in Months /\ 0 \in Times /\ 0 \in Nat /\ MaxClock \in Nat
  BY NextMonthLater, Parts DEF Times
<1>1. Typed
  <2>1. profile \in Profiles
    BY <1>0 DEF BillingInit, Profiles, NoPeriod
  <2>2. debits \in [Videos -> Debits]
    BY <1>0 DEF BillingInit, Debits, NoPeriod
  <2>3. orders \in [OrderIds -> Orders]
    BY DEF BillingInit, Orders
  <2>4. ends \in [OrderIds -> Times] /\ canceled \subseteq Times
    BY <1>0 DEF BillingInit, NoPeriod
  <2>5. granted \in Seq(OrderIds) /\ mail \subseteq Events
    BY DEF BillingInit
  <2>6. clock \in 0..MaxClock /\ troubles \in Nat /\ seen \in {"unknown", "free", "pro"}
    BY <1>0 DEF BillingInit
  <2>7. silent \in BOOLEAN
    BY DEF BillingInit
  <2> QED
    BY <2>1, <2>2, <2>3, <2>4, <2>5, <2>6, <2>7 DEF Typed
<1>2. Counted(debits) = {} /\ Credited(debits) = {}
  BY DEF BillingInit, Counted, Credited
<1>3. UsageKept
  <2>1. profile.used = 0 /\ profile.end = 0 /\ clock = 0
    BY DEF BillingInit, NoPeriod
  <2>2. Cardinality(Counted(debits)) = 0
    BY <1>2, FS_EmptySet
  <2>3. \A v \in Videos : debits[v].kind # "monthly"
    BY DEF BillingInit
  <2>4. LimitOf(profile.tier) \in Nat
    BY LimitType
  <2> QED
    BY <2>1, <2>2, <2>3, <2>4 DEF UsageKept
<1>4. CreditsKept
  <2>1. profile.extra = 0 /\ granted = << >>
    BY DEF BillingInit
  <2>2. Len(granted) = 0 /\ Credits * 0 = 0 /\ Cardinality(Credited(debits)) = 0
    BY <1>2, <2>1, FS_EmptySet, BillingAssumption
  <2> QED
    BY <2>1, <2>2 DEF CreditsKept
<1>5. OrdersKept /\ PeriodsKept /\ CancelsKept /\ SubscriberIsLinked
  BY DEF BillingInit, OrdersKept, PeriodsKept, CancelsKept, SubscriberIsLinked, NoPeriod
<1> QED
  BY <1>1, <1>3, <1>4, <1>5 DEF AccountInv

\* A step that leaves orders, mail and the paid period alone.
LEMMA AllowanceStep ==
    ASSUME AccountInv, Typed', UsageKept',
           profile'.extra + Cardinality(Credited(debits')) = profile.extra + Cardinality(Credited(debits)),
           UNCHANGED <<clock, orders, ends, canceled, granted, mail, silent>>,
           profile'.end = profile.end, profile'.cancel = profile.cancel, profile'.linked = profile.linked,
           profile'.tier = "pro" => profile.tier = "pro"
    PROVE  AccountInv'
<1> USE DEF AccountInv
<1>1. OrdersKept'
  BY DEF OrdersKept
<1>2. CreditsKept'
  BY DEF CreditsKept
<1>3. PeriodsKept'
  BY DEF PeriodsKept, Awaited
<1>4. CancelsKept'
  BY DEF CancelsKept
<1>5. SubscriberIsLinked'
  BY DEF SubscriberIsLinked
<1> QED
  BY <1>1, <1>2, <1>3, <1>4, <1>5

\* What a reset of the usage leaves of the debits.
LEMMA SetBackEffect ==
    ASSUME debits \in [Videos -> Debits], NEW b \in BOOLEAN
    PROVE  /\ SetBack(b) \in [Videos -> Debits]
           /\ \A v \in Videos : /\ SetBack(b)[v].kind = debits[v].kind /\ SetBack(b)[v].refunded = debits[v].refunded
                                /\ SetBack(b)[v].reset = debits[v].reset /\ SetBack(b)[v].tier = debits[v].tier
                                /\ SetBack(b)[v].end = debits[v].end
                                /\ b => ~SetBack(b)[v].current
                                /\ ~b => SetBack(b)[v].current = debits[v].current
<1>1. CASE b
  BY <1>1 DEF SetBack, Debits
<1>2. CASE ~b
  BY <1>2 DEF SetBack, Debits
<1> QED
  BY <1>1, <1>2

\* A submission debits one unit of the allowance it finds or starts.
LEMMA SubmitStep ==
    ASSUME AccountInv, NEW v \in Videos, SubmitVideo(v)
    PROVE  AccountInv'
<1> USE DEF AccountInv
<1> DEFINE p    == Reconcile(profile, clock)
           kind == IF WithinAllowance(p) THEN "monthly" ELSE IF p.extra > 0 THEN "extra" ELSE "none"
           b    == Lapsed(profile, clock) \/ profile.reset <= clock
           old  == SetBack(b)
           new  == [kind |-> kind, reset |-> p.reset, tier |-> p.tier, end |-> p.end, refunded |-> FALSE, current |-> TRUE]
<1>1. /\ profile \in Profiles /\ clock \in 0..MaxClock /\ debits \in [Videos -> Debits]
      /\ debits[v].kind = "none"
      /\ UNCHANGED <<clock, orders, ends, canceled, granted, mail, troubles, silent, seen>>
  BY DEF SubmitVideo, Typed
<1>2. /\ p \in Profiles /\ p.used <= LimitOf(p.tier) /\ (p.tier = "free" => p.end <= clock)
      /\ p.extra = profile.extra /\ p.end = profile.end /\ p.cancel = profile.cancel /\ p.linked = profile.linked
      /\ p.tier = "pro" => profile.tier = "pro"
      /\ IF b THEN Before(profile, p) /\ p.used = 0 ELSE p = profile
  BY <1>1, ReconcileEffect DEF UsageKept
<1>3. /\ profile' = CASE kind = "monthly" -> [p EXCEPT !.used = @ + 1]
                      [] kind = "extra"   -> [p EXCEPT !.extra = @ - 1]
                      [] OTHER            -> p
      /\ debits' = IF kind = "none" THEN old ELSE [old EXCEPT ![v] = new]
  BY DEF SubmitVideo
<1>4. /\ old \in [Videos -> Debits]
      /\ \A u \in Videos : /\ old[u].kind = debits[u].kind /\ old[u].refunded = debits[u].refunded
                           /\ old[u].reset = debits[u].reset /\ old[u].tier = debits[u].tier
                           /\ old[u].end = debits[u].end
                           /\ b => ~old[u].current
                           /\ ~b => old[u].current = debits[u].current
  <2>1. b \in BOOLEAN
    BY DEF Lapsed
  <2> HIDE DEF b
  <2> QED
    BY <1>1, <2>1, SetBackEffect
<1>5. kind \in {"monthly", "extra", "none"} /\ (kind = "monthly" => p.used < LimitOf(p.tier)) /\ (kind = "extra" => p.extra > 0)
  BY DEF WithinAllowance
<1>6. kind # "none" => new \in Debits
  BY <1>2, <1>5, Parts DEF Debits
<1>7. new.kind = kind /\ new.reset = p.reset /\ new.tier = p.tier /\ new.end = p.end /\ new.refunded = FALSE /\ new.current = TRUE
  OBVIOUS
<1> HIDE DEF p, kind, b, old, new
<1>8. p.used \in Nat /\ p.extra \in Nat
  BY <1>2, Parts
<1>9. /\ profile' \in Profiles
      /\ profile'.used = (IF kind = "monthly" THEN p.used + 1 ELSE p.used)
      /\ profile'.extra = (IF kind = "extra" THEN p.extra - 1 ELSE p.extra)
      /\ profile'.tier = p.tier /\ profile'.reset = p.reset /\ profile'.end = p.end
      /\ profile'.cancel = p.cancel /\ profile'.linked = p.linked
  <2>1. CASE kind = "monthly"
    <3>1. profile' = [p EXCEPT !.used = p.used + 1]
      BY <1>3, <2>1
    <3> QED
      BY <1>2, <1>8, <2>1, <3>1 DEF Profiles
  <2>2. CASE kind = "extra"
    <3>1. profile' = [p EXCEPT !.extra = p.extra - 1] /\ p.extra - 1 \in Nat
      BY <1>3, <1>5, <1>8, <2>2
    <3> QED
      BY <1>2, <1>8, <2>2, <3>1 DEF Profiles
  <2>3. CASE kind = "none"
    BY <1>2, <1>3, <2>3
  <2> QED
    BY <1>5, <2>1, <2>2, <2>3
<1>10. debits' \in [Videos -> Debits] /\ \A u \in Videos : debits'[u] = IF u = v /\ kind # "none" THEN new ELSE old[u]
  BY <1>3, <1>4, <1>6
<1>11. Typed'
  BY <1>1, <1>9, <1>10 DEF Typed
<1>12. profile'.extra + Cardinality(Credited(debits')) = profile.extra + Cardinality(Credited(debits))
  <2>1. CASE kind = "extra"
    <3>1. Credited(debits') = Credited(debits) \cup {v} /\ v \notin Credited(debits)
      BY <1>1, <1>4, <1>7, <1>10, <2>1 DEF Credited
    <3>2. Cardinality(Credited(debits')) = Cardinality(Credited(debits)) + 1
      BY <3>1, VideoSets, FS_AddElement
    <3> QED
      BY <1>2, <1>8, <1>9, <2>1, <3>2, VideoSets
  <2>2. CASE kind # "extra"
    <3>1. Credited(debits') = Credited(debits)
      BY <1>1, <1>4, <1>7, <1>10, <2>2 DEF Credited
    <3> QED
      BY <1>2, <1>9, <2>2, <3>1
  <2> QED
    BY <2>1, <2>2
<1>13. \A u \in Videos : debits'[u].kind = "monthly" =>
           Before(debits'[u], profile') \/ (SameAllowance(debits'[u], profile') /\ debits'[u].current)
  <2> SUFFICES ASSUME NEW u \in Videos, debits'[u].kind = "monthly"
               PROVE  Before(debits'[u], profile') \/ (SameAllowance(debits'[u], profile') /\ debits'[u].current)
    OBVIOUS
  <2>1. CASE u = v
    <3>1. debits'[u] = new
      BY <1>1, <1>4, <1>10, <2>1
    <3> QED
      BY <1>7, <1>9, <3>1 DEF SameAllowance
  <2>2. CASE u # v
    <3>1. debits'[u] = old[u] /\ debits[u].kind = "monthly"
      BY <1>4, <1>10, <2>2
    <3>2. Before(debits[u], profile) \/ (SameAllowance(debits[u], profile) /\ debits[u].current)
      BY <3>1 DEF UsageKept
    <3>3. b => Before(debits[u], p)
      BY <1>1, <1>2, <3>2, BeforeOrder, Parts
    <3>4. Before(debits[u], p) \/ (SameAllowance(debits[u], p) /\ old[u].current)
      BY <1>2, <1>4, <3>2, <3>3
    <3> QED
      BY <1>4, <1>9, <3>1, <3>4 DEF Before, SameAllowance
  <2> QED
    BY <2>1, <2>2
<1>14. Cardinality(Counted(debits')) <= profile'.used
  <2>1. b => Counted(debits') \subseteq {v}
    BY <1>4, <1>10 DEF Counted
  <2>2. ~b => Counted(debits') \subseteq Counted(debits) \cup {v}
    BY <1>4, <1>10 DEF Counted
  <2>3. kind # "monthly" => v \notin Counted(debits')
    BY <1>1, <1>4, <1>7, <1>10 DEF Counted
  <2> DEFINE base == IF b THEN {} ELSE Counted(debits)
  <2>4. IsFiniteSet(base) /\ Cardinality(base) <= p.used /\ Cardinality(base) \in Nat
    BY <1>2, VideoSets, FS_EmptySet DEF UsageKept
  <2>5. Counted(debits') \subseteq base \cup {v} /\ (kind # "monthly" => Counted(debits') \subseteq base)
    BY <2>1, <2>2, <2>3
  <2> HIDE DEF base
  <2>6. CASE kind = "monthly"
    <3>1. IsFiniteSet(base \cup {v}) /\ Cardinality(base \cup {v}) <= Cardinality(base) + 1 /\ Cardinality(base \cup {v}) \in Nat
      <4>1. v \in base => base \cup {v} = base
        OBVIOUS
      <4>2. v \notin base => IsFiniteSet(base \cup {v}) /\ Cardinality(base \cup {v}) = Cardinality(base) + 1
        BY <2>4, FS_AddElement
      <4> QED
        BY <2>4, <4>1, <4>2
    <3>2. Cardinality(Counted(debits')) <= Cardinality(base \cup {v})
      BY <2>5, <3>1, FS_Subset
    <3> QED
      BY <1>8, <1>9, <2>4, <2>6, <3>1, <3>2, VideoSets
  <2>7. CASE kind # "monthly"
    <3>1. Cardinality(Counted(debits')) <= Cardinality(base)
      BY <2>4, <2>5, <2>7, FS_Subset
    <3> QED
      BY <1>8, <1>9, <2>4, <2>7, <3>1, VideoSets
  <2> QED
    BY <2>6, <2>7
<1>15. profile'.used <= LimitOf(profile'.tier) /\ (profile'.tier = "free" => profile'.end <= clock')
  BY <1>1, <1>2, <1>5, <1>8, <1>9, LimitType
<1>16. UsageKept'
  BY <1>13, <1>14, <1>15 DEF UsageKept
<1> QED
  BY <1>1, <1>2, <1>9, <1>11, <1>12, <1>16, AllowanceStep

\* A refund gives a unit back to the allowance it was taken from, if that one still counts.
LEMMA RefundStep ==
    ASSUME AccountInv, NEW v \in Videos, RefundVideo(v)
    PROVE  AccountInv'
<1> USE DEF AccountInv
<1> DEFINE d == debits[v]
           back == d.kind = "monthly" /\ SameAllowance(d, profile) /\ profile.used > 0
<1>1. /\ profile \in Profiles /\ debits \in [Videos -> Debits] /\ d.kind # "none" /\ ~d.refunded
      /\ UNCHANGED <<clock, orders, ends, canceled, granted, mail, troubles, silent, seen>>
      /\ debits' = [debits EXCEPT ![v].refunded = TRUE]
      /\ profile' = CASE d.kind = "extra" -> [profile EXCEPT !.extra = @ + 1]
                      [] d.kind = "monthly" /\ SameAllowance(d, profile) /\ profile.used > 0 -> [profile EXCEPT !.used = @ - 1]
                      [] OTHER -> profile
  BY DEF RefundVideo, Typed
<1>2. d \in Debits /\ d.kind \in {"monthly", "extra"} /\ profile.used \in Nat /\ profile.extra \in Nat
  BY <1>1, Parts
<1>3. /\ debits' \in [Videos -> Debits]
      /\ \A u \in Videos : /\ debits'[u].kind = debits[u].kind /\ debits'[u].reset = debits[u].reset
                           /\ debits'[u].tier = debits[u].tier /\ debits'[u].end = debits[u].end
                           /\ debits'[u].current = debits[u].current
                           /\ debits'[u].refunded = (u = v \/ debits[u].refunded)
  <2>1. debits' = [debits EXCEPT ![v] = [d EXCEPT !.refunded = TRUE]]
    BY <1>1
  <2>2. [d EXCEPT !.refunded = TRUE] \in Debits
    <3>1. \A x \in Debits, b \in BOOLEAN : [x EXCEPT !.refunded = b] \in Debits
      BY DEF Debits
    <3>2. TRUE \in BOOLEAN
      OBVIOUS
    <3> QED
      BY <1>2, <3>1, <3>2
  <2>3. LET z == [d EXCEPT !.refunded = TRUE] IN
        /\ z.kind = d.kind /\ z.reset = d.reset /\ z.tier = d.tier /\ z.end = d.end /\ z.current = d.current
        /\ z.refunded
    <3>1. \A x \in Debits : LET z == [x EXCEPT !.refunded = TRUE] IN
             /\ z.kind = x.kind /\ z.reset = x.reset /\ z.tier = x.tier /\ z.end = x.end /\ z.current = x.current
             /\ z.refunded
      BY DEF Debits
    <3> QED
      BY <1>2, <3>1
  <2>4. d.refunded \in BOOLEAN /\ \A u \in Videos : debits[u].refunded \in BOOLEAN
    BY <1>1, <1>2, Parts
  <2> QED
    <3> DEFINE z == [d EXCEPT !.refunded = TRUE]
    <3>1. \A u \in Videos : debits'[u] = IF u = v THEN z ELSE debits[u]
      BY <1>1, <2>1, <2>2
    <3>2. debits' \in [Videos -> Debits]
      BY <1>1, <2>1, <2>2
    <3>3. /\ z.kind = debits[v].kind /\ z.reset = debits[v].reset /\ z.tier = debits[v].tier
          /\ z.end = debits[v].end /\ z.current = debits[v].current
      BY <2>3
    <3>4. z.refunded = TRUE
      BY <2>3
    <3> HIDE DEF z, d
    <3>5. \A u \in Videos : debits'[u].refunded = (u = v \/ debits[u].refunded)
      BY <2>4, <3>1, <3>4
    <3> QED
      BY <3>1, <3>2, <3>3, <3>5
<1> HIDE DEF d
<1>4. /\ profile' \in Profiles
      /\ profile'.used = (IF back THEN profile.used - 1 ELSE profile.used)
      /\ profile'.extra = (IF d.kind = "extra" THEN profile.extra + 1 ELSE profile.extra)
      /\ profile'.tier = profile.tier /\ profile'.reset = profile.reset /\ profile'.end = profile.end
      /\ profile'.cancel = profile.cancel /\ profile'.linked = profile.linked
  <2>1. CASE d.kind = "extra"
    <3>1. profile' = [profile EXCEPT !.extra = profile.extra + 1]
      BY <1>1, <2>1
    <3> QED
      BY <1>1, <1>2, <2>1, <3>1 DEF Profiles
  <2>2. CASE back
    <3>1. profile' = [profile EXCEPT !.used = profile.used - 1] /\ profile.used - 1 \in Nat
      BY <1>1, <1>2, <2>2
    <3> QED
      BY <1>1, <1>2, <2>2, <3>1 DEF Profiles
  <2>3. CASE d.kind # "extra" /\ ~back
    BY <1>1, <2>3
  <2> QED
    BY <2>1, <2>2, <2>3
<1>5. Typed'
  BY <1>1, <1>3, <1>4 DEF Typed
<1>6. profile'.extra + Cardinality(Credited(debits')) = profile.extra + Cardinality(Credited(debits))
  <2>1. Credited(debits') = Credited(debits) \ {v}
    BY <1>3 DEF Credited
  <2>2. v \in Credited(debits) <=> d.kind = "extra"
    BY <1>1 DEF Credited, d
  <2>3. Cardinality(Credited(debits')) = IF d.kind = "extra" THEN Cardinality(Credited(debits)) - 1 ELSE Cardinality(Credited(debits))
    BY <2>1, <2>2, VideoSets, FS_RemoveElement
  <2> QED
    BY <1>2, <1>4, <2>3, VideoSets
<1>7. \A u \in Videos : debits'[u].kind = "monthly" =>
           Before(debits'[u], profile') \/ (SameAllowance(debits'[u], profile') /\ debits'[u].current)
  BY <1>3, <1>4 DEF UsageKept, Before, SameAllowance
<1>8. Cardinality(Counted(debits')) <= profile'.used
  <2>1. Counted(debits') = Counted(debits) \ {v}
    BY <1>3 DEF Counted
  <2>2. back => v \in Counted(debits)
    <3> SUFFICES ASSUME back PROVE v \in Counted(debits)
      OBVIOUS
    <3>1. ~Before(d, profile)
      BY <1>1, <1>2, BeforeOrder, Parts
    <3>2. d.current
      BY <3>1 DEF UsageKept, d
    <3> QED
      BY <1>1, <3>2 DEF Counted, d
  <2>3. Cardinality(Counted(debits')) = IF v \in Counted(debits) THEN Cardinality(Counted(debits)) - 1 ELSE Cardinality(Counted(debits))
    BY <2>1, VideoSets, FS_RemoveElement
  <2> HIDE DEF back
  <2> QED
    BY <1>2, <1>4, <2>2, <2>3, VideoSets DEF UsageKept
<1>9. profile'.used <= LimitOf(profile'.tier)
  BY <1>2, <1>4, LimitType DEF UsageKept
<1>10. UsageKept'
  BY <1>1, <1>4, <1>7, <1>8, <1>9 DEF UsageKept
<1> QED
  BY <1>1, <1>4, <1>5, <1>6, <1>10, AllowanceStep

-----------------------------------------------------------------------------
(* The page, the provider and the clock. *)

\* What the state of an account is made of, taken apart.
LEMMA Fields ==
    ASSUME AccountInv
    PROVE  /\ profile \in Profiles /\ debits \in [Videos -> Debits] /\ orders \in [OrderIds -> Orders]
           /\ ends \in [OrderIds -> Times] /\ mail \subseteq Events /\ canceled \subseteq Times
           /\ clock \in 0..MaxClock /\ clock \in Nat /\ profile.end \in Nat
           /\ \A o \in OrderIds : /\ ends[o] \in Times /\ ends[o] \in Nat /\ orders[o].status \in {"none", "pending", "completed"}
                                  /\ orders[o].known \in BOOLEAN /\ orders[o].paid \in BOOLEAN
                                  /\ orders[o].product \in {"pro", "topup"}
           /\ \A e \in mail : e.type \in {"checkout", "paid", "cancel"} /\ e.order \in OrderIds /\ e.end \in Times
<1>1. Typed
  BY DEF AccountInv
<1>2. \A x \in Orders : /\ x.status \in {"none", "pending", "completed"} /\ x.known \in BOOLEAN
                        /\ x.paid \in BOOLEAN /\ x.product \in {"pro", "topup"}
  BY DEF Orders
<1>3. profile.end \in Nat
  <2>1. profile \in Profiles
    BY <1>1 DEF Typed
  <2> QED
    BY <2>1, Parts
<1>4. /\ profile \in Profiles /\ debits \in [Videos -> Debits] /\ orders \in [OrderIds -> Orders]
      /\ ends \in [OrderIds -> Times] /\ mail \subseteq Events /\ canceled \subseteq Times
      /\ clock \in 0..MaxClock
  BY <1>1 DEF Typed
<1>5. clock \in Nat
  BY <1>4, Parts
<1>6. \A o \in OrderIds : ends[o] \in Times /\ ends[o] \in Nat
  BY <1>4, Parts
<1>7. \A o \in OrderIds : orders[o] \in Orders
  BY <1>4
<1>8. \A e \in mail : e \in Events
  BY <1>4
<1> QED
  BY <1>2, <1>3, <1>4, <1>5, <1>6, <1>7, <1>8, Parts

\* A cancellation is kept until it is marked or a later period follows.
LEMMA CancelsStep ==
    ASSUME AccountInv, canceled' = canceled, clock' \in Nat, clock <= clock', profile'.end \in Nat,
           profile.end <= profile'.end,
           profile'.end = profile.end => profile'.cancel = profile.cancel,
           profile'.end # profile.end => profile'.cancel = "no",
           \A x \in mail : x.type = "cancel" => x \in mail'
    PROVE  CancelsKept'
<1>1. canceled \subseteq Nat /\ clock \in Nat /\ profile.end \in Nat
  BY Fields, Parts
<1>2. CancelsKept
  BY DEF AccountInv
<1>3. profile'.cancel = "yes" => profile'.end \in canceled'
  BY <1>2 DEF CancelsKept
<1>4. profile'.end # NoPeriod => profile'.cancel # "unknown"
  BY <1>2 DEF CancelsKept
<1>5. ASSUME NEW end \in canceled'
      PROVE  \/ end <= clock' \/ end < profile'.end
             \/ end = profile'.end /\ profile'.cancel = "yes"
             \/ \E e \in mail' : e.type = "cancel" /\ e.end = end
  <2>1. end \in canceled /\ end \in Nat
    BY <1>1, <1>5
  <2>2. CASE \E e \in mail : e.type = "cancel" /\ e.end = end
    BY <2>2
  <2>3. CASE end <= clock \/ end < profile.end
    BY <1>1, <2>1, <2>3
  <2>4. CASE end = profile.end /\ profile.cancel = "yes"
    BY <1>1, <2>1, <2>4
  <2> QED
    BY <1>2, <2>1, <2>2, <2>3, <2>4 DEF CancelsKept
<1> QED
  BY <1>3, <1>4, <1>5 DEF CancelsKept

\* A step that neither uses nor credits the account.
LEMMA SameAccount ==
    ASSUME AccountInv, UNCHANGED <<profile, debits>>, clock' \in Nat, clock <= clock'
    PROVE  UsageKept'
<1>1. clock \in Nat /\ profile.end \in Nat
  BY Fields
<1>2. UsageKept
  BY DEF AccountInv
<1>3. profile.tier = "free" => profile.end <= clock'
  BY <1>1, <1>2 DEF UsageKept
<1> QED
  BY <1>2, <1>3 DEF UsageKept

\* Reading the profile changes nothing of it.
LEMMA LoadStep == AccountInv /\ LoadProfile => AccountInv'
<1> SUFFICES ASSUME AccountInv, LoadProfile PROVE AccountInv'
  OBVIOUS
<1> USE DEF AccountInv
<1>1. seen' \in {"free", "pro"}
  <2>1. profile.tier \in {"free", "pro"} /\ profile \in Profiles
    BY Fields, Parts
  <2>2. Project(profile, clock).tier \in {"free", "pro"}
    BY <2>1 DEF Project, Profiles
  <2> QED
    BY <2>2 DEF LoadProfile
<1>2. UNCHANGED <<clock, profile, debits, orders, ends, canceled, granted, mail, troubles, silent>>
  BY DEF LoadProfile
<1>3. Typed'
  BY <1>1, <1>2 DEF Typed
<1>4. UsageKept' /\ OrdersKept' /\ CreditsKept'
  BY <1>2 DEF UsageKept, OrdersKept, CreditsKept
<1>5. PeriodsKept' /\ CancelsKept' /\ SubscriberIsLinked'
  BY <1>2 DEF PeriodsKept, Awaited, CancelsKept, SubscriberIsLinked
<1> QED
  BY <1>3, <1>4, <1>5

\* Time makes periods lapse and cancellations obsolete.
LEMMA TimeStep == AccountInv /\ TimePasses => AccountInv'
<1> SUFFICES ASSUME AccountInv, TimePasses PROVE AccountInv'
  OBVIOUS
<1> USE DEF AccountInv
<1>1. clock \in Nat /\ clock' = clock + 1 /\ clock' \in 0..MaxClock /\ clock' \in Nat
  BY Fields, Parts DEF TimePasses
<1>2. UNCHANGED <<profile, debits, orders, ends, canceled, granted, mail, troubles, silent, seen>>
  BY DEF TimePasses
<1>3. Typed'
  BY <1>1, <1>2 DEF Typed
<1>4. UsageKept'
  BY <1>1, <1>2, SameAccount
<1>5. OrdersKept' /\ CreditsKept'
  BY <1>2 DEF OrdersKept, CreditsKept
<1>6. PeriodsKept'
  <2>1. \A o \in OrderIds : ends[o] > clock' => ends[o] > clock
    BY <1>1, Fields
  <2> QED
    BY <1>2, <2>1 DEF PeriodsKept, Awaited
<1>7. CancelsKept'
  BY <1>1, <1>2, CancelsStep, Fields
<1>8. SubscriberIsLinked'
  BY <1>2 DEF SubscriberIsLinked
<1> QED
  BY <1>3, <1>4, <1>5, <1>6, <1>7, <1>8

\* A new order touches none that was paid.
LEMMA CheckoutStep ==
    ASSUME AccountInv, NEW o \in OrderIds, NEW product \in {"pro", "topup"}, NEW known \in BOOLEAN,
           HandleCheckout(o, product, known)
    PROVE  AccountInv'
<1> USE DEF AccountInv
<1> DEFINE new == [product |-> product, known |-> known, paid |-> FALSE, status |-> "pending"]
<1>1. /\ orders[o].status = "none" /\ orders' = [orders EXCEPT ![o] = new]
      /\ silent' = (silent \/ ~known) /\ troubles' = (IF known THEN troubles ELSE troubles + 1)
      /\ UNCHANGED <<clock, profile, debits, ends, canceled, granted, mail, seen>>
  BY DEF HandleCheckout, CreateCheckoutSession
<1>2. new \in Orders /\ new.product = product /\ new.known = known /\ ~new.paid /\ new.status = "pending"
  BY DEF Orders
<1> HIDE DEF new
<1>3. /\ orders' \in [OrderIds -> Orders] /\ \A q \in OrderIds : orders'[q] = IF q = o THEN new ELSE orders[q]
      /\ ~orders[o].paid
  BY <1>1, <1>2, Fields DEF OrdersKept
<1>4. Typed'
  <2>1. silent' \in BOOLEAN
    BY <1>1 DEF Typed
  <2>2. troubles' \in Nat
    BY <1>1 DEF Typed
  <2> QED
    BY <1>1, <1>3, <2>1, <2>2 DEF Typed
<1>5. UsageKept'
  BY <1>1, SameAccount, Fields
<1>6. OrdersKept'
  <2>1. \A q \in OrderIds :
          /\ orders'[q].status = "none" => ~orders'[q].paid
          /\ orders'[q].status # "none" /\ ~orders'[q].known => silent'
          /\ ~orders'[q].paid => ends[q] = NoPeriod
    BY <1>1, <1>2, <1>3 DEF OrdersKept
  <2>2. \A e \in mail : e.order \in OrderIds /\ e.order # o
    BY <1>3, Fields DEF OrdersKept
  <2>3. \A e \in mail : orders'[e.order] = orders[e.order]
    BY <1>3, <2>2
  <2> QED
    BY <1>1, <2>1, <2>3 DEF OrdersKept
<1>7. CreditsKept'
  <2>1. granted \in Seq(OrderIds)
    BY DEF Typed
  <2>2. \A i \in 1..Len(granted) : granted[i] \in OrderIds
    BY <2>1
  <2>3. ~silent => \A i \in 1..Len(granted) : orders'[granted[i]] = orders[granted[i]]
    BY <1>1, <1>3, <2>2 DEF CreditsKept
  <2> QED
    BY <1>1, <2>3 DEF CreditsKept
<1>8. PeriodsKept'
  <2>1. \A q \in OrderIds : orders[q].status # "completed" => orders'[q].status # "completed"
    BY <1>2, <1>3
  <2> QED
    BY <1>1, <2>1 DEF PeriodsKept, Awaited
<1>9. CancelsKept'
  BY <1>1, CancelsStep, Fields
<1>10. SubscriberIsLinked'
  BY <1>1 DEF SubscriberIsLinked
<1> QED
  BY <1>4, <1>5, <1>6, <1>7, <1>8, <1>9, <1>10

\* A payment is announced by a checkout event, and the period of a subscription by one of its own.
LEMMA PayStep ==
    ASSUME AccountInv, NEW o \in OrderIds, PayCheckout(o)
    PROVE  AccountInv'
<1> USE DEF AccountInv
<1> DEFINE end == IF orders[o].product = "pro" THEN clock + Period ELSE NoPeriod
           more == {Event("checkout", o, end)} \cup (IF end = NoPeriod THEN {} ELSE {Event("paid", o, end)})
<1>1. /\ orders[o].status = "pending" /\ ~orders[o].paid
      /\ orders' = [orders EXCEPT ![o].paid = TRUE] /\ ends' = [ends EXCEPT ![o] = end]
      /\ mail' = mail \cup more
      /\ UNCHANGED <<clock, profile, debits, canceled, granted, troubles, silent, seen>>
  BY DEF PayCheckout
<1>2. end \in Times /\ (orders[o].product = "topup" => end = NoPeriod)
  BY BillingAssumption, Fields DEF Times, NoPeriod
<1> HIDE DEF end
<1>3. /\ more \subseteq Events /\ Event("checkout", o, end) \in more
      /\ \A e \in more : e.order = o /\ e.end = end /\ e.type \in {"checkout", "paid"}
  BY <1>2 DEF Event, Events
<1> HIDE DEF more
<1>4. /\ orders' \in [OrderIds -> Orders]
      /\ \A q \in OrderIds : /\ orders'[q].status = orders[q].status /\ orders'[q].known = orders[q].known
                             /\ orders'[q].product = orders[q].product
                             /\ orders'[q].paid <=> (q = o \/ orders[q].paid)
  BY <1>1, Fields DEF Orders
<1>5. ends[o] = NoPeriod /\ ends' \in [OrderIds -> Times] /\ \A q \in OrderIds : ends'[q] = IF q = o THEN end ELSE ends[q]
  BY <1>1, <1>2, Fields DEF OrdersKept
<1>6. Typed'
  BY <1>1, <1>3, <1>4, <1>5 DEF Typed
<1>7. UsageKept'
  BY <1>1, SameAccount, Fields
<1>8. \A e \in mail : e.order \in OrderIds /\ e.order # o
  BY <1>1, Fields DEF OrdersKept
<1>9. OrdersKept'
  <2>1. \A q \in OrderIds :
          /\ orders'[q].status = "none" => ~orders'[q].paid
          /\ orders'[q].status # "none" /\ ~orders'[q].known => silent'
          /\ ~orders'[q].paid => ends'[q] = NoPeriod
    BY <1>1, <1>4, <1>5 DEF OrdersKept
  <2>2. ASSUME NEW e \in mail'
        PROVE  /\ orders'[e.order].paid
               /\ e.type = "checkout" => e.end = ends'[e.order] /\ (orders'[e.order].product = "topup" => e.end = NoPeriod)
               /\ e.type = "paid" => e.end <= ends'[e.order]
               /\ e.type = "cancel" => e.end \in canceled'
    <3>1. CASE e \in mail
      BY <1>1, <1>4, <1>5, <1>8, <3>1 DEF OrdersKept
    <3>2. CASE e \in more
      <4>1. e.order = o /\ e.end = end /\ e.type # "cancel" /\ end \in Nat
        BY <1>2, <1>3, <3>2, Parts
      <4> QED
        BY <1>2, <1>4, <1>5, <4>1
    <3> QED
      BY <1>1, <3>1, <3>2
  <2> QED
    BY <2>1, <2>2 DEF OrdersKept
<1>10. CreditsKept'
  <2>1. \A i \in 1..Len(granted) : granted[i] \in OrderIds
    BY DEF Typed
  <2> QED
    BY <1>1, <1>4, <2>1 DEF CreditsKept
<1>11. PeriodsKept'
  <2>1. \A q \in OrderIds : ends[q] <= ends'[q]
    BY <1>2, <1>5, Fields, Parts DEF NoPeriod
  <2>2. profile.end = NoPeriod \/ \E q \in OrderIds : profile.end <= ends'[q]
    <3>1. \A q \in OrderIds : ends[q] \in Nat /\ ends'[q] \in Nat
      BY <1>5, Fields, Parts
    <3> QED
      BY <2>1, <3>1, Fields DEF PeriodsKept
  <2>3. Awaited(o, "checkout")'
    BY <1>1, <1>3, <1>5 DEF Awaited, Event
  <2>4. \A q \in OrderIds, type \in {"checkout", "paid"} : q # o /\ Awaited(q, type) => Awaited(q, type)'
    BY <1>1, <1>5 DEF Awaited
  <2> QED
    BY <1>1, <1>4, <1>5, <2>2, <2>3, <2>4 DEF PeriodsKept
<1>12. CancelsKept'
  BY <1>1, CancelsStep, Fields
<1>13. SubscriberIsLinked'
  BY <1>1 DEF SubscriberIsLinked
<1> QED
  BY <1>6, <1>7, <1>9, <1>10, <1>11, <1>12, <1>13

\* A renewal is announced to the account its checkout linked.
LEMMA RenewStep ==
    ASSUME AccountInv, NEW o \in OrderIds, Renew(o)
    PROVE  AccountInv'
<1> USE DEF AccountInv
<1> DEFINE end == ends[o] + Period
           new == Event("paid", o, end)
<1>1. /\ ends[o] # NoPeriod /\ end \in Times
      /\ \A e \in mail : e.type # "checkout" \/ e.order # o
      /\ ends' = [ends EXCEPT ![o] = end] /\ mail' = mail \cup {new}
      /\ UNCHANGED <<clock, profile, debits, orders, canceled, granted, troubles, silent, seen>>
  BY DEF Renew
<1>2. ends[o] <= end /\ end \in Nat
  BY Fields, Parts
<1> HIDE DEF end
<1>3. new \in Events /\ new.type = "paid" /\ new.order = o /\ new.end = end
  BY <1>1 DEF Event, Events
<1> HIDE DEF new
<1>4. ends' \in [OrderIds -> Times] /\ \A q \in OrderIds : ends'[q] = IF q = o THEN end ELSE ends[q]
  BY <1>1, Fields
<1>5. orders[o].paid
  BY <1>1 DEF OrdersKept
<1>6. Typed'
  BY <1>1, <1>3, <1>4 DEF Typed
<1>7. UsageKept'
  BY <1>1, SameAccount, Fields
<1>8. \A q \in OrderIds : ends[q] <= ends'[q] /\ ends[q] \in Nat /\ ends'[q] \in Nat
  BY <1>2, <1>4, Fields, Parts
<1>9. OrdersKept'
  <2>1. ASSUME NEW e \in mail'
        PROVE  /\ orders'[e.order].paid
               /\ e.type = "checkout" => e.end = ends'[e.order] /\ (orders'[e.order].product = "topup" => e.end = NoPeriod)
               /\ e.type = "paid" => e.end <= ends'[e.order]
               /\ e.type = "cancel" => e.end \in canceled'
    <3>1. CASE e \in mail
      <4>1. e.end \in Nat /\ e.order \in OrderIds
        BY <3>1, Fields, Parts
      <4>2. e.type = "checkout" => e.order # o
        BY <1>1, <3>1
      <4> QED
        BY <1>1, <1>4, <1>8, <3>1, <4>1, <4>2 DEF OrdersKept
    <3>2. CASE e = new
      BY <1>1, <1>2, <1>3, <1>4, <1>5, <3>2
    <3> QED
      BY <1>1, <3>1, <3>2
  <2>2. \A q \in OrderIds : ~orders[q].paid => ends'[q] = NoPeriod
    BY <1>4, <1>5 DEF OrdersKept
  <2> QED
    BY <1>1, <2>1, <2>2 DEF OrdersKept
<1>10. CreditsKept'
  BY <1>1 DEF CreditsKept
<1>11. PeriodsKept'
  <2>1. profile.end = NoPeriod \/ \E q \in OrderIds : profile.end <= ends'[q]
    BY <1>8, Fields DEF PeriodsKept
  <2>2. Awaited(o, "paid")'
    BY <1>1, <1>3, <1>4 DEF Awaited
  <2>3. \A q \in OrderIds, type \in {"checkout", "paid"} : q # o /\ Awaited(q, type) => Awaited(q, type)'
    BY <1>1, <1>4 DEF Awaited
  <2>4. ~silent => profile.linked
    BY <1>1 DEF PeriodsKept, Awaited
  <2> QED
    BY <1>1, <1>4, <2>1, <2>2, <2>3, <2>4 DEF PeriodsKept
<1>12. CancelsKept'
  BY <1>1, CancelsStep, Fields
<1>13. SubscriberIsLinked'
  BY <1>1 DEF SubscriberIsLinked
<1> QED
  BY <1>6, <1>7, <1>9, <1>10, <1>11, <1>12, <1>13

\* A cancellation is announced for the period that runs.
LEMMA CancelStep ==
    ASSUME AccountInv, NEW o \in OrderIds, CancelRenewal(o)
    PROVE  AccountInv'
<1> USE DEF AccountInv
<1> DEFINE new == Event("cancel", o, ends[o])
<1>1. /\ ends[o] > clock
      /\ canceled' = canceled \cup {ends[o]} /\ mail' = mail \cup {new}
      /\ UNCHANGED <<clock, profile, debits, orders, ends, granted, troubles, silent, seen>>
  BY DEF CancelRenewal
<1>2. ends[o] \in Times /\ ends[o] # NoPeriod /\ clock \in Nat
  BY <1>1, Fields DEF NoPeriod
<1>3. new \in Events /\ new.type = "cancel" /\ new.order = o /\ new.end = ends[o]
  BY <1>2 DEF Event, Events
<1> HIDE DEF new
<1>4. Typed'
  BY <1>1, <1>2, <1>3 DEF Typed
<1>5. UsageKept'
  BY <1>1, <1>2, SameAccount, Fields
<1>6. OrdersKept'
  <2>1. orders[o].paid
    BY <1>2 DEF OrdersKept
  <2> QED
    BY <1>1, <1>3, <2>1 DEF OrdersKept
<1>7. CreditsKept'
  BY <1>1 DEF CreditsKept
<1>8. PeriodsKept'
  BY <1>1 DEF PeriodsKept, Awaited
<1>9. CancelsKept'
  <2>1. \E e \in mail' : e.type = "cancel" /\ e.end = ends[o]
    BY <1>1, <1>3
  <2> QED
    BY <1>1, <2>1 DEF CancelsKept
<1>10. SubscriberIsLinked'
  BY <1>1 DEF SubscriberIsLinked
<1> QED
  BY <1>4, <1>5, <1>6, <1>7, <1>8, <1>9, <1>10

-----------------------------------------------------------------------------
(* The webhook. *)

\* A step that sets the usage back or keeps it, for an allowance that is the same or a later one.
LEMMA UsageStep ==
    ASSUME AccountInv, profile' \in Profiles, clock' = clock, NEW b \in BOOLEAN, debits' = SetBack(b),
           profile'.used <= LimitOf(profile'.tier), profile'.tier = "free" => profile'.end <= clock,
           b => Before(profile, profile') /\ profile'.used = 0,
           ~b => profile'.used = profile.used /\ (Before(profile, profile') \/ SameAllowance(profile, profile'))
    PROVE  UsageKept' /\ debits' \in [Videos -> Debits] /\ Credited(debits') = Credited(debits)
<1>1. /\ debits \in [Videos -> Debits] /\ profile \in Profiles /\ UsageKept
      /\ debits' \in [Videos -> Debits]
      /\ \A u \in Videos : /\ debits'[u].kind = debits[u].kind /\ debits'[u].refunded = debits[u].refunded
                           /\ debits'[u].reset = debits[u].reset /\ debits'[u].tier = debits[u].tier
                           /\ debits'[u].end = debits[u].end
                           /\ b => ~debits'[u].current
                           /\ ~b => debits'[u].current = debits[u].current
  BY Fields, SetBackEffect DEF AccountInv
<1>2. Credited(debits') = Credited(debits)
  BY <1>1 DEF Credited
<1>3. Cardinality(Counted(debits')) <= profile'.used
  <2>1. CASE b
    <3>1. Counted(debits') = {}
      <4>1. \A u \in Videos : ~debits'[u].current
        BY <1>1, <2>1
      <4> QED
        BY <4>1 DEF Counted
    <3>2. Cardinality(Counted(debits')) = 0
      BY <3>1, FS_EmptySet
    <3>3. profile'.used = 0
      BY <2>1
    <3> QED
      BY <3>2, <3>3
  <2>2. CASE ~b
    <3>1. Counted(debits') = Counted(debits)
      BY <1>1, <2>2 DEF Counted
    <3> QED
      BY <1>1, <2>2, <3>1 DEF UsageKept
  <2> QED
    BY <2>1, <2>2
<1>4. ASSUME NEW u \in Videos, debits'[u].kind = "monthly"
      PROVE  Before(debits'[u], profile') \/ (SameAllowance(debits'[u], profile') /\ debits'[u].current)
  <2>1. /\ Before(debits[u], profile) \/ (SameAllowance(debits[u], profile) /\ debits[u].current)
        /\ debits[u] \in Debits
    BY <1>1, <1>4 DEF UsageKept
  <2>2. Before(profile, profile') => Before(debits[u], profile')
    BY <1>1, <2>1, BeforeOrder, Parts
  <2>3. SameAllowance(profile, profile') /\ Before(debits[u], profile) => Before(debits[u], profile')
    BY DEF SameAllowance, Before
  <2>4. SameAllowance(profile, profile') /\ SameAllowance(debits[u], profile) => SameAllowance(debits[u], profile')
    BY DEF SameAllowance
  <2>5. Before(debits[u], profile') \/ (SameAllowance(debits[u], profile') /\ debits[u].current /\ ~b)
    BY <2>1, <2>2, <2>3, <2>4
  <2> QED
    BY <1>1, <2>5 DEF Before, SameAllowance
<1> QED
  BY <1>1, <1>2, <1>3, <1>4 DEF UsageKept

\* An event that was answered with success is gone or comes once more.
LEMMA AcknowledgeEffect ==
    ASSUME AccountInv, NEW e \in mail, Acknowledge(e)
    PROVE  /\ mail' \subseteq mail /\ mail \ {e} \subseteq mail' /\ mail' \subseteq Events
           /\ troubles' \in Nat
<1>1. troubles \in Nat /\ mail \subseteq Events
  BY DEF AccountInv, Typed
<1> QED
  BY <1>1 DEF Acknowledge

\* An activation of the period an event announces: what becomes of the account's plan.
LEMMA ActivationStep ==
    ASSUME AccountInv, NEW e \in mail, e.type \in {"checkout", "paid"}, NEW active \in BOOLEAN,
           profile' \in Profiles, clock' = clock, ends' = ends, canceled' = canceled,
           mail' \subseteq mail, mail \ {e} \subseteq mail', silent \in BOOLEAN, silent => silent',
           profile.linked => profile'.linked,
           LET q == IF active THEN Activate(profile, e.end, clock) ELSE profile IN
           /\ profile'.tier = q.tier /\ profile'.used = q.used /\ profile'.reset = q.reset /\ profile'.end = q.end
           /\ profile'.cancel = q.cancel,
           debits' = SetBack(active /\ Applies(profile, e.end, clock) /\ Starts(profile, clock)),
           ~silent' /\ active => profile'.linked
    PROVE  /\ UsageKept' /\ debits' \in [Videos -> Debits] /\ Credited(debits') = Credited(debits)
           /\ CancelsKept' /\ SubscriberIsLinked'
           /\ profile'.end \in Nat /\ profile'.end >= profile.end
           /\ active /\ e.end > clock => profile'.end >= e.end
           /\ profile'.end = NoPeriod \/ \E o \in OrderIds : profile'.end <= ends'[o]
<1> USE DEF AccountInv
<1> DEFINE q == IF active THEN Activate(profile, e.end, clock) ELSE profile
           b == active /\ Applies(profile, e.end, clock) /\ Starts(profile, clock)
<1>1. /\ profile \in Profiles /\ clock \in 0..MaxClock /\ e.end \in Times /\ e.order \in OrderIds
      /\ profile.used <= LimitOf(profile.tier) /\ (profile.tier = "free" => profile.end <= clock)
      /\ profile.end \in Nat /\ profile'.end \in Nat /\ e.end \in Nat /\ clock \in Nat
  BY Fields, Parts DEF UsageKept
<1>2. /\ profile'.tier = q.tier /\ profile'.used = q.used /\ profile'.reset = q.reset /\ profile'.end = q.end
      /\ profile'.cancel = q.cancel
  OBVIOUS
<1>3. debits' = SetBack(b) /\ b \in BOOLEAN
  BY DEF Applies, Starts
<1>4. /\ q.used <= LimitOf(q.tier) /\ (q.tier = "free" => q.end <= clock)
      /\ q.end >= profile.end
      /\ active /\ e.end > clock => q.end >= e.end
      /\ q.end = profile.end => q.cancel = profile.cancel
      /\ q.end # profile.end => q.end = e.end /\ q.cancel = "no"
      /\ q.tier = "pro" => profile.tier = "pro" \/ active
      /\ b => Before(profile, q) /\ q.used = 0
      /\ ~b => q.used = profile.used /\ (Before(profile, q) \/ q = profile)
  <2>1. CASE active
    BY <1>1, <2>1, ActivateEffect
  <2>2. CASE ~active
    BY <1>1, <2>2
  <2> QED
    BY <2>1, <2>2
<1> HIDE DEF q, b
<1>5. profile'.used <= LimitOf(profile'.tier) /\ (profile'.tier = "free" => profile'.end <= clock)
  BY <1>2, <1>4
<1>6. /\ b => Before(profile, profile') /\ profile'.used = 0
      /\ ~b => profile'.used = profile.used /\ (Before(profile, profile') \/ SameAllowance(profile, profile'))
  BY <1>2, <1>4 DEF Before, SameAllowance
<1>7. UsageKept' /\ debits' \in [Videos -> Debits] /\ Credited(debits') = Credited(debits)
  BY <1>3, <1>5, <1>6, UsageStep
<1>8. CancelsKept'
  <2>1. /\ profile.end <= profile'.end /\ clock <= clock' /\ clock' \in Nat
        /\ profile'.end = profile.end => profile'.cancel = profile.cancel
        /\ profile'.end # profile.end => profile'.cancel = "no"
    BY <1>1, <1>2, <1>4
  <2>2. \A x \in mail : x.type = "cancel" => x \in mail'
    OBVIOUS
  <2> QED
    BY <1>1, <2>1, <2>2, CancelsStep
<1>9. SubscriberIsLinked'
  <2>1. profile'.tier = "pro" => profile.tier = "pro" \/ active
    BY <1>2, <1>4
  <2> QED
    BY <2>1 DEF SubscriberIsLinked
<1>10. profile'.end = NoPeriod \/ \E o \in OrderIds : profile'.end <= ends'[o]
  <2>1. CASE profile'.end = profile.end
    BY <2>1 DEF PeriodsKept
  <2>2. CASE profile'.end = e.end
    <3>1. e.end <= ends[e.order]
      BY <1>1, Fields, Parts DEF OrdersKept
    <3> QED
      BY <1>1, <2>2, <3>1
  <2> QED
    BY <1>2, <1>4, <2>1, <2>2
<1> QED
  BY <1>1, <1>2, <1>4, <1>7, <1>8, <1>9, <1>10

\* A paid period reaches the account that is linked; an event that finds no account was not the one
\* awaited.
LEMMA PaidStep ==
    ASSUME AccountInv, NEW e \in mail, SubscriptionPaid(e)
    PROVE  AccountInv'
<1> USE DEF AccountInv
<1> DEFINE active == profile.linked
<1>1. /\ e.type = "paid"
      /\ profile' = IF active THEN Activate(profile, e.end, clock) ELSE profile
      /\ debits' = SetBack(active /\ Applies(profile, e.end, clock) /\ Starts(profile, clock))
      /\ UNCHANGED <<clock, orders, ends, canceled, granted, silent, seen>>
  BY DEF SubscriptionPaid
<1>2. mail' \subseteq mail /\ mail \ {e} \subseteq mail' /\ mail' \subseteq Events /\ troubles' \in Nat
  BY AcknowledgeEffect DEF SubscriptionPaid
<1>3. /\ active \in BOOLEAN /\ profile \in Profiles /\ clock \in 0..MaxClock /\ e.end \in Times /\ silent \in BOOLEAN
      /\ profile.used <= LimitOf(profile.tier) /\ (profile.tier = "free" => profile.end <= clock)
  BY Fields, Parts DEF UsageKept, Typed
<1>4. profile' \in Profiles /\ profile'.extra = profile.extra /\ profile'.linked = profile.linked
  BY <1>1, <1>3, ActivateEffect
<1>5. /\ UsageKept' /\ debits' \in [Videos -> Debits] /\ Credited(debits') = Credited(debits)
      /\ CancelsKept' /\ SubscriberIsLinked'
      /\ profile'.end \in Nat /\ profile'.end >= profile.end
      /\ active /\ e.end > clock => profile'.end >= e.end
      /\ profile'.end = NoPeriod \/ \E o \in OrderIds : profile'.end <= ends'[o]
  <2>1. LET q == IF active THEN Activate(profile, e.end, clock) ELSE profile IN
           /\ profile'.tier = q.tier /\ profile'.used = q.used /\ profile'.reset = q.reset /\ profile'.end = q.end
           /\ profile'.cancel = q.cancel
    BY <1>1
  <2>2. e.type \in {"checkout", "paid"}
    BY <1>1
  <2>3. silent => silent'
    BY <1>1
  <2>4. ~silent' /\ active => profile'.linked
    BY <1>4
  <2> HIDE DEF active
  <2> QED
    BY <1>1, <1>2, <1>3, <1>4, <2>1, <2>2, <2>3, <2>4, ActivationStep
<1>6. Typed'
  BY <1>1, <1>2, <1>4, <1>5 DEF Typed
<1>7. OrdersKept'
  BY <1>1, <1>2 DEF OrdersKept
<1>8. CreditsKept'
  BY <1>1, <1>4, <1>5 DEF CreditsKept
<1>9. PeriodsKept'
  <2>1. \A o \in OrderIds : Awaited(o, "checkout") => Awaited(o, "checkout")'
    BY <1>1, <1>2 DEF Awaited
  <2>2. ASSUME ~silent', NEW o \in OrderIds, ends'[o] > clock'
        PROVE  \/ profile'.end >= ends'[o]
               \/ Awaited(o, "checkout")' /\ orders'[o].status # "completed"
               \/ Awaited(o, "paid")' /\ profile'.linked
    <3>1. ends[o] > clock /\ ~silent /\ ends[o] \in Nat /\ profile.end \in Nat
      BY <1>1, <2>2, Fields
    <3>2. CASE profile.end >= ends[o]
      BY <1>1, <1>5, <3>1, <3>2
    <3>3. CASE Awaited(o, "checkout") /\ orders[o].status # "completed"
      BY <1>1, <2>1, <3>3
    <3>4. CASE Awaited(o, "paid") /\ profile.linked
      <4>1. PICK x \in mail : x.type = "paid" /\ x.order = o /\ x.end = ends[o]
        BY <3>4 DEF Awaited
      <4>2. CASE x = e
        BY <1>1, <1>5, <3>1, <3>4, <4>1, <4>2
      <4>3. CASE x # e
        BY <1>1, <1>2, <1>4, <3>4, <4>1, <4>3 DEF Awaited
      <4> QED
        BY <4>2, <4>3
    <3> QED
      BY <3>1, <3>2, <3>3, <3>4 DEF PeriodsKept
  <2>3. ASSUME ~silent', NEW o \in OrderIds, ends'[o] # NoPeriod
        PROVE  profile'.linked \/ Awaited(o, "checkout")'
    BY <1>1, <1>4, <2>1, <2>3 DEF PeriodsKept
  <2> QED
    BY <1>5, <2>2, <2>3 DEF PeriodsKept
<1> QED
  BY <1>5, <1>6, <1>7, <1>8, <1>9

\* A cancellation that is acknowledged was marked or does not matter any more.
LEMMA CanceledStep ==
    ASSUME AccountInv, NEW e \in mail, SubscriptionCanceled(e)
    PROVE  AccountInv'
<1> USE DEF AccountInv
<1> DEFINE matches == profile.linked /\ profile.tier = "pro" /\ profile.end = e.end
           mark == IF matches THEN "yes" ELSE profile.cancel
<1>1. /\ e.type = "cancel" /\ (matches \/ Obsolete(e.end))
      /\ profile' = [profile EXCEPT !.cancel = mark]
      /\ UNCHANGED <<clock, debits, orders, ends, canceled, granted, silent, seen>>
  BY DEF SubscriptionCanceled
<1>2. mail' \subseteq mail /\ mail \ {e} \subseteq mail' /\ mail' \subseteq Events /\ troubles' \in Nat
  BY AcknowledgeEffect DEF SubscriptionCanceled
<1>3. profile \in Profiles /\ mark \in {"unknown", "yes", "no"}
  BY Fields, Parts
<1> HIDE DEF mark
<1>4. /\ profile' \in Profiles /\ profile'.cancel = mark
      /\ profile'.tier = profile.tier /\ profile'.used = profile.used /\ profile'.reset = profile.reset
      /\ profile'.extra = profile.extra /\ profile'.end = profile.end /\ profile'.linked = profile.linked
  BY <1>1, <1>3 DEF Profiles
<1>5. Typed'
  BY <1>1, <1>2, <1>4 DEF Typed
<1>6. UsageKept'
  BY <1>1, <1>4 DEF UsageKept, Before, SameAllowance
<1>7. OrdersKept'
  BY <1>1, <1>2 DEF OrdersKept
<1>8. CreditsKept'
  BY <1>1, <1>4 DEF CreditsKept
<1>9. PeriodsKept'
  <2>1. \A o \in OrderIds, type \in {"checkout", "paid"} : Awaited(o, type) => Awaited(o, type)'
    BY <1>1, <1>2 DEF Awaited
  <2> QED
    BY <1>1, <1>4, <2>1 DEF PeriodsKept
<1>10. CancelsKept'
  <2>1. e.end \in canceled
    BY <1>1 DEF OrdersKept
  <2>2. mark = "yes" => profile.end \in canceled
    BY <2>1 DEF mark, CancelsKept
  <2>3. profile.end # NoPeriod => mark # "unknown"
    BY DEF mark, CancelsKept
  <2>4. \A end \in canceled : end = profile.end /\ profile.cancel = "yes" => mark = "yes"
    BY DEF mark
  <2>5. \/ e.end <= clock \/ e.end < profile.end
        \/ e.end = profile.end /\ mark = "yes"
    BY <1>1 DEF mark, Obsolete
  <2>6. ASSUME NEW end \in canceled
        PROVE  \/ end <= clock \/ end < profile.end
               \/ end = profile.end /\ mark = "yes"
               \/ \E x \in mail' : x.type = "cancel" /\ x.end = end
    <3>1. CASE \E x \in mail : x.type = "cancel" /\ x.end = end
      <4>1. PICK x \in mail : x.type = "cancel" /\ x.end = end
        BY <3>1
      <4>2. x = e \/ x \in mail'
        BY <1>2
      <4> QED
        BY <2>5, <4>1, <4>2
    <3>2. CASE ~(\E x \in mail : x.type = "cancel" /\ x.end = end)
      BY <2>4, <3>2 DEF CancelsKept
    <3> QED
      BY <3>1, <3>2
  <2> QED
    BY <1>1, <1>4, <2>2, <2>3, <2>6 DEF CancelsKept
<1>11. SubscriberIsLinked'
  BY <1>1, <1>4 DEF SubscriberIsLinked
<1> QED
  BY <1>5, <1>6, <1>7, <1>8, <1>9, <1>10, <1>11

\* The writes a handler took before it died, or all of them.
LEMMA WritesTaken ==
    ASSUME NEW product, NEW n \in 0..3
    PROVE  LET took == {CheckoutWrites(product)[i] : i \in 1..n} IN
           /\ took \subseteq {"link", "activate", "grant", "receipt"}
           /\ n # 0 => "link" \in took
           /\ n = 3 => "link" \in took /\ (product # "topup" => "activate" \in took)
           /\ n = 3 /\ product = "topup" => "grant" \in took
           /\ "activate" \in took => product # "topup" /\ "link" \in took
           /\ "grant" \in took => product = "topup" /\ "receipt" \in took
           /\ "receipt" \in took /\ product # "topup" => n = 3
<1> DEFINE ws == CheckoutWrites(product)
           took == {ws[i] : i \in 1..n}
<1>1. CASE product = "topup"
  <2>1. ws[1] = "link" /\ ws[2] = "receipt" /\ ws[3] = "grant"
    BY <1>1 DEF CheckoutWrites
  <2> HIDE DEF ws
  <2>2. took = CASE n = 0 -> {} [] n = 1 -> {"link"} [] n = 2 -> {"link", "receipt"} [] n = 3 -> {"link", "receipt", "grant"}
    <3>1. n = 0 => 1..n = {}
      OBVIOUS
    <3>2. n = 1 => 1..n = {1}
      OBVIOUS
    <3>3. n = 2 => 1..n = {1, 2}
      OBVIOUS
    <3>4. n = 3 => 1..n = {1, 2, 3}
      OBVIOUS
    <3>5. n \in {0, 1, 2, 3}
      OBVIOUS
    <3> QED
      BY <2>1, <3>1, <3>2, <3>3, <3>4, <3>5
  <2> HIDE DEF took
  <2>3. n \in {0, 1, 2, 3}
    OBVIOUS
  <2> QED
    BY <1>1, <2>2, <2>3 DEF took, ws
<1>2. CASE product # "topup"
  <2>1. ws[1] = "link" /\ ws[2] = "activate" /\ ws[3] = "receipt"
    BY <1>2 DEF CheckoutWrites
  <2> HIDE DEF ws
  <2>2. took = CASE n = 0 -> {} [] n = 1 -> {"link"} [] n = 2 -> {"link", "activate"} [] n = 3 -> {"link", "activate", "receipt"}
    <3>1. n = 0 => 1..n = {}
      OBVIOUS
    <3>2. n = 1 => 1..n = {1}
      OBVIOUS
    <3>3. n = 2 => 1..n = {1, 2}
      OBVIOUS
    <3>4. n = 3 => 1..n = {1, 2, 3}
      OBVIOUS
    <3>5. n \in {0, 1, 2, 3}
      OBVIOUS
    <3> QED
      BY <2>1, <3>1, <3>2, <3>3, <3>4, <3>5
  <2> HIDE DEF took
  <2>3. n \in {0, 1, 2, 3}
    OBVIOUS
  <2> QED
    BY <1>2, <2>2, <2>3 DEF took, ws
<1> QED
  BY <1>1, <1>2

\* A completed checkout links the customer and gives what was bought, also when it comes again, when
\* the handler dies between two writes, or when the period it announces is no longer the newest.
LEMMA CompletedStep ==
    ASSUME AccountInv, NEW e \in mail, NEW n \in 0..3, NEW dropped \in SUBSET {"link", "receipt", "grant"},
           CheckoutCompleted(e, n, dropped)
    PROVE  AccountInv'
<1> USE DEF AccountInv
<1> DEFINE o      == e.order
           took   == IF AlreadyProcessed(o) THEN {"link"} ELSE {CheckoutWrites(orders[o].product)[i] : i \in 1..n}
           done   == took \ dropped
           p      == [profile EXCEPT !.linked = profile.linked \/ "link" \in done]
           active == "activate" \in done
           status == IF "receipt" \in done /\ orders[o].known THEN "completed" ELSE orders[o].status
           q      == IF active THEN Activate(profile, e.end, clock) ELSE profile
<1>1. /\ e.type = "checkout" /\ dropped \subseteq took
      /\ silent' = (silent \/ dropped # {})
      /\ profile' = CASE active            -> Activate(p, e.end, clock)
                      [] "grant" \in done -> [p EXCEPT !.extra = @ + Credits]
                      [] OTHER            -> p
      /\ debits' = SetBack(active /\ Applies(p, e.end, clock) /\ Starts(p, clock))
      /\ granted' = IF "grant" \in done THEN Append(granted, o) ELSE granted
      /\ orders' = [orders EXCEPT ![o].status = status]
      /\ IF n = 3 /\ dropped = {} THEN Acknowledge(e)
         ELSE troubles' = troubles + 1 /\ mail' = IF n = 3 THEN mail \ {e} ELSE mail
      /\ UNCHANGED <<clock, ends, canceled, seen>>
  BY DEF CheckoutCompleted
<1>2. /\ "grant" \in took => orders[o].product = "topup" /\ "receipt" \in took /\ ~AlreadyProcessed(o)
      /\ active => orders[o].product # "topup" /\ "link" \in took /\ "grant" \notin took
      /\ n # 0 \/ AlreadyProcessed(o) => "link" \in took
      /\ n = 3 /\ orders[o].product # "topup" /\ ~AlreadyProcessed(o) => "activate" \in took
      /\ "receipt" \in took /\ orders[o].product # "topup" => n = 3 /\ ~AlreadyProcessed(o)
  <2>1. CASE AlreadyProcessed(o)
    BY <2>1
  <2>2. CASE ~AlreadyProcessed(o)
    <3> DEFINE all == {CheckoutWrites(orders[o].product)[i] : i \in 1..n}
    <3>1. /\ n # 0 => "link" \in all
          /\ n = 3 => (orders[o].product # "topup" => "activate" \in all)
          /\ "activate" \in all => orders[o].product # "topup" /\ "link" \in all
          /\ "grant" \in all => orders[o].product = "topup" /\ "receipt" \in all
          /\ "receipt" \in all /\ orders[o].product # "topup" => n = 3
      BY WritesTaken
    <3>2. took = all
      BY <2>2
    <3> HIDE DEF all, took
    <3> QED
      BY <2>2, <3>1, <3>2
  <2> QED
    BY <2>1, <2>2
<1> HIDE DEF took
<1>3. /\ profile \in Profiles /\ clock \in 0..MaxClock /\ e.end \in Times /\ o \in OrderIds /\ e.end \in Nat /\ clock \in Nat
      /\ profile.used <= LimitOf(profile.tier) /\ (profile.tier = "free" => profile.end <= clock)
      /\ orders[o].paid /\ e.end = ends[o] /\ (orders[o].product = "topup" => e.end = NoPeriod)
      /\ orders[o].status # "none" /\ orders[o] \in Orders /\ profile.linked \in BOOLEAN /\ profile.extra \in Nat
  BY <1>1, Fields, Parts DEF UsageKept, OrdersKept
<1>4. /\ p \in Profiles /\ p.tier = profile.tier /\ p.used = profile.used /\ p.reset = profile.reset
      /\ p.extra = profile.extra /\ p.end = profile.end /\ p.cancel = profile.cancel
      /\ p.linked <=> (profile.linked \/ "link" \in done)
  <2> DEFINE l == profile.linked \/ "link" \in done
  <2>1. l \in BOOLEAN
    OBVIOUS
  <2>2. p = [profile EXCEPT !.linked = l]
    OBVIOUS
  <2> HIDE DEF l, p
  <2>3. /\ p \in Profiles /\ p.tier = profile.tier /\ p.used = profile.used /\ p.reset = profile.reset
        /\ p.extra = profile.extra /\ p.end = profile.end /\ p.cancel = profile.cancel /\ p.linked = l
    BY <1>3, <2>1, <2>2 DEF Profiles
  <2> QED
    BY <2>3 DEF l
<1> HIDE DEF p, active
<1>5. /\ Applies(p, e.end, clock) = Applies(profile, e.end, clock) /\ Starts(p, clock) = Starts(profile, clock)
  BY <1>4 DEF Applies, Starts
<1>6. /\ profile' \in Profiles /\ (profile'.linked <=> (profile.linked \/ "link" \in done))
      /\ profile'.extra = (IF "grant" \in done THEN profile.extra + Credits ELSE profile.extra)
      /\ profile'.tier = q.tier /\ profile'.used = q.used /\ profile'.reset = q.reset /\ profile'.end = q.end
      /\ profile'.cancel = q.cancel
  <2>1. CASE active
    <3>1. profile' = Activate(p, e.end, clock) /\ "grant" \notin done
      BY <1>1, <1>2, <2>1
    <3>2. profile' \in Profiles /\ profile'.extra = p.extra /\ profile'.linked = p.linked
      BY <1>3, <1>4, <3>1, ActivateEffect
    <3>3. LET z == Activate(p, e.end, clock)  y == Activate(profile, e.end, clock) IN
          z.tier = y.tier /\ z.used = y.used /\ z.reset = y.reset /\ z.end = y.end /\ z.cancel = y.cancel
      <4>1. CASE Applies(profile, e.end, clock)
        <5> DEFINE u(r) == IF Starts(profile, clock) THEN 0 ELSE r.used
                   t(r) == IF Starts(profile, clock) THEN NextMonth(clock) ELSE r.reset
                   c(r) == IF r.end = NoPeriod \/ r.end < e.end THEN "no" ELSE r.cancel
        <5>1. Activate(profile, e.end, clock) = [profile EXCEPT !.tier = "pro", !.end = e.end, !.used = u(profile),
                                                                !.reset = t(profile), !.cancel = c(profile)]
          BY <4>1 DEF Activate
        <5>2. Activate(p, e.end, clock) = [p EXCEPT !.tier = "pro", !.end = e.end, !.used = u(p),
                                                    !.reset = t(p), !.cancel = c(p)]
          BY <1>5, <4>1 DEF Activate
        <5>3. u(profile) = u(p) /\ t(profile) = t(p) /\ c(profile) = c(p)
          BY <1>4
        <5> HIDE DEF u, t, c
        <5>4. \A r \in Profiles : \A a, b, d : LET z == [r EXCEPT !.tier = "pro", !.end = e.end, !.used = a, !.reset = b, !.cancel = d]
                IN  z.tier = "pro" /\ z.used = a /\ z.reset = b /\ z.end = e.end /\ z.cancel = d
          BY DEF Profiles
        <5> QED
          BY <1>3, <1>4, <5>1, <5>2, <5>3, <5>4
      <4>2. CASE ~Applies(profile, e.end, clock)
        BY <1>4, <1>5, <4>2 DEF Activate
      <4> QED
        BY <4>1, <4>2
    <3> QED
      BY <1>4, <2>1, <3>1, <3>2, <3>3
  <2>2. CASE ~active /\ "grant" \in done
    <3>1. profile' = [p EXCEPT !.extra = p.extra + Credits] /\ p.extra + Credits \in Nat
      BY <1>1, <1>3, <1>4, <2>2, BillingAssumption
    <3>2. /\ profile' \in Profiles /\ profile'.extra = p.extra + Credits /\ profile'.linked = p.linked
          /\ profile'.tier = p.tier /\ profile'.used = p.used /\ profile'.reset = p.reset /\ profile'.end = p.end
          /\ profile'.cancel = p.cancel
      BY <1>4, <3>1 DEF Profiles
    <3> QED
      BY <1>4, <2>2, <3>2
  <2>3. CASE ~active /\ "grant" \notin done
    BY <1>1, <1>4, <2>3
  <2> QED
    BY <2>1, <2>2, <2>3
<1>7. debits' = SetBack(active /\ Applies(profile, e.end, clock) /\ Starts(profile, clock))
  BY <1>1, <1>5
<1>8. /\ mail' \subseteq mail /\ mail \ {e} \subseteq mail' /\ mail' \subseteq Events /\ troubles' \in Nat
      /\ n # 3 => mail' = mail
  <2>1. CASE n = 3 /\ dropped = {}
    BY <1>1, <2>1, AcknowledgeEffect
  <2>2. CASE ~(n = 3 /\ dropped = {})
    <3>1. troubles \in Nat /\ mail \subseteq Events
      BY DEF Typed
    <3> QED
      BY <1>1, <2>2, <3>1
  <2> QED
    BY <2>1, <2>2
<1>9. silent \in BOOLEAN /\ silent' \in BOOLEAN /\ (silent => silent') /\ (~silent' => ~silent /\ done = took)
  <2>1. silent \in BOOLEAN
    BY DEF Typed
  <2>2. dropped = {} => done = took
    OBVIOUS
  <2> QED
    BY <1>1, <2>1, <2>2
<1>10. /\ UsageKept' /\ debits' \in [Videos -> Debits] /\ Credited(debits') = Credited(debits)
       /\ CancelsKept' /\ SubscriberIsLinked'
       /\ profile'.end \in Nat /\ profile'.end >= profile.end
       /\ active /\ e.end > clock => profile'.end >= e.end
       /\ profile'.end = NoPeriod \/ \E c \in OrderIds : profile'.end <= ends'[c]
  <2>1. LET z == IF active THEN Activate(profile, e.end, clock) ELSE profile IN
           /\ profile'.tier = z.tier /\ profile'.used = z.used /\ profile'.reset = z.reset /\ profile'.end = z.end
           /\ profile'.cancel = z.cancel
    BY <1>6
  <2>2. active \in BOOLEAN
    BY DEF active
  <2>3. e.type \in {"checkout", "paid"}
    BY <1>1
  <2>4. ~silent' /\ active => profile'.linked
    BY <1>2, <1>6, <1>9
  <2>5. profile.linked => profile'.linked
    BY <1>6
  <2>6. clock' = clock /\ ends' = ends /\ canceled' = canceled
    BY <1>1
  <2> HIDE DEF q, done
  <2> QED
    BY <1>6, <1>7, <1>8, <1>9, <2>1, <2>2, <2>3, <2>4, <2>5, <2>6, ActivationStep
<1> HIDE DEF q
<1>11. /\ orders' \in [OrderIds -> Orders]
       /\ \A c \in OrderIds : /\ orders'[c].product = orders[c].product /\ orders'[c].known = orders[c].known
                              /\ orders'[c].paid = orders[c].paid
                              /\ orders'[c].status = IF c = o THEN status ELSE orders[c].status
       /\ status \in {"pending", "completed"}
  <2>1. status \in {"pending", "completed"}
    BY <1>3 DEF Orders
  <2> HIDE DEF status
  <2>2. [orders[o] EXCEPT !.status = status] \in Orders
    BY <1>3, <2>1 DEF Orders
  <2>3. orders' = [orders EXCEPT ![o] = [orders[o] EXCEPT !.status = status]] /\ orders \in [OrderIds -> Orders]
    BY <1>1, Fields
  <2> QED
    BY <1>3, <2>1, <2>2, <2>3 DEF Orders
<1>12. \A c \in OrderIds : orders[c].known /\ orders[c].status = "completed" => orders'[c].status = "completed"
  BY <1>11
<1>13. Typed'
  <2>1. granted' \in Seq(OrderIds)
    BY <1>1, <1>3 DEF Typed
  <2> QED
    BY <1>1, <1>6, <1>8, <1>9, <1>10, <1>11, <2>1 DEF Typed
<1>14. OrdersKept'
  <2>1. \A c \in OrderIds :
          /\ orders'[c].status = "none" => ~orders'[c].paid
          /\ orders'[c].status # "none" /\ ~orders'[c].known => silent'
          /\ ~orders'[c].paid => ends[c] = NoPeriod
    BY <1>3, <1>9, <1>11 DEF OrdersKept
  <2>2. \A x \in mail : x.order \in OrderIds
    BY Fields
  <2> QED
    BY <1>1, <1>8, <1>11, <2>1, <2>2 DEF OrdersKept
<1>15. CreditsKept'
  <2>1. granted \in Seq(OrderIds) /\ Len(granted) \in Nat /\ \A i \in 1..Len(granted) : granted[i] \in OrderIds
    BY DEF Typed
  <2>2. CASE "grant" \notin done
    <3>1. granted' = granted /\ profile'.extra = profile.extra
      BY <1>1, <1>6, <2>2
    <3> QED
      BY <1>9, <1>10, <1>11, <1>12, <2>1, <3>1 DEF CreditsKept
  <2>3. CASE "grant" \in done
    <3>1. granted' = Append(granted, o) /\ profile'.extra = profile.extra + Credits
      BY <1>1, <1>6, <2>3
    <3>2. Len(granted') = Len(granted) + 1 /\ \A i \in 1..Len(granted') : granted'[i] = IF i = Len(granted) + 1 THEN o ELSE granted[i]
      BY <1>3, <2>1, <3>1
    <3>3. Credits * (Len(granted) + 1) = Credits * Len(granted) + Credits /\ Credits * Len(granted) \in Nat
      BY <2>1, BillingAssumption, SMTT(30)
    <3>4. profile'.extra + Cardinality(Credited(debits')) = Credits * Len(granted')
      <4>1. Cardinality(Credited(debits)) \in Nat /\ Credits \in Nat
        BY VideoSets, BillingAssumption
      <4>2. profile.extra + Cardinality(Credited(debits)) = Credits * Len(granted)
        BY DEF CreditsKept
      <4>3. Credits * Len(granted') = Credits * Len(granted) + Credits
        BY <3>2, <3>3
      <4> DEFINE before == Credits * Len(granted)
                 after  == Credits * Len(granted')
                 count  == Cardinality(Credited(debits))
      <4>4. profile.extra + count = before /\ after = before + Credits
        BY <4>2, <4>3
      <4>5. count \in Nat /\ before \in Nat /\ Cardinality(Credited(debits')) = count
        BY <1>10, <3>3, <4>1
      <4> HIDE DEF before, after, count
      <4>6. profile'.extra + count = after
        <5>1. profile.extra \in Nat /\ profile'.extra = profile.extra + Credits /\ Credits \in Nat
          BY <1>3, <3>1, <4>1
        <5> QED
          BY <4>4, <4>5, <5>1
      <4> QED
        BY <4>5, <4>6 DEF after
    <3>5. ASSUME ~silent'
          PROVE  \A i \in 1..Len(granted') : /\ orders'[granted'[i]].known /\ orders'[granted'[i]].status = "completed"
                                             /\ \A j \in 1..Len(granted') : granted'[i] = granted'[j] => i = j
      <4>1. orders[o].known /\ "receipt" \in done /\ ~AlreadyProcessed(o)
        <5>1. done = took /\ ~silent
          BY <1>9, <3>5
        <5>2. orders[o].known
          BY <1>3, <5>1 DEF OrdersKept
        <5> HIDE DEF done
        <5> QED
          BY <1>2, <2>3, <5>1, <5>2
      <4>2. orders'[o].known /\ orders'[o].status = "completed"
        BY <1>3, <1>11, <4>1
      <4>3. \A i \in 1..Len(granted) : granted[i] # o
        BY <1>9, <3>5, <4>1 DEF CreditsKept, AlreadyProcessed
      <4>4. \A i \in 1..Len(granted) : orders'[granted[i]].known /\ orders'[granted[i]].status = "completed"
        BY <1>9, <1>11, <1>12, <2>1, <3>5 DEF CreditsKept
      <4>5. \A i, j \in 1..Len(granted) : granted[i] = granted[j] => i = j
        BY <1>9, <3>5 DEF CreditsKept
      <4> QED
        BY <2>1, <3>2, <4>2, <4>3, <4>4, <4>5
    <3> QED
      BY <3>4, <3>5 DEF CreditsKept
  <2> QED
    BY <2>2, <2>3
<1>16. PeriodsKept'
  <2>1. ASSUME ~silent', NEW c \in OrderIds, ends'[c] # NoPeriod
        PROVE  profile'.linked \/ Awaited(c, "checkout")'
    <3>1. CASE "link" \in done
      BY <1>6, <3>1
    <3>2. CASE "link" \notin done
      <4>1. n = 0 /\ mail' = mail
        BY <1>2, <1>8, <1>9, <2>1, <3>2
      <4> QED
        BY <1>1, <1>6, <1>9, <2>1, <4>1 DEF PeriodsKept, Awaited
    <3> QED
      BY <3>1, <3>2
  <2>2. ASSUME ~silent', NEW c \in OrderIds, ends'[c] > clock'
        PROVE  \/ profile'.end >= ends'[c]
               \/ Awaited(c, "checkout")' /\ orders'[c].status # "completed"
               \/ Awaited(c, "paid")' /\ profile'.linked
    <3>1. ends'[c] = ends[c] /\ ends[c] > clock /\ ~silent /\ ends[c] \in Nat /\ profile.end \in Nat
      BY <1>1, <1>9, <2>2, Fields
    <3>2. CASE profile.end >= ends[c]
      BY <1>10, <3>1, <3>2
    <3>3. CASE Awaited(c, "paid") /\ profile.linked
      BY <1>1, <1>6, <1>8, <3>1, <3>3 DEF Awaited
    <3>4. CASE Awaited(c, "checkout") /\ orders[c].status # "completed"
      <4>1. PICK x \in mail : x.type = "checkout" /\ x.order = c /\ x.end = ends[c]
        BY <3>4 DEF Awaited
      <4>2. CASE x \in mail' /\ orders'[c].status # "completed"
        BY <3>1, <4>1, <4>2 DEF Awaited
      <4>3. CASE ~(x \in mail' /\ orders'[c].status # "completed")
        <5>1. c = o
          BY <1>8, <1>11, <3>4, <4>1, <4>3
        <5>2. orders[o].product # "topup"
          BY <1>3, <3>1, <5>1 DEF NoPeriod
        <5>3. ~AlreadyProcessed(o)
          BY <3>4, <5>1 DEF AlreadyProcessed
        <5>4. n = 3
          <6>1. CASE x \notin mail'
            BY <1>8, <4>1, <6>1
          <6>2. CASE orders'[c].status = "completed"
            <7>1. "receipt" \in done
              BY <1>3, <1>11, <3>4, <5>1, <6>2
            <7> QED
              BY <1>2, <5>2, <7>1
          <6> QED
            BY <4>3, <6>1, <6>2
        <5>5. active
          BY <1>2, <1>9, <2>2, <5>2, <5>3, <5>4 DEF active
        <5> QED
          BY <1>3, <1>10, <3>1, <5>1, <5>5
      <4> QED
        BY <4>2, <4>3
    <3> QED
      BY <3>1, <3>2, <3>3, <3>4 DEF PeriodsKept
  <2> QED
    BY <1>10, <2>1, <2>2 DEF PeriodsKept
<1> QED
  BY <1>10, <1>13, <1>14, <1>15, <1>16

-----------------------------------------------------------------------------
(* Every step keeps the invariant. *)

\* The only steps there are.
LEMMA AccountInductive == AccountInv /\ [BillingNext]_billingVars => AccountInv'
<1> SUFFICES ASSUME AccountInv, [BillingNext]_billingVars PROVE AccountInv'
  OBVIOUS
<1>1. ASSUME NEW v \in Videos, SubmitVideo(v) \/ RefundVideo(v) PROVE AccountInv'
  BY <1>1, SubmitStep, RefundStep
<1>2. ASSUME LoadProfile PROVE AccountInv'
  BY <1>2, LoadStep
<1>3. ASSUME NEW o \in OrderIds, NEW p \in {"pro", "topup"}, NEW known \in BOOLEAN, HandleCheckout(o, p, known)
      PROVE  AccountInv'
  BY <1>3, CheckoutStep
<1>4. ASSUME NEW o \in OrderIds, PayCheckout(o) \/ Renew(o) \/ CancelRenewal(o) \/ HandlePortal(o) PROVE AccountInv'
  BY <1>4, PayStep, RenewStep, CancelStep DEF HandlePortal
<1>5. ASSUME NEW e \in mail, Webhook(e) PROVE AccountInv'
  <2>1. CASE \E n \in 0..3 : \E dropped \in SUBSET {"link", "receipt", "grant"} : CheckoutCompleted(e, n, dropped)
    BY <2>1, CompletedStep
  <2>2. CASE SubscriptionPaid(e) \/ SubscriptionCanceled(e)
    BY <2>2, PaidStep, CanceledStep
  <2> QED
    BY <1>5, <2>1, <2>2 DEF Webhook
<1>6. ASSUME TimePasses PROVE AccountInv'
  BY <1>6, TimeStep
<1>7. ASSUME UNCHANGED billingVars PROVE AccountInv'
  BY <1>7 DEF billingVars, AccountInv, Typed, UsageKept, OrdersKept, CreditsKept, PeriodsKept, Awaited, CancelsKept,
              SubscriberIsLinked
<1> QED
  BY <1>1, <1>2, <1>3, <1>4, <1>5, <1>6, <1>7 DEF BillingNext

\* The invariant of the account: what it may use, what it was granted and what it paid for agree with
\* the debits, the orders and the events that are still to be delivered.
THEOREM AccountInvariant == BillingSpec => []AccountInv
<1>1. BillingInit => AccountInv
  BY InitAccount
<1>2. AccountInv /\ [BillingNext]_billingVars => AccountInv'
  BY AccountInductive
<1> QED
  BY <1>1, <1>2, PTL DEF BillingSpec

\* A refund never gives back a unit of another allowance (fail_caption_task): for any limits, months
\* and periods, what is debited to the current allowance and not refunded is counted in its use.
THEOREM RefundsKeepTheirAllowance == BillingSpec => []AllowanceHolds
<1>1. AccountInv => AllowanceHolds
  BY DEF AccountInv, UsageKept, AllowanceHolds, Counted
<1> QED
  BY <1>1, AccountInvariant, PTL

\* When nothing is left to deliver and no write was lost, the account has the newest period it paid for.
LEMMA Settled == AccountInv => SubscriptionSettles
<1> DEFINE S == {ends[o] : o \in OrderIds} \cup {NoPeriod}
           paidTo == Max(S)
<1> SUFFICES ASSUME AccountInv, mail = {}, ~silent, paidTo > clock
             PROVE  /\ profile.tier = "pro" /\ profile.end = paidTo
                    /\ profile.cancel = IF paidTo \in canceled THEN "yes" ELSE "no"
  BY DEF SubscriptionSettles
<1> USE DEF AccountInv
<1>1. \A o \in OrderIds : ends[o] \in Nat /\ ends[o] <= MaxClock + Period
  BY Fields, Parts DEF Times
<1>2. S \in SUBSET Nat /\ S # {} /\ (\A x \in S : x <= MaxClock + Period) /\ MaxClock + Period \in Nat
  BY <1>1, Parts DEF NoPeriod
<1>3. paidTo \in S /\ \A x \in S : paidTo >= x
  BY <1>2, GreatestTime
<1>4. clock \in Nat /\ profile.end \in Nat /\ profile \in Profiles /\ canceled \subseteq Nat
  BY Fields, Parts
<1>5. \A o \in OrderIds : ends[o] \in S
  OBVIOUS
<1>6. paidTo \in Nat /\ \E o \in OrderIds : paidTo = ends[o]
  BY <1>2, <1>3, <1>4 DEF NoPeriod
<1> HIDE DEF S, paidTo
<1>7. PICK o \in OrderIds : paidTo = ends[o]
  BY <1>6
<1>8. ~Awaited(o, "checkout") /\ ~Awaited(o, "paid")
  BY DEF Awaited
<1>9. profile.end >= paidTo
  BY <1>7, <1>8 DEF PeriodsKept
<1>10. profile.end = NoPeriod \/ profile.end <= paidTo
  <2>1. CASE \E c \in OrderIds : profile.end <= ends[c]
    <3>1. PICK c \in OrderIds : profile.end <= ends[c]
      BY <2>1
    <3>2. paidTo >= ends[c] /\ ends[c] \in Nat
      BY <1>1, <1>3, <1>5
    <3> QED
      BY <1>4, <1>6, <3>1, <3>2
  <2> QED
    BY <2>1 DEF PeriodsKept
<1>11. profile.end = paidTo
  BY <1>4, <1>6, <1>9, <1>10 DEF NoPeriod
<1>12. profile.tier = "pro"
  <2>1. profile.tier \in {"free", "pro"}
    BY <1>4, Parts
  <2>2. ~(profile.end <= clock)
    BY <1>4, <1>6, <1>11
  <2> QED
    BY <2>1, <2>2 DEF UsageKept
<1>13. profile.cancel \in {"yes", "no"} /\ (profile.cancel = "yes" => paidTo \in canceled)
  BY <1>4, <1>6, <1>11, Parts DEF CancelsKept, NoPeriod
<1>14. paidTo \in canceled => profile.cancel = "yes"
  BY <1>4, <1>6, <1>11 DEF CancelsKept
<1> QED
  BY <1>11, <1>12, <1>13, <1>14

-----------------------------------------------------------------------------
(* The credits of a paid top-up. *)

\* The confirmation of the order is still to be handled.
Announced(o) == \E e \in mail : e.type = "checkout" /\ e.order = o

\* The order has its credits, or lost them to a handler that died after the receipt.
Given(o) == HasCredits(o) \/ o \in cut

\* A top-up that was paid is announced or given, and its receipt, which makes every further delivery
\* skip the credits, comes with them or with the death of its handler.
GrantsKept ==
    ~silent => \A o \in OrderIds : orders[o].product = "topup" =>
        /\ orders[o].paid => Announced(o) \/ Given(o)
        /\ orders[o].status = "completed" => Given(o)

\* Before any order nothing is paid.
LEMMA InitGrants == BillingInit => GrantsKept
BY DEF BillingInit, GrantsKept

\* A step that leaves the orders and their credits alone, and every confirmation to be delivered.
LEMMA SameGrants ==
    ASSUME GrantsKept, orders' = orders, granted' = granted, cut' = cut, silent' = silent,
           \A e \in mail : e.type = "checkout" => e \in mail'
    PROVE  GrantsKept'
<1>1. \A o \in OrderIds : Given(o)' <=> Given(o)
  BY DEF Given, HasCredits
<1>2. \A o \in OrderIds : Announced(o) => Announced(o)'
  BY DEF Announced
<1> QED
  BY <1>1, <1>2 DEF GrantsKept

\* A new order is neither paid nor receipted.
LEMMA NewOrderGrants ==
    ASSUME AccountInv, GrantsKept, NEW o \in OrderIds, NEW p \in {"pro", "topup"}, NEW known \in BOOLEAN,
           HandleCheckout(o, p, known)
    PROVE  GrantsKept'
<1>1. orders \in [OrderIds -> Orders]
  BY Fields
<1>2. /\ orders' = [orders EXCEPT ![o] = [product |-> p, known |-> known, paid |-> FALSE, status |-> "pending"]]
      /\ granted' = granted /\ cut' = cut /\ mail' = mail /\ (~silent' => ~silent)
  BY DEF HandleCheckout, CreateCheckoutSession
<1>3. \A c \in OrderIds : c # o => orders'[c] = orders[c]
  BY <1>1, <1>2
<1>4. ~orders'[o].paid /\ orders'[o].status # "completed"
  BY <1>1, <1>2
<1>5. \A c \in OrderIds : (Given(c)' <=> Given(c)) /\ (Announced(c)' <=> Announced(c))
  BY <1>2 DEF Given, HasCredits, Announced
<1> QED
  BY <1>2, <1>3, <1>4, <1>5 DEF GrantsKept

\* A payment is announced.
LEMMA PayGrants ==
    ASSUME AccountInv, GrantsKept, NEW o \in OrderIds, PayCheckout(o)
    PROVE  GrantsKept'
<1>1. orders \in [OrderIds -> Orders]
  BY Fields
<1>2. /\ orders' = [orders EXCEPT ![o].paid = TRUE] /\ orders[o].status = "pending"
      /\ granted' = granted /\ cut' = cut /\ mail \subseteq mail' /\ silent' = silent
  BY DEF PayCheckout
<1>3. Announced(o)'
  <2> DEFINE end == IF orders[o].product = "pro" THEN clock + Period ELSE NoPeriod
  <2>1. Event("checkout", o, end) \in mail'
    BY DEF PayCheckout
  <2> HIDE DEF end
  <2> QED
    BY <2>1 DEF Announced, Event
<1>4. \A c \in OrderIds : /\ c # o => orders'[c] = orders[c]
                          /\ orders'[c].product = orders[c].product /\ orders'[c].status = orders[c].status
  BY <1>1, <1>2 DEF Orders
<1>5. \A c \in OrderIds : (Given(c)' <=> Given(c)) /\ (Announced(c) => Announced(c)')
  BY <1>2 DEF Given, HasCredits, Announced
<1> QED
  BY <1>2, <1>3, <1>4, <1>5 DEF GrantsKept

\* A handled confirmation gave the credits, had given them before, or died after the receipt; one
\* that died earlier, or failed, is delivered again.
LEMMA CompletedGrants ==
    ASSUME AccountInv, GrantsKept, NEW e \in mail, NEW n \in 0..3, NEW dropped \in SUBSET {"link", "receipt", "grant"},
           CheckoutCompleted(e, n, dropped)
    PROVE  GrantsKept'
<1> DEFINE o    == e.order
           took == IF AlreadyProcessed(o) THEN {"link"} ELSE {CheckoutWrites(orders[o].product)[i] : i \in 1..n}
           done == took \ dropped
           status == IF "receipt" \in done /\ orders[o].known THEN "completed" ELSE orders[o].status
           died == orders[o].product = "topup" /\ "receipt" \in done /\ "grant" \notin took
<1> SUFFICES ASSUME ~silent' PROVE GrantsKept'
  BY DEF GrantsKept
<1>1. /\ e.type = "checkout" /\ dropped \subseteq took
      /\ silent' = (silent \/ dropped # {})
      /\ granted' = IF "grant" \in done THEN Append(granted, o) ELSE granted
      /\ cut' = IF died THEN cut \cup {o} ELSE cut
      /\ orders' = [orders EXCEPT ![o].status = status]
      /\ mail' = IF n = 3 THEN mail' ELSE mail
      /\ n = 3 => mail' = mail \/ mail' = mail \ {e}
  BY DEF CheckoutCompleted, Acknowledge
<1>2. ~silent /\ done = took
  BY <1>1
<1>3. /\ "grant" \in took => "receipt" \in took
      /\ n = 3 /\ orders[o].product = "topup" /\ ~AlreadyProcessed(o) => "grant" \in took
  BY WritesTaken DEF AlreadyProcessed
<1> HIDE DEF took, done, status, died
<1>4. /\ o \in OrderIds /\ orders \in [OrderIds -> Orders] /\ orders[o].known
      /\ granted \in Seq(OrderIds)
  BY Fields, <1>2 DEF AccountInv, OrdersKept, Typed
<1>5. \A c \in OrderIds : /\ orders'[c].product = orders[c].product /\ orders'[c].paid = orders[c].paid
                          /\ orders'[c].status = IF c = o THEN status ELSE orders[c].status
  BY <1>1, <1>4 DEF Orders
<1>6. \A c \in OrderIds : Given(c) => Given(c)'
  <2>1. CASE granted' = granted
    BY <1>1, <2>1 DEF Given, HasCredits
  <2>2. CASE granted' = Append(granted, o)
    <3>1. Len(granted') = Len(granted) + 1 /\ Len(granted) \in Nat /\ \A i \in 1..Len(granted) : granted'[i] = granted[i]
      BY <1>4, <2>2
    <3>2. 1..Len(granted) \subseteq 1..Len(granted')
      BY <3>1
    <3> QED
      BY <1>1, <3>1, <3>2 DEF Given, HasCredits
  <2> QED
    BY <1>1, <2>1, <2>2
<1>7. "grant" \in took => Given(o)'
  <2> SUFFICES ASSUME "grant" \in took PROVE Given(o)'
    OBVIOUS
  <2>1. granted' = Append(granted, o)
    BY <1>1, <1>2
  <2>2. Len(granted') \in 1..Len(granted') /\ granted'[Len(granted')] = o
    BY <1>4, <2>1
  <2> QED
    BY <2>2 DEF Given, HasCredits
<1>8. orders[o].product = "topup" /\ "receipt" \in took => Given(o)'
  <2>1. orders[o].product = "topup" /\ "receipt" \in took /\ "grant" \notin took => o \in cut'
    BY <1>1, <1>2 DEF died
  <2> QED
    BY <1>7, <2>1 DEF Given
<1>9. orders[o].product = "topup" /\ AlreadyProcessed(o) => Given(o)'
  BY <1>2, <1>4, <1>6 DEF GrantsKept, AlreadyProcessed
<1>10. \A c \in OrderIds : Announced(c) =>
          Announced(c)' \/ (c = o /\ (orders[o].product = "topup" => Given(o)'))
  <2> SUFFICES ASSUME NEW c \in OrderIds, Announced(c), ~Announced(c)'
               PROVE  c = o /\ (orders[o].product = "topup" => Given(o)')
    OBVIOUS
  <2>1. PICK x \in mail : x.type = "checkout" /\ x.order = c
    BY DEF Announced
  <2>2. x \notin mail'
    BY <2>1 DEF Announced
  <2>3. x = e /\ n = 3
    BY <1>1, <2>2
  <2> QED
    BY <1>3, <1>7, <1>9, <2>1, <2>3
<1>11. \A c \in OrderIds : orders'[c].product = "topup" /\ orders'[c].status = "completed" => Given(c)'
  <2> SUFFICES ASSUME NEW c \in OrderIds, orders[c].product = "topup", orders'[c].status = "completed"
               PROVE  Given(c)'
    BY <1>5
  <2>1. CASE orders[c].status = "completed"
    BY <1>2, <1>6, <2>1 DEF GrantsKept
  <2>2. CASE orders[c].status # "completed"
    BY <1>2, <1>5, <1>8, <2>2 DEF status
  <2> QED
    BY <2>1, <2>2
<1>12. \A c \in OrderIds : orders'[c].product = "topup" /\ orders'[c].paid => Announced(c)' \/ Given(c)'
  BY <1>2, <1>5, <1>6, <1>10 DEF GrantsKept
<1> QED
  BY <1>11, <1>12 DEF GrantsKept

\* Every step keeps what a paid top-up was given.
LEMMA GrantsInductive == AccountInv /\ GrantsKept /\ [BillingNext]_billingVars => GrantsKept'
<1> SUFFICES ASSUME AccountInv, GrantsKept, [BillingNext]_billingVars PROVE GrantsKept'
  OBVIOUS
<1>1. ASSUME NEW v \in Videos, SubmitVideo(v) \/ RefundVideo(v) PROVE GrantsKept'
  BY <1>1, SameGrants DEF SubmitVideo, RefundVideo
<1>2. ASSUME LoadProfile \/ TimePasses \/ UNCHANGED billingVars PROVE GrantsKept'
  BY <1>2, SameGrants DEF LoadProfile, TimePasses, billingVars
<1>3. ASSUME NEW o \in OrderIds, NEW p \in {"pro", "topup"}, NEW known \in BOOLEAN, HandleCheckout(o, p, known)
      PROVE  GrantsKept'
  BY <1>3, NewOrderGrants
<1>4. ASSUME NEW o \in OrderIds, PayCheckout(o) PROVE GrantsKept'
  BY <1>4, PayGrants
<1>5. ASSUME NEW o \in OrderIds, Renew(o) \/ CancelRenewal(o) \/ HandlePortal(o) PROVE GrantsKept'
  BY <1>5, SameGrants DEF Renew, CancelRenewal, HandlePortal
<1>6. ASSUME NEW e \in mail, Webhook(e) PROVE GrantsKept'
  <2>1. CASE \E n \in 0..3 : \E dropped \in SUBSET {"link", "receipt", "grant"} : CheckoutCompleted(e, n, dropped)
    BY <2>1, CompletedGrants
  <2>2. CASE SubscriptionPaid(e) \/ SubscriptionCanceled(e)
    <3>1. e.type # "checkout" /\ orders' = orders /\ granted' = granted /\ cut' = cut /\ silent' = silent /\ Acknowledge(e)
      BY <2>2 DEF SubscriptionPaid, SubscriptionCanceled
    <3>2. \A x \in mail : x.type = "checkout" => x \in mail'
      BY <3>1 DEF Acknowledge
    <3> QED
      BY <3>1, <3>2, SameGrants
  <2> QED
    BY <1>6, <2>1, <2>2 DEF Webhook
<1> QED
  BY <1>1, <1>2, <1>3, <1>4, <1>5, <1>6 DEF BillingNext

\* For any number of orders and failures and in any order of delivery: unless a write was lost
\* unnoticed, an order adds its credits at most once, and has added them when its confirmation was
\* handled, but for a handler that died between the receipt and the credits (creem_webhook); the
\* newest period arrives, a subscriber is linked.
THEOREM PaidIsGranted == BillingSpec => []PaymentsSettle
<1>1. AccountInv /\ GrantsKept => PaymentsSettle
  <2> SUFFICES ASSUME AccountInv, GrantsKept PROVE PaymentsSettle
    OBVIOUS
  <2>1. BillingTypeOK
    <3>1. /\ profile \in Profiles /\ profile.used <= LimitOf(profile.tier) /\ clock \in 0..MaxClock
          /\ orders \in [OrderIds -> Orders] /\ seen \in {"unknown", "free", "pro"}
      BY DEF AccountInv, Typed, UsageKept
    <3>2. /\ profile.tier \in {"free", "pro"} /\ profile.used \in Nat /\ profile.extra \in Nat /\ profile.end \in Times
          /\ profile.linked \in BOOLEAN
          /\ profile.cancel \in {"unknown", "yes", "no"}
      BY <3>1, Parts
    <3>3. profile.reset % Month = 0
      BY <3>1 DEF Profiles, Months
    <3>4. profile.used \in 0..LimitOf(profile.tier)
      BY <3>1, <3>2, LimitType
    <3> QED
      BY <3>1, <3>2, <3>3, <3>4 DEF BillingTypeOK, Orders
  <2>2. CreditsConserved
    BY DEF AccountInv, CreditsKept, CreditsConserved, Credited
  <2>3. SubscriptionSettles
    BY Settled
  <2>4. SubscriberIsLinked
    BY DEF AccountInv
  <2>5. CreditsArrive
    BY DEF GrantsKept, CreditsArrive, Confirmed, Announced, Given
  <2> QED
    BY <2>1, <2>2, <2>3, <2>4, <2>5 DEF PaymentsSettle
<1>2. BillingInit => GrantsKept
  BY InitGrants
<1>3. AccountInv /\ GrantsKept /\ [BillingNext]_billingVars => GrantsKept'
  BY GrantsInductive
<1> QED
  BY <1>1, <1>2, <1>3, AccountInvariant, PTL DEF BillingSpec

\* What the browser projects of a profile is what the reconciliation of the next submission finds.
LEMMA ProjectionAgrees ==
    ASSUME NEW p \in Profiles, NEW t \in Nat
    PROVE  LET x == Project(p, t)  y == Reconcile(p, t) IN
           x.tier = y.tier /\ x.used = y.used /\ x.extra = y.extra /\ x.cancel = y.cancel /\ x.end = y.end
<1>1. \A q \in Profiles, u \in Nat, r \in Months : LET z == [q EXCEPT !.used = u, !.reset = r] IN
         z.tier = q.tier /\ z.used = u /\ z.extra = q.extra /\ z.cancel = q.cancel /\ z.end = q.end
  BY DEF Profiles
<1>2. LET z == [p EXCEPT !.tier = "free", !.used = 0] IN
         /\ z \in Profiles /\ z.tier = "free" /\ z.used = 0 /\ z.extra = p.extra /\ z.cancel = p.cancel /\ z.end = p.end
         /\ z.reset = p.reset
  BY DEF Profiles
<1>3. LET z == [p EXCEPT !.used = 0] IN
         z.tier = p.tier /\ z.used = 0 /\ z.extra = p.extra /\ z.cancel = p.cancel /\ z.end = p.end
  BY DEF Profiles
<1>4. NextMonth(t) \in Months
  BY NextMonthLater
<1>5. CASE Lapsed(p, t)
  <2> DEFINE z == [p EXCEPT !.tier = "free", !.used = 0]
  <2>1. Project(p, t) = z
    BY <1>5 DEF Project
  <2>2. Reconcile(p, t) = IF z.reset <= t THEN [z EXCEPT !.used = 0, !.reset = NextMonth(t)] ELSE z
    BY <1>5 DEF Reconcile
  <2>3. z \in Profiles /\ z.used = 0
    BY <1>2
  <2> HIDE DEF z
  <2> QED
    BY <1>1, <1>4, <2>1, <2>2, <2>3
<1>6. CASE ~Lapsed(p, t)
  <2>1. Project(p, t) = IF p.reset <= t THEN [p EXCEPT !.used = 0] ELSE p
    BY <1>6 DEF Project
  <2>2. Reconcile(p, t) = IF p.reset <= t THEN [p EXCEPT !.used = 0, !.reset = NextMonth(t)] ELSE p
    BY <1>6 DEF Reconcile
  <2> QED
    BY <1>1, <1>3, <1>4, <2>1, <2>2
<1> QED
  BY <1>5, <1>6

\* The browser shows the plan, use, limit and credits the next submission would find, and tells only of a
\* cancelled period that access ends (useAccountQueries.ts, the lazy reconciliation of the server).
THEOREM PageShowsTheAccount == BillingSpec => []ShownIsWhatCounts
<1>1. AccountInv => ShownIsWhatCounts
  <2> SUFFICES ASSUME AccountInv PROVE ShownIsWhatCounts
    OBVIOUS
  <2> DEFINE x == Project(profile, clock)
             y == Reconcile(profile, clock)
             card == UsageCard(x)
             next == UsageCard(y)
  <2>1. profile \in Profiles /\ clock \in Nat
    BY Fields
  <2>2. x.tier = y.tier /\ x.used = y.used /\ x.extra = y.extra /\ x.cancel = y.cancel /\ x.end = y.end
    BY <2>1, ProjectionAgrees
  <2>3. x.end = profile.end /\ x.cancel = profile.cancel
    BY <2>1 DEF Project, Profiles
  <2> HIDE DEF x, y
  <2>4. PlanBadge(x) = PlanBadge(y)
    BY <2>2 DEF PlanBadge
  <2>5. card.tier = next.tier /\ card["used"] = next["used"] /\ card["limit"] = next["limit"] /\ card["extra"] = next["extra"]
    BY <2>2 DEF UsageCard
  <2>6. card.period = "endsOn" => profile.end \in canceled
    <3>1. profile.cancel = "yes" => profile.end \in canceled
      BY DEF AccountInv, CancelsKept
    <3>2. card.period = "endsOn" => x.cancel = "yes"
      BY DEF UsageCard
    <3> QED
      BY <2>3, <3>1, <3>2
  <2> HIDE DEF card, next
  <2>7. \A f \in {"tier", "used", "limit", "extra"} : card[f] = next[f]
    BY <2>5
  <2>8. PlanCards(card.tier) = PlanCards(next.tier)
    BY <2>5
  <2> QED
    BY <2>4, <2>6, <2>7, <2>8 DEF ShownIsWhatCounts, x, y, card, next
<1> QED
  BY <1>1, AccountInvariant, PTL
=============================================================================

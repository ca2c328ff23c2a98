----------------------------- MODULE LossLedger -----------------------------
(***************************************************************************)
(* Carrying tax losses forward: the annual ledger of the financial engine  *)
(* (financial_engine/tax/loss_ledger.py run_annual_fifo_ledger), its       *)
(* numeric twin that the debt solver calls (taxable_income_after_lcf_      *)
(* series) and the rolling schedule of finco_core/tax/loss_carryforward.py,*)
(* run side by side on the same incomes, one step per tax year.            *)
(*                                                                         *)
(* A pool is a sequence of vintages.  One that has expired or is used up   *)
(* keeps its place, with nothing left: the code takes it off the list.     *)
(* Amounts are whole numbers: the tolerance of the code, 1e-12, is         *)
(* equality here.  A rival carries the same losses but uses them in any    *)
(* order it likes.                                                         *)
(***************************************************************************)
EXTENDS Integers, Sequences

CONSTANTS
    Openings,   \* possible opening vintages: sequences of [origin, amount]
    LcfYears,   \* possible loss_carryforward_years
    Incomes,    \* of a year, before losses; a loss is negative
    Horizon     \* bound: the last tax year; the first is 0

\* No opening vintage is younger than the first year
\* (TAX_OPENING_LOSS_FUTURE_VINTAGE).
Parameters ==
    /\ LcfYears \subseteq Nat /\ Incomes \subseteq Int /\ Horizon \in Nat
    /\ \A o \in Openings : /\ o \in Seq([origin : Int, amount : Nat])
                           /\ \A i \in 1..Len(o) : o[i].origin <= 0

ASSUME LedgerAssumption == Parameters

VARIABLES
    year,
    policy,     \* [lcf, strict]: loss_carryforward_years, expire_before_use
    pool,       \* of run_annual_fifo_ledger
    fast,       \* of taxable_income_after_lcf_series
    buckets,    \* of compute_loss_carryforward_schedule
    rival,      \* the pool of the rival
    taxed,      \* the income each has left to tax so far
    comparable  \* the rolling schedule has the same inputs

ledgerVars == <<year, policy, pool, fast, buckets, rival, taxed, comparable>>

----------------------------------------------------------------------------
Least(a, b) == IF a <= b THEN a ELSE b
Atleast0(a) == IF a > 0 THEN a ELSE 0

\* What the first i vintages hold, for every i.
Carried(p) ==
    LET S[i \in 0..Len(p)] == IF i = 0 THEN 0 ELSE S[i - 1] + p[i].amount IN S

Sum(p) == Carried(p)[Len(p)]

\* p when the vintages at the places gone are taken off the list.
Without(p, gone) ==
    [i \in 1..Len(p) |-> [p[i] EXCEPT !.amount = IF i \in gone THEN 0 ELSE @]]

\* p when uses[i] is taken from every vintage i.
Cut(p, uses) == [i \in 1..Len(p) |-> [p[i] EXCEPT !.amount = @ - uses[i]]]

Vintage(origin, amount) == [last |-> origin + policy.lcf, amount |-> amount]

\* Faulty: the opening vintages are used in the order they were given.
AsGiven(o) == {[i \in 1..Len(o) |-> i]}

Older(o, i, j) ==
    o[i].origin < o[j].origin \/ (o[i].origin = o[j].origin /\ i < j)

\* _opening_states_from_inputs: oldest first, a stable sort; the place in o
\* of each vintage of the pool.
Orders(o) ==
    {f \in [1..Len(o) -> 1..Len(o)] :
        \A i, j \in 1..Len(o) : i < j => Older(o, f[i], f[j])}

----------------------------------------------------------------------------
(* run_annual_fifo_ledger.                                                 *)

Expired(p, t) == {i \in 1..Len(p) : p[i].last < t}

Live(p, t) == Without(p, Expired(p, t))

\* A profit uses the pool from its first vintage on.
Uses(p, income) ==
    LET before == Carried(p)
    IN  [i \in 1..Len(p) |-> Least(p[i].amount, Atleast0(income - before[i - 1]))]

\* The pool after a year, its live vintages being p.
AfterYear(p, t, income, allowed) ==
    Append(IF income > 0 /\ allowed THEN Cut(p, Uses(p, income)) ELSE p,
           Vintage(t, Atleast0(-income)))

\* The income a year leaves to tax.
Taxable(p, income, allowed) ==
    IF income > 0 /\ ~allowed THEN income ELSE Atleast0(income - Sum(p))

----------------------------------------------------------------------------
(* taxable_income_after_lcf_series: one pass over the live pool, with what *)
(* the vintages before have left of the income.                            *)
FastUse(p, income) ==
    LET left[i \in 0..Len(p)] ==
            IF i = 0 THEN income ELSE left[i - 1] - Least(p[i].amount, left[i - 1])
    IN  [left |-> left[Len(p)],
         pool |-> Cut(p, [i \in 1..Len(p) |-> Least(p[i].amount, left[i - 1])])]

\* Faulty: a year whose losses may not be used makes no tax either.
FastUngated(p, income, allowed) ==
    IF income > 0 THEN FastUse(p, income) ELSE [left |-> 0, pool |-> p]

\* The use a year makes of the pool.
FastGated(p, income, allowed) ==
    IF income > 0 /\ allowed THEN FastUse(p, income)
    ELSE [left |-> Atleast0(income), pool |-> p]

----------------------------------------------------------------------------
(* compute_loss_carryforward_schedule, with one period per year.  A bucket *)
(* expires before its period expiry is used, or at the end of it.          *)
Duration == policy.lcf + (IF policy.strict THEN 1 ELSE 0)

Bucket(t, amount) == [expiry |-> t + Duration, amount |-> amount]

Usable(b, t) ==
    Without(b, {i \in 1..Len(b) : policy.strict /\ t >= b[i].expiry})

\* Faulty: a bucket expires a period late.
AgedLate(b, t) == {i \in 1..Len(b) : ~policy.strict /\ b[i].expiry - t < 0}

Aged(b, t) == {i \in 1..Len(b) : ~policy.strict /\ b[i].expiry - t <= 0}

RollingUse(b, income) ==
    IF income > 0 THEN FastUse(b, income) ELSE [left |-> 0, pool |-> b]

RollingYear(b, t, income) ==
    Append(Without(RollingUse(b, income).pool, Aged(b, t)),
           Bucket(t, Atleast0(-income)))

----------------------------------------------------------------------------
LedgerInit ==
    /\ year = 0
    /\ policy \in [lcf : LcfYears, strict : BOOLEAN]
    /\ \E o \in Openings : \E f \in Orders(o) :
          /\ pool = [i \in 1..Len(o) |-> Vintage(o[f[i]].origin, o[f[i]].amount)]
          /\ fast = pool /\ rival = pool
          /\ buckets = <<Bucket(0, Sum(o))>>
          /\ comparable = (Duration > 0 /\ \A i \in 1..Len(o) : o[i].origin = 0)
    /\ taxed = [ledger |-> 0, fast |-> 0, rolling |-> 0, rival |-> 0]

\* What is left of p after any use of it against an income.
AnyUse(p, income) ==
    LET Holding == {i \in 1..Len(p) : p[i].amount > 0}
        Choices == {[i \in 1..Len(p) |-> IF i \in Holding THEN d[i] ELSE 0] :
                       d \in [Holding -> 0..income]}
        Fits(u) == /\ \A i \in 1..Len(p) : u[i] <= p[i].amount
                   /\ Sum(Cut(p, u)) = Atleast0(Sum(p) - income)
    IN  {Cut(p, u) : u \in {v \in Choices : Fits(v)}}

(* A tax year: its income, and whether the gate allows losses to be used.  *)
Year(income, allowed) ==
    LET p == Live(pool, year)
        q == FastGated(Live(fast, year), income, allowed)
        b == Usable(buckets, year)
        r == Live(rival, year)
        new == Vintage(year, Atleast0(-income))
    IN
    /\ year <= Horizon /\ year' = year + 1
    /\ pool' = AfterYear(p, year, income, allowed)
    /\ fast' = Append(q.pool, new)
    /\ buckets' = RollingYear(b, year, income)
    /\ \E left \in (IF income > 0 /\ allowed THEN AnyUse(r, income) ELSE {r}) :
          rival' = Append(left, new)
    /\ taxed' = [ledger  |-> taxed.ledger + Taxable(p, income, allowed),
                 fast    |-> taxed.fast + q.left,
                 rolling |-> taxed.rolling + RollingUse(b, income).left,
                 rival   |-> taxed.rival + Taxable(r, income, allowed)]
    /\ comparable' = (comparable /\ (allowed \/ income <= 0))
    /\ UNCHANGED policy

LedgerNext == \E income \in Incomes, allowed \in BOOLEAN : Year(income, allowed)

LedgerSpec == LedgerInit /\ [][LedgerNext]_ledgerVars

----------------------------------------------------------------------------
(* Using the oldest vintages first, losses never leave more to tax than any*)
(* other order of using them would, in no year however incomes turn out:   *)
(* the tax the debt is sized on is the least the losses allow              *)
(* (loss_ledger.py:14-15, 65-68).                                          *)
OldestFirstIsBest == taxed.ledger <= taxed.rival

(* The numeric twin taxes what the ledger taxes and keeps the same pool    *)
(* (loss_ledger.py:322-331).                                               *)
TwinAgrees == taxed.fast = taxed.ledger /\ fast = pool

(* The rolling schedule taxes what the ledger taxes, its duration being a  *)
(* year longer when losses expire before use: at the end of period d or    *)
(* before period d + 1 is the same window (loss_carryforward.py:138-155,   *)
(* 258-263).                                                               *)
SchedulesAgree == comparable => taxed.rolling = taxed.ledger
=============================================================================

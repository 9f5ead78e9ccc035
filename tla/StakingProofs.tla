----------------------------- MODULE StakingProofs -----------------------------
(***************************************************************************)
(* Theorems about Staking, for every set of stakers, every list of         *)
(* schedules, well-formed or not, and every denominator of a Decimal.      *)
(*                                                                         *)
(* What the schedules release is rounded down twice, once to a rate and    *)
(* once to an amount: the first part bounds that arithmetic.  The second   *)
(* says what compute_reward adds to the books, and the rest are the        *)
(* invariants, one conjunct of an inductive invariant at a time.           *)
(***************************************************************************)
EXTENDS Staking, CosmMathProofs

ds == config.distribution_schedule

-----------------------------------------------------------------------------
(* What a schedule releases *)

Span(s) == s.end_time - s.start_time

LEMMA ReleasedIs ==
    ASSUME NEW s \in Schedule, HasLength(s), NEW t \in Nat
    PROVE  /\ Span(s) \in Nat \ {0} /\ s.amount \in Nat
           /\ Released(s, t) = Release(DECIMAL_FRACTIONAL, s.amount, Span(s), t)
           /\ Released(s, t) \in Nat
  <1>1. Span(s) \in Nat \ {0} /\ s.amount \in Nat
    BY DEF Schedule, HasLength, Span
  <1>2. Released(s, t) = Release(DECIMAL_FRACTIONAL, s.amount, Span(s), t)
    BY DEF Released, Rate, Release, Span
  <1>3. Release(DECIMAL_FRACTIONAL, s.amount, Span(s), t) \in Nat
    BY <1>1, ReleaseType, DecimalAssumption
  <1>. QED
    BY <1>1, <1>2, <1>3

\* The rate, rounded down, gives out the amount over the length or less, and
\* less by not more than one unit per second.
LEMMA RateType ==
    ASSUME NEW s \in Schedule, HasLength(s), NEW t \in Nat
    PROVE  /\ Rate(s) \in Nat /\ t * Rate(s) \in Nat
           /\ s.amount * DECIMAL_FRACTIONAL < (Rate(s) + 1) * Span(s)
           /\ Released(s, t) = (t * Rate(s)) \div DECIMAL_FRACTIONAL
  <1>1. Span(s) \in Nat \ {0} /\ s.amount \in Nat
    BY ReleasedIs
  <1>2. Rate(s) = FromRatio(DECIMAL_FRACTIONAL, s.amount, Span(s))
    BY DEF Rate, Span
  <1>3. Released(s, t) = Release(DECIMAL_FRACTIONAL, s.amount, Span(s), t)
    BY ReleasedIs
  <1>. DEFINE a == s.amount
              len == Span(s)
  <1>4. a \in Nat /\ len \in Nat \ {0}
    BY <1>1
  <1>. HIDE DEF a, len
  <1>5. /\ FromRatio(DECIMAL_FRACTIONAL, a, len) \in Nat
        /\ a * DECIMAL_FRACTIONAL < (FromRatio(DECIMAL_FRACTIONAL, a, len) + 1) * len
        /\ t * FromRatio(DECIMAL_FRACTIONAL, a, len) \in Nat
        /\ Release(DECIMAL_FRACTIONAL, a, len, t)
              = (t * FromRatio(DECIMAL_FRACTIONAL, a, len)) \div DECIMAL_FRACTIONAL
    BY <1>4, ReleaseType, DecimalAssumption
  <1>. QED
    BY <1>2, <1>3, <1>5 DEF a, len

LEMMA ReleasedType ==
    ASSUME NEW s \in Schedule, HasLength(s), NEW t \in Nat
    PROVE  Released(s, t) \in Nat /\ Released(s, 0) = 0
  <1>1. Released(s, 0) = (0 * Rate(s)) \div DECIMAL_FRACTIONAL /\ Rate(s) \in Nat
    BY RateType
  <1>. QED
    BY <1>1, ReleasedIs, DecimalAssumption

LEMMA ReleasedMonotone ==
    ASSUME NEW s \in Schedule, HasLength(s), NEW t \in Nat, NEW u \in Nat, t <= u
    PROVE  Released(s, t) <= Released(s, u)
  <1>1. /\ Span(s) \in Nat \ {0} /\ s.amount \in Nat
        /\ Released(s, t) = Release(DECIMAL_FRACTIONAL, s.amount, Span(s), t)
        /\ Released(s, u) = Release(DECIMAL_FRACTIONAL, s.amount, Span(s), u)
    BY ReleasedIs
  <1>. QED
    BY <1>1, ReleaseMonotone, DecimalAssumption

LEMMA ReleasedInParts ==
    ASSUME NEW s \in Schedule, HasLength(s), NEW t \in Nat, NEW u \in Nat
    PROVE  Released(s, t) + Released(s, u) <= Released(s, t + u)
  <1>1. /\ Span(s) \in Nat \ {0} /\ s.amount \in Nat
        /\ Released(s, t) = Release(DECIMAL_FRACTIONAL, s.amount, Span(s), t)
        /\ Released(s, u) = Release(DECIMAL_FRACTIONAL, s.amount, Span(s), u)
    BY ReleasedIs
  <1>2. Released(s, t + u) = Release(DECIMAL_FRACTIONAL, s.amount, Span(s), t + u)
    BY t + u \in Nat, ReleasedIs
  <1>. QED
    BY <1>1, <1>2, ReleaseInParts, DecimalAssumption

\* A schedule releases no more than its amount, and over its whole length not
\* less than that by more than one.
LEMMA ReleasedBound ==
    ASSUME NEW s \in Schedule, HasLength(s), NEW t \in Nat, t <= s.end_time - s.start_time
    PROVE  Released(s, t) <= s.amount
  <1>. DEFINE len == Span(s)
              a == s.amount
  <1>1. len \in Nat \ {0} /\ a \in Nat /\ Released(s, t) \in Nat /\ t <= len
    BY ReleasedIs DEF Span
  <1>2. Released(s, t) <= (a * t) \div len
    <2>1. Released(s, t) = Release(DECIMAL_FRACTIONAL, a, len, t)
      BY ReleasedIs
    <2>. HIDE DEF a, len
    <2>2. Release(DECIMAL_FRACTIONAL, a, len, t) <= MultiplyRatio(a, t, len)
      BY <1>1, ReleaseBound, DecimalAssumption
    <2>. QED
      BY <2>1, <2>2 DEF MultiplyRatio
  <1>. HIDE DEF len, a
  <1>3. a * t <= a * len /\ a * t \in Nat /\ a * len < (a + 1) * len
    <2>1. t * a <= len * a
      BY <1>1, MulMonotone
    <2>. QED
      BY <1>1, <2>1, MulNat
  <1>4. (a * t) \div len < a + 1
    <2>1. a * t < (a + 1) * len /\ a + 1 \in Nat
      <3>1. a * len \in Nat /\ (a + 1) * len \in Nat
        BY <1>1, MulNat
      <3>. QED
        BY <1>1, <1>3, <3>1
    <2>. QED
      BY <1>1, <1>3, <2>1, FloorLeast
  <1>5. (a * t) \div len \in Nat
    BY <1>1, <1>3, DivFloor
  <1>. QED
    BY <1>1, <1>2, <1>4, <1>5 DEF a

LEMMA ReleasedFull ==
    ASSUME NEW s \in Schedule, HasLength(s), s.end_time - s.start_time <= DECIMAL_FRACTIONAL
    PROVE  s.amount <= Released(s, s.end_time - s.start_time) + 1
  <1>. DEFINE len == s.end_time - s.start_time
              F == DECIMAL_FRACTIONAL
              q == s.amount - 1
              r == Rate(s)
  <1>1. len = Span(s) /\ len \in Nat
    BY ReleasedIs DEF Span
  <1>2. /\ r \in Nat /\ len * r \in Nat /\ Released(s, len) = (len * r) \div F
        /\ s.amount * F < (r + 1) * len
    BY <1>1, RateType
  <1>3. s.amount \in Nat /\ F \in Nat \ {0} /\ len <= F /\ Released(s, len) \in Nat
    BY <1>1, ReleasedIs, DecimalAssumption
  <1>4. CASE s.amount = 0
    BY <1>3, <1>4
  <1>5. CASE s.amount # 0
    <2>1. q \in Nat
      BY <1>3, <1>5
    <2>2. q * F = s.amount * F - F /\ (r + 1) * len = len * r + len
      BY <1>1, <1>2, <1>3
    <2>3. s.amount * F \in Nat
      BY <1>3, MulNat
    <2>. HIDE DEF len, F, r
    <2>4. q * F <= len * r
      <3>. HIDE DEF q
      <3>. QED
        BY <1>1, <1>2, <1>3, <2>2, <2>3
    <2>5. q <= Released(s, len)
      BY <1>2, <1>3, <2>1, <2>4, FloorGreatest
    <2>. QED
      BY <1>3, <2>1, <2>5 DEF len
  <1>. QED
    BY <1>4, <1>5

-----------------------------------------------------------------------------
(* What a schedule has given out *)

\* compute_reward counts a schedule if it is due, for the time since it last did.
Gain(s, from, to) ==
    IF s.start_time <= to /\ s.end_time >= from
    THEN Released(s, MinOf(s.end_time, to) - MaxOf(s.start_time, from))
    ELSE 0

\* The most that a schedule can have given out by time t.
DoneAt(s, t) ==
    IF ~HasLength(s) THEN 0
    ELSE IF s.end_time <= t THEN s.amount
    ELSE IF s.start_time < t THEN Released(s, t - s.start_time)
    ELSE 0

LEMMA GainType ==
    ASSUME NEW s \in Schedule, HasLength(s), NEW from \in Nat, NEW to \in Nat, from <= to
    PROVE  Gain(s, from, to) \in Nat
  <1>1. /\ s.start_time \in Nat /\ s.end_time \in Nat /\ s.start_time < s.end_time
    BY DEF Schedule, HasLength
  <1>2. ASSUME s.start_time <= to, s.end_time >= from
        PROVE  MinOf(s.end_time, to) - MaxOf(s.start_time, from) \in Nat
    BY <1>1, <1>2 DEF MinOf, MaxOf
  <1>. QED
    BY <1>2, ReleasedType DEF Gain

LEMMA DoneType ==
    ASSUME NEW s \in Schedule, NEW t \in Nat
    PROVE  DoneAt(s, t) \in Nat /\ DoneAt(s, t) <= s.amount
  <1>1. /\ s.start_time \in Nat /\ s.end_time \in Nat /\ s.amount \in Nat
    BY DEF Schedule
  <1>2. CASE HasLength(s) /\ s.start_time < t /\ t < s.end_time
    <2>1. t - s.start_time \in Nat /\ t - s.start_time <= s.end_time - s.start_time
      BY <1>1, <1>2
    <2>2. DoneAt(s, t) = Released(s, t - s.start_time)
      BY <1>1, <1>2 DEF DoneAt
    <2>. QED
      BY <1>2, <2>1, <2>2, ReleasedType, ReleasedBound
  <1>3. CASE ~(HasLength(s) /\ s.start_time < t /\ t < s.end_time)
    BY <1>1, <1>3 DEF DoneAt
  <1>. QED
    BY <1>2, <1>3

\* Between two moments a schedule gives out no more than what it can have given
\* out by the second beyond what it can have by the first.
LEMMA GainBound ==
    ASSUME NEW s \in Schedule, HasLength(s), NEW from \in Nat, NEW to \in Nat, from <= to
    PROVE  DoneAt(s, from) + Gain(s, from, to) <= DoneAt(s, to)
  <1>. DEFINE a == s.start_time
              b == s.end_time
  <1>1. a \in Nat /\ b \in Nat /\ s.amount \in Nat /\ a < b
    BY DEF Schedule, HasLength
  <1>2. Gain(s, from, to) \in Nat /\ DoneAt(s, from) \in Nat /\ DoneAt(s, to) \in Nat
    BY GainType, DoneType
  <1>3. CASE a > to \/ b < from
    <2>1. Gain(s, from, to) = 0
      BY <1>1, <1>3 DEF Gain
    <2>2. DoneAt(s, from) = DoneAt(s, to)
      BY <1>1, <1>3 DEF DoneAt
    <2>. QED
      BY <1>2, <2>1, <2>2
  <1>4. CASE b = from
    <2>1. Gain(s, from, to) = Released(s, 0)
      BY <1>1, <1>4 DEF Gain, MinOf, MaxOf
    <2>2. Released(s, 0) = 0
      BY ReleasedType
    <2>3. DoneAt(s, from) = DoneAt(s, to)
      BY <1>1, <1>4 DEF DoneAt
    <2>. QED
      BY <1>2, <2>1, <2>2, <2>3
  <1>5. CASE a <= to /\ b > from
    <2>. DEFINE before == IF a < from THEN from - a ELSE 0
                during == MinOf(b, to) - MaxOf(a, from)
    <2>1. /\ before \in Nat /\ during \in Nat
          /\ before + during = MinOf(b, to) - a /\ before + during <= b - a
      BY <1>1, <1>5 DEF MinOf, MaxOf
    <2>2. Gain(s, from, to) = Released(s, during)
      BY <1>1, <1>5 DEF Gain
    <2>3. DoneAt(s, from) <= Released(s, before)
      <3>1. CASE a < from
        BY <1>1, <1>2, <1>5, <3>1 DEF DoneAt
      <3>2. CASE ~(a < from)
        BY <1>1, <1>2, <1>5, <3>2, ReleasedType DEF DoneAt
      <3>. QED
        BY <3>1, <3>2
    <2>4. Released(s, before + during) <= DoneAt(s, to)
      <3>1. CASE b <= to
        <4>1. DoneAt(s, to) = s.amount
          BY <1>1, <3>1 DEF DoneAt
        <4>. QED
          BY <2>1, <4>1, ReleasedBound
      <3>2. CASE a < to /\ to < b
        <4>1. DoneAt(s, to) = Released(s, to - a) /\ before + during = to - a
          BY <1>1, <2>1, <3>2 DEF DoneAt, MinOf
        <4>. QED
          BY <1>2, <4>1
      <3>3. CASE a = to
        <4>1. before + during = 0
          BY <1>1, <2>1, <3>3 DEF MinOf
        <4>2. Released(s, 0) = 0
          BY ReleasedType
        <4>. HIDE DEF before, during
        <4>. QED
          BY <1>2, <4>1, <4>2
      <3>. QED
        BY <1>1, <1>5, <3>1, <3>2, <3>3
    <2>. HIDE DEF before, during
    <2>5. Released(s, before) + Released(s, during) <= Released(s, before + during)
      BY <2>1, ReleasedInParts
    <2>6. /\ Released(s, before) \in Nat /\ Released(s, during) \in Nat
          /\ Released(s, before + during) \in Nat
      BY <2>1, ReleasedType
    <2>. QED
      BY <1>2, <2>2, <2>3, <2>4, <2>5, <2>6
  <1>. QED
    BY <1>1, <1>3, <1>4, <1>5

LEMMA DoneMonotone ==
    ASSUME NEW s \in Schedule, NEW from \in Nat, NEW to \in Nat, from <= to
    PROVE  DoneAt(s, from) <= DoneAt(s, to)
  <1>1. CASE HasLength(s)
    BY <1>1, GainType, GainBound, DoneType
  <1>2. CASE ~HasLength(s)
    BY <1>2 DEF DoneAt
  <1>. QED
    BY <1>1, <1>2

-----------------------------------------------------------------------------
(* What compute_reward adds *)

AmountOf == [s \in Schedule |-> s.amount]
GainBy(from, to) == [s \in Schedule |-> IF HasLength(s) THEN Gain(s, from, to) ELSE 0]
DoneBy(t) == [s \in Schedule |-> DoneAt(s, t)]

\* compute_reward has run in the past, and every reward was settled before now.
Clocks ==
    /\ state.last_distributed <= now /\ now <= MaxTime
    /\ \A u \in Stakers : reward[u].reward_index <= state.global_reward_index

IType == TypeOK /\ Clocks

LEMMA TypeFacts ==
    ASSUME IType
    PROVE  /\ config.owner \in Owners /\ ds \in Seq(Schedule)
           /\ state.last_distributed \in Nat /\ state.total_bond_amount \in Nat
           /\ state.global_reward_index \in Nat
           /\ now \in Nat /\ state.last_distributed <= now /\ now <= MaxTime
           /\ psi_balance \in Nat /\ lp_balance \in Nat
           /\ distributed \in Nat /\ scheduled \in Nat /\ sent \in Nat
           /\ recut \in Nat /\ settled \in Nat /\ sound \in BOOLEAN
           /\ DECIMAL_FRACTIONAL \in Nat \ {0} /\ MaxTime \in Nat
  BY DecimalAssumption, BoundsAssumption DEF IType, TypeOK, Clocks, ds

LEMMA InfoFacts ==
    ASSUME IType, NEW u \in Stakers
    PROVE  /\ reward \in [Stakers -> StakerInfo] /\ reward[u] \in StakerInfo
           /\ reward[u].bond_amount \in Nat /\ reward[u].pending_reward \in Nat
           /\ reward[u].reward_index \in Nat
           /\ reward[u].reward_index <= state.global_reward_index
  BY DEF IType, TypeOK, Clocks, StakerInfo

LEMMA AmountInIsListSum ==
    ASSUME NEW list \in Seq(Schedule)
    PROVE  AmountIn(list) = ListSum(AmountOf, list) /\ AmountIn(list) \in Nat
  <1>1. \A k \in DOMAIN list : list[k] \in Schedule
    OBVIOUS
  <1>2. [k \in DOMAIN list |-> list[k].amount] = [k \in DOMAIN list |-> AmountOf[list[k]]]
    BY <1>1 DEF AmountOf
  <1>3. AmountIn(list) = ListSum(AmountOf, list)
    BY <1>2 DEF AmountIn, ListSum
  <1>4. \A s \in Schedule : AmountOf[s] \in Nat
    BY DEF AmountOf, Schedule
  <1>5. ListSum(AmountOf, list) \in Nat
    BY <1>4, ListSumNat
  <1>. QED
    BY <1>3, <1>5

\* While every due schedule has a length, what is newly distributed is what the
\* schedules gain.
LEMMA NewlyDistributedIsGain ==
    ASSUME IType, RewardIsComputable, Distributing
    PROVE  NewlyDistributed = ListSum(GainBy(state.last_distributed, now), ds)
  <1>. DEFINE v == GainBy(state.last_distributed, now)
              term(s) == IF Due(s) THEN Released(s, PassedTime(s)) ELSE 0
  <1>1. \A k \in DOMAIN ds : ds[k] \in Schedule /\ (Due(ds[k]) => HasLength(ds[k]))
    BY TypeFacts, SMTT(30) DEF RewardIsComputable, ds
  <1>2. \A k \in DOMAIN ds : v[ds[k]] = term(ds[k])
    BY <1>1 DEF GainBy, Gain, Due, PassedTime
  <1>3. [k \in DOMAIN ds |-> term(ds[k])] = [k \in DOMAIN ds |-> v[ds[k]]]
    BY <1>2
  <1>. QED
    BY <1>3 DEF NewlyDistributed, ListSum, ds

LEMMA GainByType ==
    ASSUME NEW from \in Nat, NEW to \in Nat, from <= to, NEW s \in Schedule
    PROVE  /\ GainBy(from, to)[s] \in Nat
           /\ DoneBy(from)[s] \in Nat /\ DoneBy(to)[s] \in Nat
           /\ DoneBy(from)[s] + GainBy(from, to)[s] <= DoneBy(to)[s]
  <1>1. CASE HasLength(s)
    BY <1>1, GainType, GainBound, DoneType DEF GainBy, DoneBy
  <1>2. CASE ~HasLength(s)
    BY <1>2, DoneType DEF GainBy, DoneBy, DoneAt
  <1>. QED
    BY <1>1, <1>2

LEMMA ListGain ==
    ASSUME NEW from \in Nat, NEW to \in Nat, from <= to, NEW list \in Seq(Schedule)
    PROVE  /\ ListSum(GainBy(from, to), list) \in Nat
           /\ ListSum(DoneBy(from), list) \in Nat /\ ListSum(DoneBy(to), list) \in Nat
           /\ ListSum(DoneBy(from), list) + ListSum(GainBy(from, to), list)
                 <= ListSum(DoneBy(to), list)
           /\ ListSum(DoneBy(to), list) <= AmountIn(list)
  <1>. DEFINE g == GainBy(from, to)
              a == DoneBy(from)
              b == DoneBy(to)
              z == [s \in Schedule |-> a[s] + g[s]]
  <1>1. \A s \in Schedule : g[s] \in Nat /\ a[s] \in Nat /\ b[s] \in Nat /\ a[s] + g[s] <= b[s]
    BY GainByType
  <1>2. \A s \in Schedule : b[s] <= AmountOf[s] /\ AmountOf[s] \in Nat
    BY DoneType DEF DoneBy, AmountOf, Schedule
  <1>. HIDE DEF g, a, b
  <1>3. ListSum(g, list) \in Nat /\ ListSum(a, list) \in Nat /\ ListSum(b, list) \in Nat
    BY <1>1, ListSumNat
  <1>4. \A s \in Schedule : z[s] = a[s] + g[s] /\ z[s] \in Nat /\ z[s] <= b[s]
    BY <1>1
  <1>. HIDE DEF z
  <1>5. ListSum(z, list) = ListSum(a, list) + ListSum(g, list)
    BY <1>1, <1>4, ListSumPlus
  <1>6. ListSum(z, list) <= ListSum(b, list)
    BY <1>1, <1>4, ListSumMonotone
  <1>7. ListSum(b, list) <= ListSum(AmountOf, list)
    BY <1>1, <1>2, ListSumMonotone
  <1>. QED
    BY <1>3, <1>5, <1>6, <1>7, AmountInIsListSum DEF g, a, b

\* compute_reward moves the index up, by what it distributes or less, and that is
\* no more than the schedules may still give out until now.
LEMMA ComputeReward ==
    ASSUME IType, RewardIsComputable
    PROVE  /\ NewlyDistributed \in Nat
           /\ NewIndex \in Nat /\ state.global_reward_index <= NewIndex
           /\ state.total_bond_amount * (NewIndex - state.global_reward_index)
                 <= DECIMAL_FRACTIONAL * NewlyDistributed
           /\ ListSum(DoneBy(state.last_distributed), ds) + NewlyDistributed
                 <= ListSum(DoneBy(now), ds)
  <1>. DEFINE total == state.total_bond_amount
              F == DECIMAL_FRACTIONAL
              new == NewlyDistributed
              step == (new * F) \div total
  <1>0. /\ ds \in Seq(Schedule) /\ state.last_distributed \in Nat /\ now \in Nat
        /\ state.last_distributed <= now /\ F \in Nat /\ total \in Nat
        /\ state.global_reward_index \in Nat
    BY TypeFacts
  <1>1. CASE Distributing
    <2>1. new = ListSum(GainBy(state.last_distributed, now), ds)
      BY <1>1, NewlyDistributedIsGain
    <2>2. /\ new \in Nat
          /\ ListSum(DoneBy(state.last_distributed), ds) + new <= ListSum(DoneBy(now), ds)
      BY <1>0, <2>1, ListGain
    <2>3. NewIndex = state.global_reward_index + step
      BY <1>1 DEF NewIndex, FromRatio
    <2>. HIDE DEF new
    <2>4. total \in Nat \ {0} /\ new * F \in Nat
      BY <1>0, <1>1, <2>2, MulNat DEF Distributing
    <2>5. step \in Nat /\ step * total <= new * F
      BY <2>4, DivFloor
    <2>. HIDE DEF step, F
    <2>6. NewIndex - state.global_reward_index = step
      BY <1>0, <2>3, <2>5
    <2>7. total * step = step * total /\ F * new = new * F
      BY <1>0, <2>2, <2>5
    <2>8. total * (NewIndex - state.global_reward_index) <= F * new
      BY <2>5, <2>6, <2>7
    <2>9. NewIndex \in Nat /\ state.global_reward_index <= NewIndex
      BY <1>0, <2>3, <2>5
    <2>. QED
      BY <2>2, <2>8, <2>9 DEF new, F
  <1>2. CASE ~Distributing
    <2>1. new = 0 /\ NewIndex = state.global_reward_index
      BY <1>2 DEF NewlyDistributed, NewIndex
    <2>2. total * (NewIndex - state.global_reward_index) <= F * new
      BY <1>0, <2>1
    <2>. DEFINE L == ListSum(DoneBy(state.last_distributed), ds)
                M == ListSum(DoneBy(now), ds)
                G == ListSum(GainBy(state.last_distributed, now), ds)
    <2>3. L \in Nat /\ M \in Nat /\ G \in Nat /\ L + G <= M
      BY <1>0, ListGain
    <2>. HIDE DEF L, M, G, new
    <2>4. L + new <= M
      BY <2>1, <2>3
    <2>5. ListSum(DoneBy(state.last_distributed), ds) + NewlyDistributed
            <= ListSum(DoneBy(now), ds)
      BY <2>4 DEF L, M, new
    <2>. USE DEF new
    <2>6. new \in Nat /\ NewIndex \in Nat /\ state.global_reward_index <= NewIndex
      BY <1>0, <2>1
    <2>. QED
      BY <2>2, <2>5, <2>6
  <1>. QED
    BY <1>1, <1>2

-----------------------------------------------------------------------------
(* What the messages do to the books *)

\* A StakerInfo that is settled now, and the pending reward it is settled with.
InfoNow(b, p) == [reward_index |-> NewIndex, bond_amount |-> b, pending_reward |-> p]
PendingNow(u) == reward[u].pending_reward + RewardOf(reward[u], NewIndex)

\* bond, unbond, withdraw and the hook compute the reward, settle it for one
\* staker, and change that staker's bond by db and pending reward by -out, which
\* is the PSI they pay.
Booked(user, db, out, info) ==
    /\ info \in StakerInfo
    /\ reward' = [reward EXCEPT ![user] = info]
    /\ info.bond_amount = reward[user].bond_amount + db
    /\ info.pending_reward = PendingNow(user) - out
    /\ \/ info.reward_index = NewIndex
       \/ info.reward_index = 0 /\ info.bond_amount = 0

Settles(user, db, out) ==
    /\ Computed(state.total_bond_amount + db)
    /\ Settled(user)
    /\ state.total_bond_amount + db \in Nat
    /\ lp_balance' = lp_balance + db /\ lp_balance + db \in Nat
    /\ psi_balance' = psi_balance - out /\ psi_balance - out \in Nat
    /\ \E info : Booked(user, db, out, info)
    /\ UNCHANGED <<config, now, scheduled, sent, recut, sound>>

\* A reward never comes out negative: the index only moves up.
LEMMA RewardOfType ==
    ASSUME IType, RewardIsComputable, NEW u \in Stakers
    PROVE  RewardOf(reward[u], NewIndex) \in Nat
  <1>. DEFINE b == reward[u].bond_amount
              i == reward[u].reward_index
              j == NewIndex
              F == DECIMAL_FRACTIONAL
  <1>1. b \in Nat /\ i \in Nat /\ j \in Nat /\ i <= j /\ F \in Nat \ {0}
    <2>1. b \in Nat /\ i \in Nat /\ i <= state.global_reward_index
      BY InfoFacts
    <2>2. j \in Nat /\ state.global_reward_index <= j
      BY ComputeReward
    <2>3. state.global_reward_index \in Nat /\ F \in Nat \ {0}
      BY TypeFacts
    <2>. HIDE DEF b, i, j, F
    <2>. QED
      BY <2>1, <2>2, <2>3
  <1>2. RewardOf(reward[u], NewIndex) = (b * j) \div F - (b * i) \div F
    BY DEF RewardOf, TimesDecimal, MultiplyRatio
  <1>. HIDE DEF b, i, j, F
  <1>3. b * j \in Nat /\ b * i \in Nat /\ b * i <= b * j
    <2>1. i * b <= j * b
      BY <1>1, MulMonotone
    <2>2. i * b = b * i /\ j * b = b * j
      BY <1>1
    <2>. QED
      BY <1>1, <2>1, <2>2, MulNat
  <1>4. (b * j) \div F \in Nat /\ (b * i) \div F \in Nat /\ (b * i) \div F <= (b * j) \div F
    BY <1>1, <1>3, DivFloor, FloorMonotone
  <1>. QED
    BY <1>2, <1>4

LEMMA SettleIs ==
    ASSUME IType, RewardIsComputable, NEW u \in Stakers
    PROVE  /\ Settle(reward[u]) = InfoNow(reward[u].bond_amount, PendingNow(u))
           /\ PendingNow(u) \in Nat
  <1>1. reward[u] \in StakerInfo /\ reward[u].pending_reward \in Nat
    BY InfoFacts
  <1>2. RewardOf(reward[u], NewIndex) \in Nat
    BY RewardOfType
  <1>. QED
    BY <1>1, <1>2 DEF PendingNow, Settle, InfoNow

\* The StakerInfo as it is stored.
LEMMA StoredInfo ==
    ASSUME NewIndex \in Nat, NEW b \in Nat, NEW p \in Nat
    PROVE  /\ InfoNow(b, p) \in StakerInfo /\ Stored(InfoNow(b, p)) \in StakerInfo
           /\ Stored(InfoNow(b, p)).bond_amount = b
           /\ Stored(InfoNow(b, p)).pending_reward = p
           /\ \/ Stored(InfoNow(b, p)).reward_index = NewIndex
              \/ Stored(InfoNow(b, p)).reward_index = 0 /\ Stored(InfoNow(b, p)).bond_amount = 0
  BY DEF Stored, NoInfo, StakerInfo, InfoNow

LEMMA BondForSettles ==
    ASSUME IType, NEW u \in Stakers, NEW amount \in Nat, BondFor(u, amount),
           lp_balance' = lp_balance + amount,
           UNCHANGED <<config, psi_balance, now, scheduled, sent, recut, sound>>
    PROVE  Settles(u, amount, 0)
  <1>. DEFINE p == PendingNow(u)
              b == reward[u].bond_amount + amount
              info == InfoNow(b, p)
  <1>1. RewardIsComputable
    BY DEF BondFor, Computed
  <1>2. b \in Nat /\ p \in Nat /\ NewIndex \in Nat
    BY <1>1, InfoFacts, SettleIs, ComputeReward
  <1>3. /\ info \in StakerInfo /\ info.bond_amount = b /\ info.pending_reward = p
        /\ info.reward_index = NewIndex
    BY <1>2, StoredInfo DEF InfoNow
  <1>4. Increased(reward[u], amount) = info
    <2>1. Settle(reward[u]) = InfoNow(reward[u].bond_amount, p)
      BY <1>1, SettleIs
    <2>. QED
      BY <2>1 DEF Increased, InfoNow
  <1>5. reward' = [reward EXCEPT ![u] = info]
    BY <1>4, InfoFacts DEF BondFor
  <1>6. Computed(state.total_bond_amount + amount) /\ Settled(u)
    BY DEF BondFor, TotalIncreased
  <1>7. /\ state.total_bond_amount + amount \in Nat
        /\ lp_balance + amount \in Nat /\ psi_balance \in Nat
    <2>1. state.total_bond_amount \in Nat /\ lp_balance \in Nat /\ psi_balance \in Nat
      BY TypeFacts
    <2>. QED
      BY <2>1
  <1>8. psi_balance' = psi_balance - 0 /\ psi_balance - 0 \in Nat /\ p = p - 0
    BY <1>2, <1>7
  <1>9. UNCHANGED <<config, now, scheduled, sent, recut, sound>>
    OBVIOUS
  <1>10. Booked(u, amount, 0, info)
    <2>. HIDE DEF info
    <2>. QED
      BY <1>3, <1>5, <1>8 DEF Booked
  <1>. QED
    BY <1>6, <1>7, <1>8, <1>9, <1>10 DEF Settles

LEMMA UnbondSettles ==
    ASSUME IType, NEW u \in Stakers, NEW amount \in Nat, Unbond(u, amount)
    PROVE  Settles(u, 0 - amount, 0)
  <1>. DEFINE p == PendingNow(u)
              b == reward[u].bond_amount - amount
              new == Stored(InfoNow(b, p))
  <1>1. /\ MayUnbond(u, amount) /\ Computed(state.total_bond_amount - amount) /\ Settled(u)
        /\ reward' = [reward EXCEPT
                    ![u] = Stored([Settle(reward[u]) EXCEPT !.bond_amount = @ - amount])]
        /\ lp_balance' = lp_balance - amount
        /\ UNCHANGED <<config, psi_balance, now, scheduled, sent, recut, sound>>
    BY DEF Unbond
  <1>2. RewardIsComputable
    BY <1>1 DEF Computed
  <1>3. /\ amount <= reward[u].bond_amount /\ amount <= state.total_bond_amount
        /\ amount <= lp_balance
    BY <1>1 DEF MayUnbond
  <1>4. b \in Nat /\ b = reward[u].bond_amount + (0 - amount)
    BY <1>3, InfoFacts
  <1>5. p \in Nat /\ NewIndex \in Nat
    BY <1>2, SettleIs, ComputeReward
  <1>6. /\ new \in StakerInfo /\ new.bond_amount = b /\ new.pending_reward = p
        /\ \/ new.reward_index = NewIndex
           \/ new.reward_index = 0 /\ new.bond_amount = 0
    BY <1>4, <1>5, StoredInfo
  <1>7. [Settle(reward[u]) EXCEPT !.bond_amount = @ - amount] = InfoNow(b, p)
    <2>1. Settle(reward[u]) = InfoNow(reward[u].bond_amount, p)
      BY <1>2, SettleIs
    <2>. HIDE DEF p
    <2>2. [InfoNow(reward[u].bond_amount, p) EXCEPT !.bond_amount = @ - amount] = InfoNow(b, p)
      BY DEF InfoNow
    <2>. QED
      BY <2>1, <2>2
  <1>8. reward' = [reward EXCEPT ![u] = new]
    BY <1>1, <1>7
  <1>9. state.total_bond_amount \in Nat /\ lp_balance \in Nat /\ psi_balance \in Nat
    BY TypeFacts
  <1>10. /\ state.total_bond_amount - amount = state.total_bond_amount + (0 - amount)
         /\ state.total_bond_amount + (0 - amount) \in Nat
         /\ lp_balance' = lp_balance + (0 - amount) /\ lp_balance + (0 - amount) \in Nat
    BY <1>1, <1>3, <1>9
  <1>11. psi_balance' = psi_balance - 0 /\ psi_balance - 0 \in Nat /\ p = p - 0
    BY <1>1, <1>5, <1>9
  <1>12. Computed(state.total_bond_amount + (0 - amount))
    BY <1>1, <1>10
  <1>13. Settled(u) /\ UNCHANGED <<config, now, scheduled, sent, recut, sound>>
    BY <1>1
  <1>14. Booked(u, 0 - amount, 0, new)
    <2>. HIDE DEF new, b
    <2>. QED
      BY <1>4, <1>6, <1>8, <1>11 DEF Booked
  <1>. QED
    BY <1>10, <1>11, <1>12, <1>13, <1>14 DEF Settles

LEMMA WithdrawSettles ==
    ASSUME IType, NEW u \in Stakers, Withdraw(u)
    PROVE  \E out \in Nat : Settles(u, 0, out)
  <1>. DEFINE p == PendingNow(u)
              b == reward[u].bond_amount
              new == Stored(InfoNow(b, 0))
              was == Settle(reward[u])
  <1>1. /\ Computed(state.total_bond_amount) /\ Settled(u)
        /\ was.pending_reward <= psi_balance
        /\ reward' = [reward EXCEPT ![u] = Stored([was EXCEPT !.pending_reward = 0])]
        /\ psi_balance' = psi_balance - was.pending_reward
        /\ UNCHANGED <<config, lp_balance, now, scheduled, sent, recut, sound>>
    BY DEF Withdraw, QueryStakerInfo
  <1>2. RewardIsComputable
    BY <1>1 DEF Computed
  <1>3. b \in Nat /\ p \in Nat /\ NewIndex \in Nat
    BY <1>2, InfoFacts, SettleIs, ComputeReward
  <1>4. /\ new \in StakerInfo /\ new.bond_amount = b /\ new.pending_reward = 0
        /\ \/ new.reward_index = NewIndex
           \/ new.reward_index = 0 /\ new.bond_amount = 0
    BY <1>3, StoredInfo
  <1>5. was = InfoNow(b, p)
    BY <1>2, SettleIs
  <1>. HIDE DEF was, p
  <1>6. was.pending_reward = p /\ [was EXCEPT !.pending_reward = 0] = InfoNow(b, 0)
    BY <1>5 DEF InfoNow
  <1>7. reward' = [reward EXCEPT ![u] = new]
    BY <1>1, <1>6
  <1>8. state.total_bond_amount \in Nat /\ lp_balance \in Nat /\ psi_balance \in Nat
    BY TypeFacts
  <1>9. /\ state.total_bond_amount + 0 = state.total_bond_amount
        /\ lp_balance' = lp_balance + 0 /\ lp_balance + 0 \in Nat
        /\ psi_balance' = psi_balance - p /\ psi_balance - p \in Nat
        /\ 0 = p - p /\ b = b + 0
    BY <1>1, <1>3, <1>6, <1>8
  <1>10. Computed(state.total_bond_amount + 0) /\ state.total_bond_amount + 0 \in Nat
    BY <1>1, <1>8, <1>9
  <1>11. Settled(u) /\ UNCHANGED <<config, now, scheduled, sent, recut, sound>>
    BY <1>1
  <1>12. Booked(u, 0, p, new)
    <2>1. new.bond_amount = reward[u].bond_amount + 0 /\ new.pending_reward = PendingNow(u) - p
      BY <1>4, <1>9 DEF p
    <2>. HIDE DEF new, b, p
    <2>. QED
      BY <1>4, <1>7, <2>1 DEF Booked
  <1>13. Settles(u, 0, p)
    BY <1>9, <1>10, <1>11, <1>12 DEF Settles
  <1>. QED
    BY <1>3, <1>13

LEMMA HookSettles ==
    ASSUME IType, NEW sender, NEW u \in Stakers, NEW prev \in Nat, NEW minted \in Nat,
           AutoStakeHook(sender, u, prev, minted)
    PROVE  \E db \in Nat : Settles(u, db, 0)
  <1>1. prev = lp_balance /\ lp_balance \in Nat
    BY TypeFacts DEF AutoStakeHook, HookAllowed, AutoStake
  <1>2. lp_balance + minted - prev = minted
    BY <1>1
  <1>3. BondFor(u, minted)
    BY <1>2 DEF AutoStakeHook
  <1>4. Settles(u, minted, 0)
    BY <1>3, BondForSettles DEF AutoStakeHook
  <1>. QED
    BY <1>4

\* The kinds of steps the contract takes.
LEMMA StepKinds ==
    ASSUME IType, Next
    PROVE  \/ \E u \in Stakers, db \in Int, out \in Nat : Settles(u, db, out)
           \/ \E sender \in Owners, list \in NewSchedules : AddSchedules(sender, list)
           \/ \E sender, owner \in Owners : UpdateOwner(sender, owner)
           \/ \E sender \in Owners : MigrateStaking(sender)
           \/ \E amount \in Nat : TransferLp(amount)
           \/ Tick
  <1>1. ASSUME NEW u \in Stakers, NEW amount \in Amounts, Bond(u, amount)
        PROVE  \E db \in Int, out \in Nat : Settles(u, db, out)
    BY <1>1, BondForSettles, AmountsAssumption DEF Bond
  <1>2. ASSUME NEW u \in Stakers, NEW amount \in Amounts, Unbond(u, amount)
        PROVE  \E db \in Int, out \in Nat : Settles(u, db, out)
    BY <1>2, UnbondSettles, AmountsAssumption
  <1>3. ASSUME NEW u \in Stakers, Withdraw(u)
        PROVE  \E db \in Int, out \in Nat : Settles(u, db, out)
    BY <1>3, WithdrawSettles
  <1>4. ASSUME NEW sender, NEW u \in Stakers, NEW prev \in 0..Supply,
               NEW minted \in {0} \cup Amounts, AutoStakeHook(sender, u, prev, minted)
        PROVE  \E db \in Int, out \in Nat : Settles(u, db, out)
    <2>1. prev \in Nat /\ minted \in Nat
      BY AmountsAssumption, BoundsAssumption
    <2>2. \E db \in Nat : Settles(u, db, 0)
      BY <1>4, <2>1, HookSettles
    <2>. QED
      BY <2>2
  <1>5. Amounts \subseteq Nat
    BY AmountsAssumption
  <1>. QED
    BY <1>1, <1>2, <1>3, <1>4, <1>5 DEF Next

\* The schedules a migration leaves.
LEMMA StartedType ==
    ASSUME IType
    PROVE  /\ Started \in Seq(Schedule)
           /\ \A k \in DOMAIN Started : Started[k] \in Schedule /\ Started[k].start_time < now
  <1>. DEFINE kept == {k \in DOMAIN ds : ds[k].start_time < now}
  <1>1. ds \in Seq(Schedule)
    BY TypeFacts
  <1>2. Started = Filtered(ds, kept)
    BY DEF Started, ds
  <1>3. kept \in SUBSET DOMAIN ds /\ \A k \in kept : ds[k] \in Schedule /\ ds[k].start_time < now
    BY <1>1
  <1>. HIDE DEF kept
  <1>4. /\ Filtered(ds, kept) \in Seq(Schedule)
        /\ \A r \in DOMAIN Filtered(ds, kept) : \E k \in kept : Filtered(ds, kept)[r] = ds[k]
    BY <1>1, <1>3, FilteredType
  <1>. QED
    BY <1>2, <1>3, <1>4

CutIsComputable ==
    \A k \in DOMAIN Started : Started[k].end_time < now \/ HasLength(Started[k])

LEMMA CutType ==
    ASSUME IType, CutIsComputable
    PROVE  /\ Cut \in Seq(Schedule) /\ DOMAIN Cut = DOMAIN Started
           /\ \A k \in DOMAIN Started : Cut[k] = CutOff(Started[k])
  <1>1. /\ Started \in Seq(Schedule) /\ now \in Nat
        /\ \A k \in DOMAIN Started : Started[k] \in Schedule /\ Started[k].start_time < now
    BY StartedType, TypeFacts
  <1>2. ASSUME NEW k \in DOMAIN Started
        PROVE  CutOff(Started[k]) \in Schedule
    <2>1. CASE Started[k].end_time < now
      BY <1>1, <2>1 DEF CutOff
    <2>2. CASE ~(Started[k].end_time < now)
      <3>. DEFINE s == Started[k]
                  given == Released(s, now - s.start_time)
      <3>1. s \in Schedule /\ HasLength(s) /\ now - s.start_time \in Nat
        BY <1>1, <2>2 DEF CutIsComputable, Schedule
      <3>2. given \in Nat
        BY <3>1, ReleasedType
      <3>3. CutOff(s) = [s EXCEPT !.end_time = now, !.amount = given]
        BY <2>2 DEF CutOff
      <3>. HIDE DEF s, given
      <3>4. [s EXCEPT !.end_time = now, !.amount = given] \in Schedule
        BY <1>1, <3>1, <3>2 DEF Schedule
      <3>. QED
        BY <3>3, <3>4 DEF s
    <2>. QED
      BY <2>1, <2>2
  <1>3. Cut = [k \in DOMAIN Started |-> CutOff(Started[k])]
    BY DEF Cut
  <1>4. Len(Started) \in Nat /\ DOMAIN Started = 1..Len(Started)
    BY <1>1
  <1>5. Cut \in Seq(Schedule)
    BY <1>2, <1>3, <1>4
  <1>. QED
    BY <1>3, <1>5

-----------------------------------------------------------------------------
(* Types *)

LEMMA ComputedStep ==
    ASSUME IType, NEW bond \in Nat, Computed(bond)
    PROVE  /\ RewardIsComputable
           /\ state' = [last_distributed |-> now, total_bond_amount |-> bond,
                        global_reward_index |-> NewIndex]
           /\ distributed' = distributed + NewlyDistributed
           /\ NewlyDistributed \in Nat /\ distributed' \in Nat
           /\ NewIndex \in Nat /\ state.global_reward_index <= NewIndex
  <1>1. RewardIsComputable
    BY DEF Computed
  <1>2. /\ state.last_distributed \in Nat /\ now \in Nat /\ state.last_distributed <= now
        /\ distributed \in Nat
    BY TypeFacts
  <1>3. MaxOf(state.last_distributed, now) = now
    BY <1>2 DEF MaxOf
  <1>4. NewlyDistributed \in Nat /\ NewIndex \in Nat /\ state.global_reward_index <= NewIndex
    BY <1>1, ComputeReward
  <1>. QED
    BY <1>1, <1>2, <1>3, <1>4 DEF Computed

LEMMA InitType == ASSUME Init PROVE IType
  <1>1. /\ ds \in Seq(Schedule) /\ config \in [owner: Owners, distribution_schedule: Seq(Schedule)]
    BY SchedulesAssumption DEF Init, ds
  <1>2. scheduled \in Nat
    BY <1>1, AmountInIsListSum DEF Init, ds
  <1>. QED
    <2>1. /\ now = 0 /\ lp_balance = 0 /\ psi_balance = Funds
          /\ distributed = 0 /\ sent = 0 /\ recut = 0 /\ settled = 0
          /\ sound = SoundList(ds)
          /\ state = [last_distributed |-> 0, total_bond_amount |-> 0, global_reward_index |-> 0]
          /\ reward = [u \in Stakers |-> NoInfo]
      BY DEF Init, ds
    <2>2. NoInfo \in StakerInfo /\ NoInfo.reward_index = 0
      BY DEF NoInfo, StakerInfo
    <2>3. SoundList(ds) \in BOOLEAN
      BY DEF SoundList
    <2>4. TypeOK
      BY <1>1, <1>2, <2>1, <2>2, <2>3, BoundsAssumption DEF TypeOK
    <2>5. Clocks
      BY <2>1, <2>2, BoundsAssumption DEF Clocks
    <2>. QED
      BY <2>4, <2>5 DEF IType

LEMMA SettlesType ==
    ASSUME IType, NEW u \in Stakers, NEW db \in Int, NEW out \in Nat, Settles(u, db, out)
    PROVE  IType'
  <1>1. PICK info : Booked(u, db, out, info)
    BY DEF Settles
  <1>2. state.total_bond_amount + db \in Nat /\ Computed(state.total_bond_amount + db)
    BY DEF Settles
  <1>3. /\ state' = [last_distributed |-> now,
                     total_bond_amount |-> state.total_bond_amount + db,
                     global_reward_index |-> NewIndex]
        /\ distributed' \in Nat /\ NewIndex \in Nat /\ state.global_reward_index <= NewIndex
    BY <1>2, ComputedStep
  <1>4. /\ info \in StakerInfo /\ reward' = [reward EXCEPT ![u] = info]
        /\ info.reward_index = NewIndex \/ info.reward_index = 0
    BY <1>1 DEF Booked
  <1>5. settled' \in Nat
    <2>1. settled' = settled + 1 \/ settled' = settled
      BY DEF Settles, Settled
    <2>2. settled \in Nat
      BY TypeFacts
    <2>. QED
      BY <2>1, <2>2
  <1>6. lp_balance' \in Nat /\ psi_balance' \in Nat
        /\ UNCHANGED <<config, now, scheduled, sent, recut, sound>>
    BY DEF Settles
  <1>7. TypeOK'
    BY <1>2, <1>3, <1>4, <1>5, <1>6 DEF IType, TypeOK
  <1>8. state'.last_distributed = now /\ state'.global_reward_index = NewIndex
    BY <1>3
  <1>9. now \in Nat /\ now <= MaxTime /\ state.global_reward_index \in Nat
    BY TypeFacts
  <1>10. ASSUME NEW v \in Stakers
         PROVE  reward'[v].reward_index <= NewIndex
    <2>1. CASE v = u
      <3>1. reward'[v] = info
        BY <1>4, <2>1, InfoFacts
      <3>. QED
        BY <1>3, <1>4, <3>1
    <2>2. CASE v # u
      <3>1. reward'[v] = reward[v]
        BY <1>4, <2>2, InfoFacts
      <3>2. reward[v].reward_index \in Nat /\ reward[v].reward_index <= state.global_reward_index
        BY InfoFacts
      <3>. QED
        BY <1>3, <1>9, <3>1, <3>2
    <2>. QED
      BY <2>1, <2>2
  <1>. QED
    BY <1>6, <1>7, <1>8, <1>9, <1>10 DEF IType, Clocks

LEMMA NextType == ASSUME IType, [Next]_vars PROVE IType'
  <1>1. CASE UNCHANGED vars
    BY <1>1 DEF IType, TypeOK, Clocks, vars, history
  <1>2. ASSUME NEW u \in Stakers, NEW db \in Int, NEW out \in Nat, Settles(u, db, out)
        PROVE  IType'
    BY <1>2, SettlesType
  <1>3. ASSUME NEW sender \in Owners, NEW list \in NewSchedules, AddSchedules(sender, list)
        PROVE  IType'
    <2>1. list \in Seq(Schedule) /\ AmountIn(list) \in Nat
      BY SchedulesAssumption, AmountInIsListSum
    <2>2. ds \o list \in Seq(Schedule)
      BY <2>1, TypeFacts
    <2>3. /\ config' = [config EXCEPT !.distribution_schedule = @ \o list]
          /\ scheduled' = scheduled + AmountIn(list) /\ sound' \in BOOLEAN
          /\ UNCHANGED <<state, reward, lp_balance, psi_balance, now, distributed, sent, recut, settled>>
      BY <1>3 DEF AddSchedules
    <2>4. config' \in [owner: Owners, distribution_schedule: Seq(Schedule)]
      BY <2>2, <2>3 DEF IType, TypeOK, ds
    <2>5. scheduled' \in Nat
      BY <2>1, <2>3, TypeFacts, SMTT(30)
    <2>. QED
      BY <2>3, <2>4, <2>5 DEF IType, TypeOK, Clocks
  <1>4. ASSUME NEW sender \in Owners, NEW owner \in Owners, UpdateOwner(sender, owner)
        PROVE  IType'
    BY <1>4 DEF UpdateOwner, IType, TypeOK, Clocks, history
  <1>5. ASSUME NEW sender \in Owners, MigrateStaking(sender)
        PROVE  IType'
    <2>1. /\ Computed(state.total_bond_amount) /\ CutIsComputable
          /\ Remaining > 0 /\ Remaining <= psi_balance
          /\ config' = [config EXCEPT !.distribution_schedule = Cut]
          /\ psi_balance' = psi_balance - Remaining /\ sent' = sent + Remaining
          /\ recut' = recut + Cardinality({k \in DOMAIN Started : Started[k].end_time = now})
          /\ UNCHANGED <<reward, lp_balance, now, scheduled, settled, sound>>
      BY <1>5 DEF MigrateStaking, CutIsComputable
    <2>2. Cut \in Seq(Schedule)
      BY <2>1, CutType
    <2>3. config' \in [owner: Owners, distribution_schedule: Seq(Schedule)]
      BY <2>1, <2>2 DEF IType, TypeOK
    <2>4. Remaining \in Int
      <3>1. AmountIn(ds) \in Nat /\ AmountIn(Cut) \in Nat
        BY <2>2, TypeFacts, AmountInIsListSum
      <3>. QED
        BY <3>1 DEF Remaining, ds
    <2>5. psi_balance' \in Nat /\ sent' \in Nat
      BY <2>1, <2>4, TypeFacts, SMTT(30)
    <2>6. recut' \in Nat
      <3>. DEFINE again == {k \in DOMAIN Started : Started[k].end_time = now}
      <3>1. IsFiniteSet(DOMAIN Started)
        BY StartedType, FS_Interval
      <3>2. Cardinality(again) \in Nat
        BY <3>1, FS_Subset, FS_CardinalityType
      <3>. QED
        BY <2>1, <3>2, TypeFacts, SMTT(30)
    <2>7. /\ state' = [last_distributed |-> now, total_bond_amount |-> state.total_bond_amount,
                       global_reward_index |-> NewIndex]
          /\ distributed' \in Nat /\ NewIndex \in Nat /\ state.global_reward_index <= NewIndex
          /\ state.total_bond_amount \in Nat
      BY <2>1, ComputedStep, TypeFacts
    <2>8. TypeOK'
      BY <2>1, <2>3, <2>5, <2>6, <2>7 DEF IType, TypeOK
    <2>9. state'.last_distributed = now /\ state'.global_reward_index = NewIndex
      BY <2>7
    <2>10. now \in Nat /\ now <= MaxTime /\ state.global_reward_index \in Nat
      BY TypeFacts
    <2>11. ASSUME NEW v \in Stakers
           PROVE  reward'[v].reward_index <= NewIndex
      <3>1. reward'[v] = reward[v]
        BY <2>1
      <3>. QED
        BY <2>7, <2>10, <3>1, InfoFacts
    <2>. QED
      BY <2>1, <2>8, <2>9, <2>10, <2>11 DEF IType, Clocks
  <1>6. ASSUME NEW amount \in Nat, TransferLp(amount)
        PROVE  IType'
    BY <1>6 DEF TransferLp, IType, TypeOK, Clocks, history
  <1>7. CASE Tick
    BY <1>7, BoundsAssumption DEF Tick, IType, TypeOK, Clocks, history
  <1>. QED
    BY <1>1, <1>2, <1>3, <1>4, <1>5, <1>6, <1>7, StepKinds

LEMMA AlwaysIType == Spec => []IType
  <1>1. Init => IType
    BY InitType
  <1>2. IType /\ [Next]_vars => IType'
    BY NextType
  <1>. QED
    BY <1>1, <1>2, PTL DEF Spec

\* Every variable always has its type: no handler that gets past its checks
\* stores a negative reward, bond or schedule, whatever schedules it was given.
THEOREM TypeCorrect == Spec => []TypeOK
  <1>1. IType => TypeOK
    BY DEF IType
  <1>. QED
    BY <1>1, AlwaysIType, PTL

-----------------------------------------------------------------------------
(* Bonds *)

BondOf(r) == [u \in Stakers |-> r[u].bond_amount]

LEMMA BondsHeldSum ==
    ASSUME IType
    PROVE  /\ BondsHeld <=> /\ state.total_bond_amount = Sum(BondOf(reward), Stakers)
                            /\ state.total_bond_amount <= lp_balance
           /\ \A u \in Stakers : BondOf(reward)[u] \in Nat
  <1>1. \A u \in Stakers : BondOf(reward)[u] \in Nat
    BY InfoFacts DEF BondOf
  <1>2. SumFunction(BondOf(reward)) = Sum(BondOf(reward), Stakers)
    BY SumFunctionIsSum DEF BondOf
  <1>. QED
    BY <1>1, <1>2 DEF BondsHeld, BondOf

\* Booking a change of one bond changes the sum of them by as much.
LEMMA BookedBonds ==
    ASSUME IType, NEW u \in Stakers, NEW db \in Int, NEW out \in Nat, NEW info,
           Booked(u, db, out, info)
    PROVE  Sum(BondOf(reward'), Stakers) = Sum(BondOf(reward), Stakers) + db
  <1>. DEFINE g == BondOf(reward)
              h == BondOf(reward')
  <1>1. /\ info.bond_amount \in Nat /\ info.bond_amount = reward[u].bond_amount + db
        /\ reward' = [reward EXCEPT ![u] = info]
    BY DEF Booked, StakerInfo
  <1>2. reward \in [Stakers -> StakerInfo]
    BY InfoFacts
  <1>3. \A v \in Stakers : g[v] \in Int
    BY InfoFacts DEF BondOf
  <1>4. h[u] = g[u] + db /\ h[u] \in Int /\ \A v \in Stakers \ {u} : h[v] = g[v]
    BY <1>1, <1>2 DEF BondOf
  <1>. HIDE DEF g, h
  <1>5. Sum(h, Stakers) = Sum(g, Stakers) - g[u] + h[u]
    BY <1>3, <1>4, StakersAreFinite, SumChange
  <1>6. Sum(g, Stakers) \in Int
    BY <1>3, StakersAreFinite, SumInt
  <1>. QED
    BY <1>3, <1>4, <1>5, <1>6 DEF g, h

LEMMA InitBonds == ASSUME Init PROVE BondsHeld
  <1>1. IType
    BY InitType
  <1>2. \A u \in Stakers : BondOf(reward)[u] = 0
    BY DEF Init, NoInfo, BondOf
  <1>3. Sum(BondOf(reward), Stakers) = 0
    BY <1>2, StakersAreFinite, SumZero
  <1>. QED
    BY <1>1, <1>3, BondsHeldSum DEF Init

LEMMA NextBonds == ASSUME IType, BondsHeld, [Next]_vars PROVE BondsHeld'
  <1>1. /\ state.total_bond_amount = Sum(BondOf(reward), Stakers)
        /\ state.total_bond_amount <= lp_balance
        /\ state.total_bond_amount \in Nat /\ lp_balance \in Nat
    BY BondsHeldSum, TypeFacts
  <1>2. BondsHeld' <=> /\ state'.total_bond_amount = Sum(BondOf(reward'), Stakers)
                       /\ state'.total_bond_amount <= lp_balance'
    <2>1. SumFunction(BondOf(reward')) = Sum(BondOf(reward'), Stakers)
      BY SumFunctionIsSum DEF BondOf
    <2>. QED
      BY <2>1 DEF BondsHeld, BondOf
  <1>3. ASSUME NEW u \in Stakers, NEW db \in Int, NEW out \in Nat, Settles(u, db, out)
        PROVE  BondsHeld'
    <2>1. PICK info : Booked(u, db, out, info)
      BY <1>3 DEF Settles
    <2>2. Sum(BondOf(reward'), Stakers) = Sum(BondOf(reward), Stakers) + db
      BY <2>1, BookedBonds
    <2>3. /\ state.total_bond_amount + db \in Nat /\ Computed(state.total_bond_amount + db)
          /\ lp_balance' = lp_balance + db
      BY <1>3 DEF Settles
    <2>4. state'.total_bond_amount = state.total_bond_amount + db
      BY <2>3, ComputedStep
    <2>. QED
      BY <1>1, <1>2, <2>2, <2>3, <2>4
  <1>4. ASSUME UNCHANGED reward, state'.total_bond_amount = state.total_bond_amount,
               lp_balance' \in Nat, lp_balance <= lp_balance'
        PROVE  BondsHeld'
    BY <1>1, <1>2, <1>4
  <1>5. ASSUME NEW sender \in Owners, MigrateStaking(sender)
        PROVE  BondsHeld'
    <2>1. state'.total_bond_amount = state.total_bond_amount
      BY <1>1, <1>5, ComputedStep DEF MigrateStaking
    <2>. QED
      BY <1>1, <1>4, <1>5, <2>1 DEF MigrateStaking
  <1>6. ASSUME NEW amount \in Nat, TransferLp(amount)
        PROVE  BondsHeld'
    BY <1>1, <1>4, <1>6 DEF TransferLp
  <1>7. ASSUME UNCHANGED <<state, reward, lp_balance>>
        PROVE  BondsHeld'
    BY <1>1, <1>4, <1>7
  <1>. QED
    BY <1>3, <1>5, <1>6, <1>7, StepKinds DEF AddSchedules, UpdateOwner, Tick, vars

\* Every bonded token is some staker's, and is in the contract: the sum of the
\* bonds is the total the contract divides rewards by, and never exceeds its LP
\* balance, whichever way tokens came to it.
THEOREM BondsAreHeld == Spec => []BondsHeld
  <1>1. Init => BondsHeld
    BY InitBonds
  <1>2. IType /\ BondsHeld /\ [Next]_vars => BondsHeld'
    BY NextBonds
  <1>. QED
    BY <1>1, <1>2, AlwaysIType, PTL DEF Spec

-----------------------------------------------------------------------------
(* Leaving *)

SchedulesSound == sound => SoundList(ds)

LEMMA NextSound == ASSUME IType, SchedulesSound, [Next]_vars PROVE SchedulesSound'
  <1>1. ASSUME ds' = ds, sound' = sound
        PROVE  SchedulesSound'
    BY <1>1 DEF SchedulesSound, SoundList, HasLength
  <1>2. ASSUME NEW sender \in Owners, NEW list \in NewSchedules, AddSchedules(sender, list)
        PROVE  SchedulesSound'
    <2>1. ds \in Seq(Schedule) /\ list \in Seq(Schedule)
      BY TypeFacts, SchedulesAssumption
    <2>2. ds' = ds \o list /\ (sound' => SoundList(ds) /\ SoundList(list))
      BY <1>2 DEF AddSchedules, SchedulesSound, IType, TypeOK, ds
    <2>3. SoundList(ds) /\ SoundList(list) => SoundList(ds \o list)
      <3>. SUFFICES ASSUME SoundList(ds), SoundList(list), NEW k \in DOMAIN (ds \o list)
                    PROVE  HasLength((ds \o list)[k])
        BY DEF SoundList
      <3>1. Len(ds) \in Nat /\ Len(list) \in Nat /\ k \in 1..(Len(ds) + Len(list))
        BY <2>1
      <3>2. CASE k <= Len(ds)
        <4>1. (ds \o list)[k] = ds[k] /\ k \in DOMAIN ds
          BY <2>1, <3>1, <3>2
        <4>. QED
          BY <4>1 DEF SoundList
      <3>3. CASE ~(k <= Len(ds))
        <4>1. (ds \o list)[k] = list[k - Len(ds)] /\ k - Len(ds) \in DOMAIN list
          BY <2>1, <3>1, <3>3
        <4>. QED
          BY <4>1 DEF SoundList
      <3>. QED
        BY <3>2, <3>3
    <2>. QED
      BY <2>2, <2>3 DEF SchedulesSound, SoundList, HasLength
  <1>3. ASSUME NEW sender \in Owners, MigrateStaking(sender)
        PROVE  SchedulesSound'
    <2>1. CutIsComputable /\ config' = [config EXCEPT !.distribution_schedule = Cut] /\ sound' = sound
      BY <1>3 DEF MigrateStaking, CutIsComputable
    <2>2. ds' = Cut
      BY <2>1 DEF IType, TypeOK, ds
    <2>3. ASSUME SoundList(ds), NEW k \in DOMAIN Cut
          PROVE  HasLength(Cut[k])
      <3>. DEFINE s == Started[k]
      <3>1. k \in DOMAIN Started /\ Cut[k] = CutOff(s)
        BY <2>1, <2>3, CutType
      <3>2. s \in Schedule /\ s.start_time < now /\ HasLength(s)
        <4>. DEFINE kept == {j \in DOMAIN ds : ds[j].start_time < now}
        <4>1. Started = Filtered(ds, kept)
          BY DEF Started, ds
        <4>2. ds \in Seq(Schedule) /\ kept \in SUBSET DOMAIN ds
          BY TypeFacts
        <4>. HIDE DEF kept
        <4>3. \E j \in kept : Filtered(ds, kept)[k] = ds[j]
          BY <3>1, <4>1, <4>2, FilteredType
        <4>. QED
          BY <2>3, <3>1, <4>1, <4>2, <4>3, StartedType DEF SoundList
      <3>. HIDE DEF s
      <3>3. CutOff(s).start_time = s.start_time /\ CutOff(s).end_time \in {s.end_time, now}
        BY <3>2 DEF CutOff, Schedule
      <3>. QED
        BY <3>1, <3>2, <3>3 DEF HasLength
    <2>4. SoundList(ds) => SoundList(Cut)
      BY <2>3 DEF SoundList
    <2>5. SchedulesSound' <=> (sound' => SoundList(ds'))
      BY DEF SchedulesSound, SoundList, HasLength
    <2>6. SoundList(ds') <=> SoundList(Cut)
      BY <2>2
    <2>. QED
      BY <2>1, <2>4, <2>5, <2>6 DEF SchedulesSound
  <1>4. ASSUME NEW sender \in Owners, NEW owner \in Owners, UpdateOwner(sender, owner)
        PROVE  SchedulesSound'
    <2>1. ds' = ds /\ sound' = sound
      BY <1>4 DEF UpdateOwner, IType, TypeOK, ds, history
    <2>. QED
      BY <1>1, <2>1
  <1>5. ASSUME UNCHANGED <<config, sound>>
        PROVE  SchedulesSound'
    BY <1>1, <1>5 DEF ds
  <1>. QED
    BY <1>2, <1>3, <1>4, <1>5, StepKinds DEF Settles, TransferLp, Tick, vars, history

\* With schedules that have a length, the whole bond of any staker can be taken
\* out in every state: the reward can be computed, its checked subtraction
\* succeeds, and neither the total nor the LP balance is short of the bond.
THEOREM StakersLeave == Spec => []StakersCanLeave
  <1>1. Init => SchedulesSound
    BY DEF Init, SchedulesSound, ds
  <1>2. IType /\ SchedulesSound /\ [Next]_vars => SchedulesSound'
    BY NextSound
  <1>3. ASSUME IType, BondsHeld, SchedulesSound PROVE StakersCanLeave
    <2>1. SUFFICES ASSUME sound, NEW u \in Stakers, reward[u].bond_amount > 0
                   PROVE  MayUnbond(u, reward[u].bond_amount)
      BY DEF StakersCanLeave
    <2>2. RewardIsComputable
      BY <1>3, <2>1 DEF SchedulesSound, SoundList, RewardIsComputable, ds
    <2>3. RewardOf(reward[u], NewIndex) \in Nat
      BY <1>3, <2>2, RewardOfType
    <2>4. MaySettle(u)
      BY <2>2, <2>3 DEF MaySettle
    <2>. DEFINE b == reward[u].bond_amount
                g == BondOf(reward)
    <2>5. /\ state.total_bond_amount = Sum(g, Stakers) /\ state.total_bond_amount <= lp_balance
          /\ \A v \in Stakers : g[v] \in Nat
      BY <1>3, BondsHeldSum
    <2>6. b \in Nat /\ g[u] = b
      BY <1>3, InfoFacts DEF BondOf
    <2>7. state.total_bond_amount \in Nat /\ lp_balance \in Nat
      BY <1>3, TypeFacts
    <2>. HIDE DEF g
    <2>8. g[u] <= Sum(g, Stakers)
      BY <2>5, StakersAreFinite, SumPart
    <2>. QED
      BY <2>1, <2>4, <2>5, <2>6, <2>7, <2>8 DEF MayUnbond
  <1>. QED
    BY <1>1, <1>2, <1>3, AlwaysIType, BondsAreHeld, PTL DEF Spec

-----------------------------------------------------------------------------
(* What migrations leave *)

\* The books of the schedules: what has been distributed or sent away, and what
\* is still promised, is covered by what was given, but for what the schedules
\* of today may already have given out (and one unit for each that was cut off
\* twice in the same second).
NothingOverspent ==
    distributed + sent + AmountIn(ds)
        <= scheduled + recut + ListSum(DoneBy(state.last_distributed), ds)

LEMMA BooksType ==
    ASSUME IType, NEW t \in Nat
    PROVE  /\ AmountIn(ds) \in Nat /\ ListSum(DoneBy(t), ds) \in Nat
           /\ ListSum(DoneBy(t), ds) <= AmountIn(ds)
  <1>1. ds \in Seq(Schedule)
    BY TypeFacts
  <1>2. AmountIn(ds) \in Nat
    BY <1>1, AmountInIsListSum
  <1>3. t <= t
    OBVIOUS
  <1>4. ListSum(DoneBy(t), ds) \in Nat /\ ListSum(DoneBy(t), ds) <= AmountIn(ds)
    BY <1>1, <1>3, ListGain
  <1>. QED
    BY <1>2, <1>4

LEMMA OverspentImplies ==
    ASSUME IType, NothingOverspent
    PROVE  MigrationLeavesRewards
  <1>. DEFINE A == AmountIn(ds)
              D == ListSum(DoneBy(state.last_distributed), ds)
  <1>1. A \in Nat /\ D \in Nat /\ D <= A
    BY BooksType, TypeFacts
  <1>2. distributed \in Nat /\ sent \in Nat /\ scheduled \in Nat /\ recut \in Nat
    BY TypeFacts
  <1>3. distributed + sent + A <= scheduled + recut + D
    BY DEF NothingOverspent
  <1>. HIDE DEF A, D
  <1>. QED
    BY <1>1, <1>2, <1>3 DEF MigrationLeavesRewards

\* Whatever computes the reward keeps the books: it distributes no more than the
\* schedules may have given out since.
LEMMA ComputedBooks ==
    ASSUME IType, NothingOverspent, NEW bond \in Nat, Computed(bond)
    PROVE  /\ distributed' + sent + AmountIn(ds) <= scheduled + recut + ListSum(DoneBy(now), ds)
           /\ state'.last_distributed = now
  <1>. DEFINE A == AmountIn(ds)
              D == ListSum(DoneBy(state.last_distributed), ds)
              E == ListSum(DoneBy(now), ds)
              new == NewlyDistributed
  <1>1. /\ distributed' = distributed + new /\ new \in Nat /\ RewardIsComputable
        /\ state'.last_distributed = now
    BY ComputedStep
  <1>2. D + new <= E
    BY <1>1, ComputeReward
  <1>3. A \in Nat /\ D \in Nat /\ E \in Nat
    BY BooksType, TypeFacts
  <1>4. distributed \in Nat /\ sent \in Nat /\ scheduled \in Nat /\ recut \in Nat
    BY TypeFacts
  <1>5. distributed + sent + A <= scheduled + recut + D
    BY DEF NothingOverspent
  <1>. HIDE DEF A, D, E, new
  <1>6. distributed' + sent + A <= scheduled + recut + E
    BY <1>1, <1>2, <1>3, <1>4, <1>5
  <1>. QED
    BY <1>1, <1>6 DEF A, E

\* A schedule that is cut off now has given out as much as before, but for one
\* unit if it ended this very second.
LEMMA CutOffDone ==
    ASSUME IType, NEW s \in Schedule, s.start_time < now, s.end_time < now \/ HasLength(s)
    PROVE  DoneAt(s, now) <= DoneAt(CutOff(s), now) + (IF s.end_time = now THEN 1 ELSE 0)
  <1>. DEFINE given == Released(s, now - s.start_time)
              c == [s EXCEPT !.end_time = now, !.amount = given]
  <1>1. /\ s.start_time \in Nat /\ s.end_time \in Nat /\ s.amount \in Nat
        /\ now \in Nat /\ now <= MaxTime /\ MaxTime \in Nat /\ DECIMAL_FRACTIONAL \in Nat
    BY TypeFacts DEF Schedule
  <1>2. DoneAt(s, now) \in Nat
    BY <1>1, DoneType
  <1>3. CASE s.end_time < now
    <2>1. CutOff(s) = s
      BY <1>3 DEF CutOff
    <2>. QED
      BY <1>1, <1>2, <1>3, <2>1
  <1>4. CASE ~(s.end_time < now)
    <2>1. HasLength(s) /\ now - s.start_time \in Nat /\ now - s.start_time <= DECIMAL_FRACTIONAL
      BY <1>1, <1>4, TimeAssumption
    <2>2. given \in Nat
      BY <2>1, ReleasedType
    <2>3. CutOff(s) = c
      BY <1>4 DEF CutOff
    <2>4. c.start_time = s.start_time /\ c.end_time = now /\ c.amount = given
      BY DEF Schedule
    <2>5. DoneAt(c, now) = given
      <3>. HIDE DEF c, given
      <3>. QED
        BY <1>1, <2>4 DEF DoneAt, HasLength
    <2>6. CASE s.end_time = now
      <3>1. DoneAt(s, now) = s.amount
        BY <1>1, <2>1, <2>6 DEF DoneAt
      <3>2. s.amount <= given + 1
        BY <2>1, <2>6, ReleasedFull
      <3>. HIDE DEF c, given
      <3>. QED
        BY <1>1, <2>2, <2>3, <2>5, <2>6, <3>1, <3>2
    <2>7. CASE s.end_time # now
      <3>1. DoneAt(s, now) = given
        BY <1>1, <1>4, <2>1, <2>7 DEF DoneAt
      <3>. HIDE DEF c, given
      <3>. QED
        BY <1>2, <2>2, <2>3, <2>5, <2>7, <3>1
    <2>. QED
      BY <2>6, <2>7
  <1>. QED
    BY <1>3, <1>4

\* So the schedules that a migration keeps have given out as much as all did.
LEMMA CutDone ==
    ASSUME IType, CutIsComputable
    PROVE  ListSum(DoneBy(now), ds)
             <= ListSum(DoneBy(now), Cut)
                  + Cardinality({k \in DOMAIN Started : Started[k].end_time = now})
  <1>. DEFINE v == DoneBy(now)
              kept == {k \in DOMAIN ds : ds[k].start_time < now}
              D == DOMAIN Started
              again == {k \in D : Started[k].end_time = now}
              g == [k \in D |-> v[Started[k]]]
              h == [k \in D |-> v[Cut[k]]]
              one == [k \in D |-> IF k \in again THEN 1 ELSE 0]
              f == [k \in D |-> h[k] + one[k]]
  <1>1. /\ ds \in Seq(Schedule) /\ now \in Nat
        /\ Started \in Seq(Schedule) /\ Cut \in Seq(Schedule) /\ DOMAIN Cut = D
        /\ \A k \in D : /\ Cut[k] = CutOff(Started[k])
                         /\ Started[k] \in Schedule /\ Started[k].start_time < now
    BY TypeFacts, StartedType, CutType
  <1>2. \A s \in Schedule : v[s] \in Nat /\ v[s] = DoneAt(s, now)
    BY <1>1, DoneType DEF DoneBy
  <1>3. ListSum(v, Started) = ListSum(v, ds)
    <2>1. Started = Filtered(ds, kept)
      BY DEF Started, ds
    <2>2. kept \in SUBSET DOMAIN ds
      OBVIOUS
    <2>3. \A k \in DOMAIN ds \ kept : v[ds[k]] = 0
      <3>1. SUFFICES ASSUME NEW k \in DOMAIN ds \ kept PROVE v[ds[k]] = 0
        OBVIOUS
      <3>. DEFINE s == ds[k]
      <3>2. s \in Schedule /\ ~(s.start_time < now)
        BY <1>1, <3>1
      <3>. HIDE DEF s
      <3>3. DoneAt(s, now) = 0
        BY <1>1, <3>2 DEF DoneAt, HasLength, Schedule
      <3>. QED
        BY <1>2, <3>2, <3>3 DEF s
    <2>. HIDE DEF v, kept
    <2>4. \A s \in Schedule : v[s] \in Int
      BY <1>2
    <2>5. ListSum(v, Filtered(ds, kept)) = ListSum(v, ds)
      BY <1>1, <2>2, <2>3, <2>4, ListSumFiltered
    <2>. QED
      BY <2>1, <2>5
  <1>4. /\ IsFiniteSet(D) /\ ListSum(v, Started) = Sum(g, D) /\ ListSum(v, Cut) = Sum(h, D)
    <2>1. \A s \in Schedule : v[s] \in Int
      BY <1>2
    <2>. HIDE DEF v
    <2>. QED
      BY <1>1, <2>1, ListSumIsSum
  <1>5. \A k \in D : /\ g[k] \in Int /\ h[k] \in Int /\ one[k] \in Int
                     /\ f[k] = h[k] + one[k] /\ f[k] \in Int /\ g[k] <= f[k]
    <2>1. SUFFICES ASSUME NEW k \in D
                   PROVE  /\ g[k] \in Int /\ h[k] \in Int /\ one[k] \in Int
                          /\ f[k] = h[k] + one[k] /\ f[k] \in Int /\ g[k] <= f[k]
      OBVIOUS
    <2>2. Cut[k] \in Schedule
      BY <1>1
    <2>3. /\ g[k] = DoneAt(Started[k], now) /\ g[k] \in Nat
          /\ h[k] = DoneAt(CutOff(Started[k]), now) /\ h[k] \in Nat
      BY <1>1, <1>2, <2>2
    <2>4. Started[k].end_time < now \/ HasLength(Started[k])
      BY DEF CutIsComputable
    <2>5. g[k] <= h[k] + (IF Started[k].end_time = now THEN 1 ELSE 0)
      BY <1>1, <2>3, <2>4, CutOffDone
    <2>6. one[k] = IF Started[k].end_time = now THEN 1 ELSE 0
      OBVIOUS
    <2>. QED
      BY <2>3, <2>5, <2>6
  <1>6. \A k \in D : one[k] = IF k \in again THEN 1 ELSE 0
    OBVIOUS
  <1>7. again \in SUBSET D
    OBVIOUS
  <1>. HIDE DEF v, D, again, g, h, one, f
  <1>8. Sum(g, D) <= Sum(f, D)
    BY <1>4, <1>5, SumMonotone
  <1>9. Sum(f, D) = Sum(h, D) + Sum(one, D)
    BY <1>4, <1>5, SumPlus
  <1>10. Sum(one, D) = Cardinality(again)
    BY <1>4, <1>6, <1>7, SumOfOnes
  <1>11. ListSum(v, ds) <= ListSum(v, Cut) + Cardinality(again)
    BY <1>3, <1>4, <1>8, <1>9, <1>10
  <1>. QED
    BY <1>11 DEF v, again, D

LEMMA NextBooks == ASSUME IType, NothingOverspent, [Next]_vars PROVE NothingOverspent'
  <1>. DEFINE last == state.last_distributed
              Done(t, list) == ListSum(DoneBy(t), list)
  <1>1. /\ ds \in Seq(Schedule) /\ last \in Nat /\ now \in Nat /\ last <= now
        /\ distributed \in Nat /\ sent \in Nat /\ scheduled \in Nat /\ recut \in Nat
        /\ AmountIn(ds) \in Nat /\ Done(last, ds) \in Nat /\ Done(now, ds) \in Nat
    BY TypeFacts, BooksType
  <1>2. NothingOverspent' <=> distributed' + sent' + AmountIn(ds')
                                 <= scheduled' + recut' + Done(state'.last_distributed, ds')
    BY DEF NothingOverspent
  <1>3. distributed + sent + AmountIn(ds) <= scheduled + recut + Done(last, ds)
    BY DEF NothingOverspent
  <1>. HIDE DEF Done
  <1>4. ASSUME NEW u \in Stakers, NEW db \in Int, NEW out \in Nat, Settles(u, db, out)
        PROVE  NothingOverspent'
    <2>1. state.total_bond_amount + db \in Nat /\ Computed(state.total_bond_amount + db)
      BY <1>4 DEF Settles
    <2>2. /\ distributed' + sent + AmountIn(ds) <= scheduled + recut + Done(now, ds)
          /\ state'.last_distributed = now
      BY <2>1, ComputedBooks DEF Done
    <2>3. ds' = ds /\ UNCHANGED <<scheduled, sent, recut>>
      BY <1>4 DEF Settles, ds
    <2>. QED
      BY <1>2, <2>2, <2>3
  <1>5. ASSUME NEW sender \in Owners, NEW list \in NewSchedules, AddSchedules(sender, list)
        PROVE  NothingOverspent'
    <2>1. list \in Seq(Schedule)
      BY SchedulesAssumption
    <2>2. /\ ds' = ds \o list /\ scheduled' = scheduled + AmountIn(list)
          /\ UNCHANGED <<state, distributed, sent, recut>>
      BY <1>5 DEF AddSchedules, IType, TypeOK, ds
    <2>3. AmountIn(ds \o list) = AmountIn(ds) + AmountIn(list) /\ AmountIn(list) \in Nat
      <3>1. \A s \in Schedule : AmountOf[s] \in Int
        BY DEF AmountOf, Schedule
      <3>2. ds \o list \in Seq(Schedule)
        BY <1>1, <2>1
      <3>3. /\ AmountIn(ds \o list) = ListSum(AmountOf, ds \o list)
            /\ AmountIn(ds) = ListSum(AmountOf, ds)
            /\ AmountIn(list) = ListSum(AmountOf, list) /\ AmountIn(list) \in Nat
        BY <1>1, <2>1, <3>2, AmountInIsListSum
      <3>4. ListSum(AmountOf, ds \o list) = ListSum(AmountOf, ds) + ListSum(AmountOf, list)
        BY <1>1, <2>1, <3>1, ListSumConcat
      <3>. QED
        BY <3>3, <3>4
    <2>4. Done(last, ds \o list) = Done(last, ds) + Done(last, list) /\ Done(last, list) \in Nat
      <3>1. \A s \in Schedule : DoneBy(last)[s] \in Nat
        BY <1>1, DoneType DEF DoneBy
      <3>2. ListSum(DoneBy(last), ds \o list) = ListSum(DoneBy(last), ds) + ListSum(DoneBy(last), list)
        BY <1>1, <2>1, <3>1, ListSumConcat
      <3>3. ListSum(DoneBy(last), list) \in Nat
        BY <2>1, <3>1, ListSumNat
      <3>. QED
        BY <3>2, <3>3 DEF Done
    <2>5. NothingOverspent' <=> distributed + sent + AmountIn(ds \o list)
                                   <= scheduled' + recut + Done(last, ds \o list)
      BY <1>2, <2>2
    <2>. DEFINE a == AmountIn(ds)
                b == AmountIn(list)
                d == Done(last, ds)
                e == Done(last, list)
    <2>6. /\ a \in Nat /\ b \in Nat /\ d \in Nat /\ e \in Nat
          /\ distributed + sent + a <= scheduled + recut + d
      BY <1>1, <1>3, <2>3, <2>4
    <2>7. NothingOverspent' <=> distributed + sent + (a + b)
                                   <= (scheduled + b) + recut + (d + e)
      BY <2>2, <2>3, <2>4, <2>5
    <2>8. distributed \in Nat /\ sent \in Nat /\ scheduled \in Nat /\ recut \in Nat
      BY <1>1
    <2>. HIDE DEF a, b, d, e
    <2>. QED
      BY <2>6, <2>7, <2>8
  <1>6. ASSUME NEW sender \in Owners, MigrateStaking(sender)
        PROVE  NothingOverspent'
    <2>. DEFINE again == Cardinality({k \in DOMAIN Started : Started[k].end_time = now})
    <2>1. /\ CutIsComputable /\ Computed(state.total_bond_amount)
          /\ config' = [config EXCEPT !.distribution_schedule = Cut]
          /\ sent' = sent + (AmountIn(ds) - AmountIn(Cut)) /\ recut' = recut + again
          /\ scheduled' = scheduled
      BY <1>6 DEF MigrateStaking, CutIsComputable, Remaining, ds
    <2>2. ds' = Cut
      BY <2>1 DEF IType, TypeOK, ds
    <2>3. /\ distributed' + sent + AmountIn(ds) <= scheduled + recut + Done(now, ds)
          /\ state'.last_distributed = now /\ distributed' \in Nat
      BY <2>1, TypeFacts, ComputedBooks, ComputedStep DEF Done
    <2>4. Cut \in Seq(Schedule)
      BY <2>1, CutType
    <2>5. AmountIn(Cut) \in Nat /\ Done(now, Cut) \in Nat
      <3>1. now <= now
        BY <1>1
      <3>. QED
        BY <1>1, <2>4, <3>1, AmountInIsListSum, ListGain DEF Done
    <2>6. Done(now, ds) <= Done(now, Cut) + again
      BY <2>1, CutDone DEF Done
    <2>7. again \in Nat
      <3>1. IsFiniteSet(DOMAIN Started)
        BY StartedType, FS_Interval DEF Started
      <3>2. IsFiniteSet({k \in DOMAIN Started : Started[k].end_time = now})
        BY <3>1, FS_Subset
      <3>. QED
        BY <3>2, FS_CardinalityType
    <2>8. NothingOverspent' <=> distributed' + sent' + AmountIn(Cut)
                                   <= scheduled' + recut' + Done(now, Cut)
      BY <1>2, <2>2, <2>3
    <2>. DEFINE a == AmountIn(ds)
                c == AmountIn(Cut)
                d == Done(now, ds)
                e == Done(now, Cut)
    <2>9. /\ a \in Nat /\ c \in Nat /\ d \in Nat /\ e \in Nat
          /\ distributed' + sent + a <= scheduled + recut + d
          /\ distributed' \in Nat /\ d <= e + again
          /\ sent \in Nat /\ scheduled \in Nat /\ recut \in Nat
      BY <1>1, <2>3, <2>5, <2>6
    <2>10. NothingOverspent' <=> distributed' + (sent + (a - c)) + c
                                    <= scheduled + (recut + again) + e
      BY <2>1, <2>8
    <2>. HIDE DEF again, a, c, d, e
    <2>11. distributed' + (sent + (a - c)) + c = distributed' + sent + a
      BY <2>9
    <2>12. scheduled + recut + d <= scheduled + (recut + again) + e
      BY <2>7, <2>9
    <2>13. /\ distributed' + sent + a \in Int /\ scheduled + recut + d \in Int
           /\ scheduled + (recut + again) + e \in Int
      BY <2>7, <2>9
    <2>14. distributed' + sent + a <= scheduled + (recut + again) + e
      <3>. DEFINE x == distributed' + sent + a
                  y == scheduled + recut + d
                  z == scheduled + (recut + again) + e
      <3>1. x \in Int /\ y \in Int /\ z \in Int /\ x <= y /\ y <= z
        BY <2>9, <2>12, <2>13
      <3>. HIDE DEF x, y, z
      <3>2. x <= z
        BY <3>1
      <3>. QED
        BY <3>2 DEF x, z
    <2>. QED
      BY <2>10, <2>11, <2>14
  <1>7. ASSUME ds' = ds, UNCHANGED <<state, distributed, scheduled, sent, recut>>
        PROVE  NothingOverspent'
    BY <1>2, <1>3, <1>7
  <1>8. ASSUME NEW sender \in Owners, NEW owner \in Owners, UpdateOwner(sender, owner)
        PROVE  NothingOverspent'
    <2>1. ds' = ds /\ UNCHANGED <<state, distributed, scheduled, sent, recut>>
      BY <1>8 DEF UpdateOwner, IType, TypeOK, ds, history
    <2>. QED
      BY <1>7, <2>1
  <1>9. ASSUME UNCHANGED <<config, state, distributed, scheduled, sent, recut>>
        PROVE  NothingOverspent'
    BY <1>7, <1>9 DEF ds
  <1>. QED
    BY <1>4, <1>5, <1>6, <1>8, <1>9, StepKinds DEF TransferLp, Tick, vars, history

\* What has been distributed and what migrations have sent away never exceed
\* what the schedules were given, plus one for every schedule that was cut off
\* in the second in which it ended, so a migration leaves the rewards it owes.
THEOREM MigrationsLeaveRewards == Spec => []MigrationLeavesRewards
  <1>1. Init => IType /\ NothingOverspent
    <2>. SUFFICES ASSUME Init PROVE IType /\ NothingOverspent
      OBVIOUS
    <2>1. IType
      BY InitType
    <2>2. /\ ListSum(DoneBy(state.last_distributed), ds) \in Nat
          /\ AmountIn(ds) \in Nat
      BY <2>1, TypeFacts, BooksType
    <2>3. distributed = 0 /\ sent = 0 /\ recut = 0 /\ scheduled = AmountIn(ds)
      BY DEF Init, ds
    <2>. QED
      BY <2>1, <2>2, <2>3 DEF NothingOverspent
  <1>2. IType /\ NothingOverspent /\ [Next]_vars => NothingOverspent'
    BY NextBooks
  <1>3. IType /\ NothingOverspent => MigrationLeavesRewards
    BY OverspentImplies
  <1>. QED
    BY <1>1, <1>2, <1>3, AlwaysIType, PTL DEF Spec

-----------------------------------------------------------------------------
(* What is paid and owed *)

PendingOf(r) == [u \in Stakers |-> r[u].pending_reward]
\* What the bonds accrue up to an index, in fractions of a token.
AccruingTo(r, index) ==
    [u \in Stakers |-> r[u].bond_amount * (index - r[u].reward_index)]

LEMMA RewardSums ==
    ASSUME IType, NEW index \in Nat
    PROVE  /\ \A u \in Stakers : /\ PendingOf(reward)[u] \in Nat
                                 /\ AccruingTo(reward, index)[u] \in Int
           /\ Sum(PendingOf(reward), Stakers) \in Nat
           /\ Sum(AccruingTo(reward, index), Stakers) \in Int
  <1>1. \A u \in Stakers : PendingOf(reward)[u] \in Nat
    BY InfoFacts DEF PendingOf
  <1>2. \A u \in Stakers : AccruingTo(reward, index)[u] \in Int
    BY InfoFacts DEF AccruingTo
  <1>3. Sum(PendingOf(reward), Stakers) \in Nat
    BY <1>1, StakersAreFinite, SumNat
  <1>4. Sum(AccruingTo(reward, index), Stakers) \in Int
    BY <1>2, StakersAreFinite, SumInt
  <1>. QED
    BY <1>1, <1>2, <1>3, <1>4

LEMMA RewardsAccountedSum ==
    RewardsAccounted <=>
        DECIMAL_FRACTIONAL * ((Funds - psi_balance - sent) + Sum(PendingOf(reward), Stakers))
          + Sum(AccruingTo(reward, state.global_reward_index), Stakers)
            <= DECIMAL_FRACTIONAL * (distributed + settled)
  <1>1. Pending = Sum(PendingOf(reward), Stakers)
    BY SumFunctionIsSum DEF Pending, PendingOf
  <1>2. Accruing = Sum(AccruingTo(reward, state.global_reward_index), Stakers)
    BY SumFunctionIsSum DEF Accruing, AccruingTo
  <1>. QED
    BY <1>1, <1>2 DEF RewardsAccounted, Paid

\* Moving the index lets the bonds accrue no more than is distributed: the index
\* moves by what is distributed over all the bonds, and that is their sum.
LEMMA AccruingLater ==
    ASSUME IType, BondsHeld, RewardIsComputable
    PROVE  Sum(AccruingTo(reward, NewIndex), Stakers)
             <= Sum(AccruingTo(reward, state.global_reward_index), Stakers)
                  + DECIMAL_FRACTIONAL * NewlyDistributed
  <1>. DEFINE i == state.global_reward_index
              j == NewIndex
              f == AccruingTo(reward, j)
              g == AccruingTo(reward, i)
              b == BondOf(reward)
              h == [u \in Stakers |-> (j - i) * b[u]]
  <1>1. /\ i \in Nat /\ j \in Nat /\ i <= j /\ state.total_bond_amount \in Nat
        /\ state.total_bond_amount * (j - i) <= DECIMAL_FRACTIONAL * NewlyDistributed
        /\ DECIMAL_FRACTIONAL \in Nat /\ NewlyDistributed \in Nat
    BY TypeFacts, ComputeReward
  <1>2. state.total_bond_amount = Sum(b, Stakers) /\ \A u \in Stakers : b[u] \in Nat
    BY BondsHeldSum
  <1>3. \A u \in Stakers : g[u] \in Int /\ h[u] \in Int /\ f[u] = g[u] + h[u]
    <2>1. SUFFICES ASSUME NEW u \in Stakers
                   PROVE  g[u] \in Int /\ h[u] \in Int /\ f[u] = g[u] + h[u]
      OBVIOUS
    <2>. DEFINE n == reward[u].bond_amount
                k == reward[u].reward_index
    <2>2. n \in Nat /\ k \in Nat
      BY InfoFacts
    <2>3. g[u] = n * (i - k) /\ h[u] = (j - i) * n /\ f[u] = n * (j - k)
      BY DEF AccruingTo, BondOf
    <2>. HIDE DEF n, k, i, j, f, g, h
    <2>. QED
      BY <1>1, <2>2, <2>3
  <1>4. \A u \in Stakers : b[u] \in Int /\ h[u] = (j - i) * b[u]
    BY <1>2
  <1>5. j - i \in Int
    BY <1>1
  <1>. HIDE DEF f, g, h, b, i, j
  <1>6. Sum(f, Stakers) = Sum(g, Stakers) + Sum(h, Stakers)
    BY <1>3, StakersAreFinite, SumPlus
  <1>7. Sum(h, Stakers) = (j - i) * Sum(b, Stakers)
    BY <1>4, <1>5, StakersAreFinite, SumTimes
  <1>8. Sum(g, Stakers) \in Int
    BY <1>3, StakersAreFinite, SumInt
  <1>9. Sum(h, Stakers) <= DECIMAL_FRACTIONAL * NewlyDistributed
    <2>1. (j - i) * state.total_bond_amount = state.total_bond_amount * (j - i)
      BY <1>1
    <2>. QED
      BY <1>1, <1>2, <1>7, <2>1
  <1>10. Sum(h, Stakers) \in Int /\ DECIMAL_FRACTIONAL * NewlyDistributed \in Int
    <2>1. \A u \in Stakers : h[u] \in Int
      BY <1>3
    <2>. QED
      BY <1>1, <2>1, StakersAreFinite, SumInt
  <1>11. Sum(f, Stakers) <= Sum(g, Stakers) + DECIMAL_FRACTIONAL * NewlyDistributed
    BY <1>6, <1>8, <1>9, <1>10
  <1>. QED
    BY <1>11 DEF f, g, i, j

\* A reward that is settled is more than the bond accrued by less than one token.
LEMMA RewardRounding ==
    ASSUME IType, RewardIsComputable, NEW u \in Stakers
    PROVE  DECIMAL_FRACTIONAL * RewardOf(reward[u], NewIndex)
             <= AccruingTo(reward, NewIndex)[u]
                  + (IF reward[u].bond_amount > 0 /\ reward[u].reward_index # NewIndex
                     THEN DECIMAL_FRACTIONAL ELSE 0)
  <1>. DEFINE b == reward[u].bond_amount
              i == reward[u].reward_index
              j == NewIndex
              F == DECIMAL_FRACTIONAL
              p == (b * j) \div F
              q == (b * i) \div F
              e == IF b > 0 /\ i # j THEN F ELSE 0
  <1>1. b \in Nat /\ i \in Nat /\ j \in Nat /\ F \in Nat \ {0}
    BY InfoFacts, ComputeReward, TypeFacts
  <1>2. RewardOf(reward[u], NewIndex) = p - q /\ AccruingTo(reward, NewIndex)[u] = b * (j - i)
    BY DEF RewardOf, TimesDecimal, MultiplyRatio, AccruingTo
  <1>. HIDE DEF b, i, j, F
  <1>3. /\ b * j \in Nat /\ b * i \in Nat /\ b * (j - i) = b * j - b * i
    BY <1>1, MulNat
  <1>4. p \in Nat /\ p * F <= b * j /\ q \in Nat /\ b * i < (q + 1) * F
    BY <1>1, <1>3, DivFloor
  <1>. HIDE DEF p, q
  <1>5. F * (p - q) = p * F - q * F /\ (q + 1) * F = q * F + F /\ p * F \in Nat /\ q * F \in Nat
    BY <1>1, <1>4, MulNat
  <1>6. F * (p - q) <= b * (j - i) + F
    BY <1>1, <1>3, <1>4, <1>5
  <1>7. CASE b > 0 /\ i # j
    BY <1>2, <1>6, <1>7 DEF b, i, j, F
  <1>8. CASE b = 0 \/ i = j
    <2>1. p = q
      BY <1>1, <1>8 DEF p, q
    <2>2. b * (j - i) = 0
      BY <1>1, <1>8
    <2>3. F * (p - q) = 0
      BY <1>1, <1>4, <2>1
    <2>4. e = 0
      BY <1>1, <1>8
    <2>. QED
      BY <1>2, <2>2, <2>3, <2>4 DEF b, i, j, F
  <1>. QED
    BY <1>1, <1>7, <1>8

\* Booking changes the sums by what it changes for its one staker, whose bond has
\* accrued nothing since.
LEMMA BookedSums ==
    ASSUME IType, RewardIsComputable, NEW u \in Stakers, NEW db \in Int, NEW out \in Nat,
           NEW info, Booked(u, db, out, info)
    PROVE  /\ Sum(PendingOf(reward'), Stakers)
                = Sum(PendingOf(reward), Stakers) + RewardOf(reward[u], NewIndex) - out
           /\ Sum(AccruingTo(reward', NewIndex), Stakers)
                = Sum(AccruingTo(reward, NewIndex), Stakers) - AccruingTo(reward, NewIndex)[u]
  <1>. DEFINE g == PendingOf(reward)
              h == PendingOf(reward')
              a == AccruingTo(reward, NewIndex)
              c == AccruingTo(reward', NewIndex)
              r == RewardOf(reward[u], NewIndex)
  <1>1. /\ reward' = [reward EXCEPT ![u] = info] /\ reward \in [Stakers -> StakerInfo]
        /\ info \in StakerInfo /\ NewIndex \in Nat /\ r \in Nat
    BY InfoFacts, ComputeReward, RewardOfType DEF Booked
  <1>2. reward'[u] = info /\ \A v \in Stakers \ {u} : reward'[v] = reward[v]
    BY <1>1
  <1>3. /\ \A v \in Stakers : g[v] \in Int /\ a[v] \in Int
        /\ Sum(g, Stakers) \in Int /\ Sum(a, Stakers) \in Int
    BY <1>1, RewardSums
  <1>4. h[u] = g[u] + r - out /\ \A v \in Stakers \ {u} : h[v] = g[v]
    <2>1. h[u] = info.pending_reward /\ g[u] = reward[u].pending_reward
      BY <1>2 DEF PendingOf
    <2>2. info.pending_reward = (reward[u].pending_reward + r) - out
      BY DEF Booked, PendingNow
    <2>3. reward[u].pending_reward \in Nat
      BY InfoFacts
    <2>4. \A v \in Stakers \ {u} : h[v] = g[v]
      BY <1>2 DEF PendingOf
    <2>. HIDE DEF g, h, r
    <2>. QED
      BY <1>1, <2>1, <2>2, <2>3, <2>4
  <1>5. c[u] = 0 /\ \A v \in Stakers \ {u} : c[v] = a[v]
    <2>1. c[u] = info.bond_amount * (NewIndex - info.reward_index)
      BY <1>2 DEF AccruingTo
    <2>2. info.bond_amount \in Nat /\ info.reward_index \in Nat
      BY <1>1 DEF StakerInfo
    <2>3. info.reward_index = NewIndex \/ info.bond_amount = 0
      BY DEF Booked
    <2>. QED
      BY <1>1, <1>2, <2>1, <2>2, <2>3 DEF AccruingTo
  <1>. HIDE DEF g, h, a, c, r
  <1>6. \A v \in Stakers : h[v] \in Int /\ c[v] \in Int
    BY <1>1, <1>3, <1>4, <1>5
  <1>7. Sum(h, Stakers) = Sum(g, Stakers) - g[u] + h[u]
    BY <1>3, <1>4, <1>6, StakersAreFinite, SumChange
  <1>8. Sum(c, Stakers) = Sum(a, Stakers) - a[u] + c[u]
    BY <1>3, <1>5, <1>6, StakersAreFinite, SumChange
  <1>9. Sum(h, Stakers) = Sum(g, Stakers) + r - out
    BY <1>1, <1>3, <1>4, <1>7
  <1>10. Sum(c, Stakers) = Sum(a, Stakers) - a[u]
    BY <1>3, <1>5, <1>8
  <1>. QED
    BY <1>9, <1>10 DEF g, h, a, c, r

LEMMA SettlesAccounted ==
    ASSUME IType, BondsHeld, RewardsAccounted,
           NEW u \in Stakers, NEW db \in Int, NEW out \in Nat, Settles(u, db, out)
    PROVE  RewardsAccounted'
  <1>. DEFINE F == DECIMAL_FRACTIONAL
              P == Sum(PendingOf(reward), Stakers)
              A == Sum(AccruingTo(reward, state.global_reward_index), Stakers)
              B == Sum(AccruingTo(reward, NewIndex), Stakers)
              P1 == Sum(PendingOf(reward'), Stakers)
              A1 == Sum(AccruingTo(reward', NewIndex), Stakers)
              a == AccruingTo(reward, NewIndex)[u]
              r == RewardOf(reward[u], NewIndex)
              new == NewlyDistributed
              paid == Funds - psi_balance - sent
              once == IF reward[u].bond_amount > 0 /\ reward[u].reward_index # NewIndex
                      THEN 1 ELSE 0
  <1>1. /\ state.total_bond_amount + db \in Nat /\ Computed(state.total_bond_amount + db)
        /\ psi_balance' = psi_balance - out /\ sent' = sent
        /\ settled' = settled + once
    <2>1. settled \in Nat
      BY TypeFacts
    <2>. QED
      BY <2>1 DEF Settles, Settled
  <1>2. /\ RewardIsComputable /\ state'.global_reward_index = NewIndex
        /\ distributed' = distributed + new /\ new \in Nat /\ NewIndex \in Nat
    BY <1>1, ComputedStep
  <1>3. PICK info : Booked(u, db, out, info)
    BY DEF Settles
  <1>4. P1 = P + r - out /\ A1 = B - a
    BY <1>2, <1>3, BookedSums
  <1>5. /\ F \in Nat /\ paid \in Int /\ distributed \in Nat /\ settled \in Nat
        /\ psi_balance \in Nat /\ sent \in Nat /\ Funds \in Nat
    BY TypeFacts, BoundsAssumption
  <1>6. P \in Nat /\ A \in Int /\ B \in Int /\ a \in Int /\ r \in Nat
    <2>1. state.global_reward_index \in Nat
      BY TypeFacts
    <2>. QED
      BY <1>2, <2>1, RewardSums, RewardOfType
  <1>7. B <= A + F * new
    BY <1>2, AccruingLater
  <1>8. F * r <= a + F * once
    <2>1. F * r <= a + (IF reward[u].bond_amount > 0 /\ reward[u].reward_index # NewIndex
                        THEN F ELSE 0)
      BY <1>2, RewardRounding
    <2>2. F * once = IF reward[u].bond_amount > 0 /\ reward[u].reward_index # NewIndex
                     THEN F ELSE 0
      BY <1>5
    <2>. QED
      BY <2>1, <2>2
  <1>9. F * (paid + P) + A <= F * (distributed + settled)
    BY RewardsAccountedSum
  <1>10. RewardsAccounted' <=>
            F * ((Funds - psi_balance' - sent') + P1)
              + Sum(AccruingTo(reward', state'.global_reward_index), Stakers)
                <= F * (distributed' + settled')
    <2>1. SumFunction(PendingOf(reward')) = P1
      BY SumFunctionIsSum DEF PendingOf
    <2>2. SumFunction(AccruingTo(reward', state'.global_reward_index))
             = Sum(AccruingTo(reward', state'.global_reward_index), Stakers)
      BY SumFunctionIsSum DEF AccruingTo
    <2>. HIDE DEF F, P1
    <2>. QED
      BY <2>1, <2>2 DEF RewardsAccounted, Paid, Pending, Accruing, PendingOf, AccruingTo, F
  <1>11. once \in Nat /\ Funds - psi_balance' - sent' = paid + out
    BY <1>1, <1>5
  <1>12. RewardsAccounted' <=>
            F * ((paid + out) + (P + r - out)) + (B - a)
                <= F * ((distributed + new) + (settled + once))
    BY <1>1, <1>2, <1>4, <1>10, <1>11
  <1>. HIDE DEF F, P, A, B, P1, A1, a, r, new, paid, once
  <1>13. (paid + out) + (P + r - out) = (paid + P) + r
    BY <1>5, <1>6
  <1>14. F * ((paid + P) + r) = F * (paid + P) + F * r
    BY <1>5, <1>6
  <1>15. F * ((distributed + new) + (settled + once))
            = F * (distributed + settled) + F * new + F * once
    BY <1>2, <1>5, <1>11
  <1>16. /\ F * (paid + P) \in Int /\ F * r \in Int /\ F * new \in Int /\ F * once \in Int
         /\ F * (distributed + settled) \in Int
    BY <1>2, <1>5, <1>6, <1>11
  <1>17. F * (paid + P) + F * r + (B - a)
            <= F * (distributed + settled) + F * new + F * once
    <2>. DEFINE x == F * (paid + P)
                y == F * r
                z == F * new
                w == F * once
                v == F * (distributed + settled)
    <2>1. /\ x \in Int /\ y \in Int /\ z \in Int /\ w \in Int /\ v \in Int
          /\ x + A <= v /\ y <= a + w /\ B <= A + z
      BY <1>7, <1>8, <1>9, <1>16
    <2>. HIDE DEF x, y, z, w, v
    <2>2. x + y + (B - a) <= v + z + w
      BY <1>6, <2>1
    <2>. QED
      BY <2>2 DEF x, y, z, w, v
  <1>. QED
    BY <1>12, <1>13, <1>14, <1>15, <1>17

LEMMA NextAccounted ==
    ASSUME IType, BondsHeld, RewardsAccounted, [Next]_vars
    PROVE  RewardsAccounted'
  <1>. DEFINE F == DECIMAL_FRACTIONAL
              P == Sum(PendingOf(reward), Stakers)
              A(index) == Sum(AccruingTo(reward, index), Stakers)
              paid == Funds - psi_balance - sent
  <1>1. F * (paid + P) + A(state.global_reward_index) <= F * (distributed + settled)
    BY RewardsAccountedSum
  <1>2. /\ F \in Nat /\ paid \in Int /\ P \in Nat /\ distributed \in Nat /\ settled \in Nat
        /\ state.global_reward_index \in Nat /\ A(state.global_reward_index) \in Int
        /\ psi_balance \in Nat /\ sent \in Nat /\ Funds \in Nat
    <2>1. state.global_reward_index \in Nat
      BY TypeFacts
    <2>2. /\ F \in Nat /\ psi_balance \in Nat /\ sent \in Nat /\ Funds \in Nat
          /\ distributed \in Nat /\ settled \in Nat
      BY TypeFacts, BoundsAssumption
    <2>3. P \in Nat /\ A(state.global_reward_index) \in Int
      BY <2>1, RewardSums
    <2>4. paid \in Int
      BY <2>2
    <2>. QED
      BY <2>1, <2>2, <2>3, <2>4
  <1>3. ASSUME UNCHANGED <<state, reward, psi_balance, distributed, sent, settled>>
        PROVE  RewardsAccounted'
    BY <1>3 DEF RewardsAccounted, Paid, Pending, Accruing
  <1>4. ASSUME NEW sender \in Owners, MigrateStaking(sender)
        PROVE  RewardsAccounted'
    <2>1. /\ Computed(state.total_bond_amount) /\ state.total_bond_amount \in Nat
          /\ psi_balance' = psi_balance - Remaining /\ sent' = sent + Remaining
          /\ UNCHANGED <<reward, settled>>
      BY <1>4, TypeFacts DEF MigrateStaking
    <2>2. /\ RewardIsComputable /\ state'.global_reward_index = NewIndex /\ NewIndex \in Nat
          /\ distributed' = distributed + NewlyDistributed /\ NewlyDistributed \in Nat
      BY <2>1, ComputedStep
    <2>3. A(NewIndex) <= A(state.global_reward_index) + F * NewlyDistributed
          /\ A(NewIndex) \in Int
      BY <2>2, AccruingLater, RewardSums
    <2>4. Remaining \in Int
      <3>1. CutIsComputable
        BY <1>4 DEF MigrateStaking, CutIsComputable
      <3>2. AmountIn(ds) \in Nat /\ AmountIn(Cut) \in Nat
        BY <3>1, TypeFacts, CutType, AmountInIsListSum
      <3>. QED
        BY <3>2 DEF Remaining, ds
    <2>5. Funds - psi_balance' - sent' = paid
      BY <1>2, <2>1, <2>4
    <2>6. RewardsAccounted' <=>
             F * (paid + P) + A(NewIndex) <= F * ((distributed + NewlyDistributed) + settled)
      <3>1. SumFunction(PendingOf(reward)) = P
        BY SumFunctionIsSum DEF PendingOf
      <3>2. SumFunction(AccruingTo(reward, NewIndex)) = A(NewIndex)
        BY SumFunctionIsSum DEF AccruingTo
      <3>3. /\ Pending' = SumFunction(PendingOf(reward))
            /\ Accruing' = SumFunction(AccruingTo(reward, NewIndex))
            /\ Paid' = paid
        BY <2>1, <2>2, <2>5 DEF Pending, Accruing, PendingOf, AccruingTo, Paid
      <3>4. RewardsAccounted' <=> F * (Paid' + Pending') + Accruing' <= F * (distributed' + settled')
        BY DEF RewardsAccounted
      <3>. HIDE DEF F, P, A, paid
      <3>. QED
        BY <2>1, <2>2, <3>1, <3>2, <3>3, <3>4
    <2>7. F * ((distributed + NewlyDistributed) + settled)
             = F * (distributed + settled) + F * NewlyDistributed
      BY <1>2, <2>2
    <2>. DEFINE x == F * (paid + P)
                y == F * (distributed + settled)
                z == F * NewlyDistributed
                a == A(state.global_reward_index)
                b == A(NewIndex)
    <2>8. x \in Int /\ y \in Int /\ z \in Int
      BY <1>2, <2>2
    <2>9. x + a <= y /\ b <= a + z /\ a \in Int /\ b \in Int
      BY <1>1, <1>2, <2>3
    <2>10. RewardsAccounted' <=> x + b <= y + z
      BY <2>6, <2>7
    <2>. HIDE DEF x, y, z, a, b
    <2>11. x + b <= y + z
      BY <2>8, <2>9
    <2>. QED
      BY <2>10, <2>11
  <1>. QED
    BY <1>3, <1>4, SettlesAccounted, StepKinds
       DEF AddSchedules, UpdateOwner, TransferLp, Tick, vars, history

\* Stakers together never get more than was distributed, but for what rounding
\* gives each time a reward is settled: what was paid, is pending and accrues is
\* bounded through every order of bonding, leaving, paying and migrating.
THEOREM RewardsAreAccounted == Spec => []RewardsAccounted
  <1>1. Init => RewardsAccounted
    <2>. SUFFICES ASSUME Init PROVE RewardsAccounted
      OBVIOUS
    <2>1. /\ reward = [u \in Stakers |-> NoInfo] /\ state.global_reward_index = 0
          /\ psi_balance = Funds /\ sent = 0 /\ distributed = 0 /\ settled = 0
          /\ Funds \in Nat /\ DECIMAL_FRACTIONAL \in Nat
      BY BoundsAssumption, DecimalAssumption DEF Init
    <2>2. \A u \in Stakers : PendingOf(reward)[u] = 0 /\ AccruingTo(reward, 0)[u] = 0
      BY <2>1 DEF NoInfo, PendingOf, AccruingTo
    <2>3. Sum(PendingOf(reward), Stakers) = 0 /\ Sum(AccruingTo(reward, 0), Stakers) = 0
      BY <2>2, StakersAreFinite, SumZero
    <2>. QED
      BY <2>1, <2>3, RewardsAccountedSum
  <1>2. IType /\ BondsHeld /\ RewardsAccounted /\ [Next]_vars => RewardsAccounted'
    BY NextAccounted
  <1>. QED
    BY <1>1, <1>2, AlwaysIType, BondsAreHeld, PTL DEF Spec

-----------------------------------------------------------------------------
(* What a staker is shown *)

\* What NewIndex comes to, as a function of the stored state and the time.
IndexAt(st, list, t) ==
    IF st.last_distributed < t /\ st.total_bond_amount > 0
    THEN st.global_reward_index
           + (ListSum(GainBy(st.last_distributed, t), list) * DECIMAL_FRACTIONAL)
                \div st.total_bond_amount
    ELSE st.global_reward_index

IndexKnown == RewardIsComputable => NewIndex = IndexAt(state, ds, now)

LEMMA IndexIs == ASSUME IType PROVE IndexKnown
  <1>1. CASE Distributing
    BY <1>1, NewlyDistributedIsGain DEF IndexKnown, IndexAt, NewIndex, FromRatio, Distributing
  <1>2. CASE ~Distributing
    BY <1>2 DEF IndexKnown, IndexAt, NewIndex, Distributing
  <1>. QED
    BY <1>1, <1>2

\* What a schedule gains grows with time.
LEMMA GainGrows ==
    ASSUME NEW from \in Nat, NEW t \in Nat, NEW u \in Nat, from <= t, t <= u,
           NEW s \in Schedule
    PROVE  /\ GainBy(from, t)[s] \in Nat /\ GainBy(from, u)[s] \in Nat
           /\ GainBy(from, t)[s] <= GainBy(from, u)[s]
  <1>1. GainBy(from, t)[s] \in Nat /\ GainBy(from, u)[s] \in Nat
    BY GainByType
  <1>2. CASE HasLength(s) /\ s.start_time <= t /\ s.end_time >= from
    <2>. DEFINE x == MinOf(s.end_time, t) - MaxOf(s.start_time, from)
                y == MinOf(s.end_time, u) - MaxOf(s.start_time, from)
    <2>1. x \in Nat /\ y \in Nat /\ x <= y
      BY <1>2 DEF MinOf, MaxOf, Schedule, HasLength
    <2>2. GainBy(from, t)[s] = Released(s, x)
      BY <1>2 DEF GainBy, Gain
    <2>3. GainBy(from, u)[s] = Released(s, y)
      BY <1>2 DEF GainBy, Gain, Schedule
    <2>. HIDE DEF x, y
    <2>. QED
      BY <1>1, <1>2, <2>1, <2>2, <2>3, ReleasedMonotone
  <1>3. CASE ~(HasLength(s) /\ s.start_time <= t /\ s.end_time >= from)
    <2>1. GainBy(from, t)[s] = 0
      BY <1>3 DEF GainBy, Gain
    <2>. QED
      BY <1>1, <2>1
  <1>. QED
    BY <1>2, <1>3

StoredState == [last_distributed: Nat, total_bond_amount: Nat, global_reward_index: Nat]

\* The index grows with what the schedules gain.
LEMMA IndexGrows ==
    ASSUME NEW st \in StoredState, NEW t \in Nat, NEW u \in Nat,
           st.last_distributed <= t, t <= u,
           NEW list \in Seq(Schedule), NEW longer \in Seq(Schedule),
           ListSum(GainBy(st.last_distributed, t), list)
             <= ListSum(GainBy(st.last_distributed, u), longer)
    PROVE  /\ IndexAt(st, list, t) \in Nat /\ IndexAt(st, longer, u) \in Nat
           /\ st.global_reward_index <= IndexAt(st, list, t)
           /\ IndexAt(st, list, t) <= IndexAt(st, longer, u)
  <1>. DEFINE last == st.last_distributed
              total == st.total_bond_amount
              i == st.global_reward_index
              F == DECIMAL_FRACTIONAL
              x == ListSum(GainBy(last, t), list)
              y == ListSum(GainBy(last, u), longer)
  <1>1. last \in Nat /\ total \in Nat /\ i \in Nat /\ F \in Nat /\ last <= u
    BY DecimalAssumption DEF StoredState
  <1>2. x \in Nat /\ y \in Nat /\ x <= y
    BY <1>1, ListGain
  <1>3. /\ IndexAt(st, list, t) = IF last < t /\ total > 0 THEN i + (x * F) \div total ELSE i
        /\ IndexAt(st, longer, u) = IF last < u /\ total > 0 THEN i + (y * F) \div total ELSE i
    BY DEF IndexAt
  <1>. HIDE DEF last, total, i, F, x, y
  <1>4. CASE total = 0
    BY <1>1, <1>3, <1>4 DEF i
  <1>5. CASE total > 0
    <2>1. x * F <= y * F /\ x * F \in Nat /\ y * F \in Nat
      BY <1>1, <1>2, MulMonotone, MulNat
    <2>2. /\ (x * F) \div total \in Nat /\ (y * F) \div total \in Nat
          /\ (x * F) \div total <= (y * F) \div total
      BY <1>1, <1>5, <2>1, DivFloor, FloorMonotone
    <2>3. last < t => last < u
      BY <1>1
    <2>4. /\ IndexAt(st, list, t) \in Nat /\ IndexAt(st, longer, u) \in Nat
          /\ i <= IndexAt(st, list, t) /\ IndexAt(st, list, t) <= IndexAt(st, longer, u)
      BY <1>1, <1>3, <1>5, <2>2, <2>3
    <2>. QED
      BY <2>4 DEF i
  <1>. QED
    BY <1>1, <1>4, <1>5

LEMMA IndexNeverFalls ==
    ASSUME IType, IndexKnown, IndexKnown', RewardIsComputable, RewardIsComputable', [Next]_vars
    PROVE  NewIndex \in Nat /\ NewIndex' \in Nat /\ NewIndex <= NewIndex'
  <1>. DEFINE last == state.last_distributed
  <1>1. /\ state \in StoredState /\ ds \in Seq(Schedule) /\ now \in Nat
        /\ last \in Nat /\ last <= now
    BY TypeFacts DEF IType, TypeOK, StoredState
  <1>2. NewIndex = IndexAt(state, ds, now) /\ NewIndex' = IndexAt(state', ds', now')
    BY DEF IndexKnown
  <1>3. NewIndex \in Nat
    BY ComputeReward
  <1>4. ASSUME state'.last_distributed = now, state'.global_reward_index = NewIndex, now' = now
        PROVE  NewIndex' = NewIndex
    BY <1>1, <1>2, <1>4 DEF IndexAt
  <1>5. ASSUME state' = state, ds' = ds, now' = now
        PROVE  NewIndex' = NewIndex
    BY <1>2, <1>5
  <1>6. ASSUME NEW u \in Stakers, NEW db \in Int, NEW out \in Nat, Settles(u, db, out)
        PROVE  NewIndex' = NewIndex
    <2>1. /\ state.total_bond_amount + db \in Nat /\ Computed(state.total_bond_amount + db)
          /\ now' = now
      BY <1>6 DEF Settles
    <2>2. state'.last_distributed = now /\ state'.global_reward_index = NewIndex
      BY <2>1, ComputedStep
    <2>. QED
      BY <1>4, <2>1, <2>2
  <1>7. ASSUME NEW sender \in Owners, MigrateStaking(sender)
        PROVE  NewIndex' = NewIndex
    <2>1. state.total_bond_amount \in Nat /\ Computed(state.total_bond_amount) /\ now' = now
      BY <1>7, TypeFacts DEF MigrateStaking
    <2>2. state'.last_distributed = now /\ state'.global_reward_index = NewIndex
      BY <2>1, ComputedStep
    <2>. QED
      BY <1>4, <2>1, <2>2
  <1>8. ASSUME NEW sender \in Owners, NEW list \in NewSchedules, AddSchedules(sender, list)
        PROVE  NewIndex' \in Nat /\ NewIndex <= NewIndex'
    <2>1. list \in Seq(Schedule)
      BY SchedulesAssumption
    <2>2. ds' = ds \o list /\ state' = state /\ now' = now
      BY <1>8 DEF AddSchedules, IType, TypeOK, ds
    <2>. DEFINE v == GainBy(last, now)
    <2>3. \A s \in Schedule : v[s] \in Nat
      BY <1>1, GainByType
    <2>. HIDE DEF v
    <2>4. ListSum(v, ds \o list) = ListSum(v, ds) + ListSum(v, list)
      BY <1>1, <2>1, <2>3, ListSumConcat
    <2>5. ListSum(v, ds) \in Nat /\ ListSum(v, list) \in Nat
      BY <1>1, <2>1, <2>3, ListSumNat
    <2>6. ListSum(v, ds) <= ListSum(v, ds \o list)
      BY <2>4, <2>5
    <2>7. ds \o list \in Seq(Schedule) /\ now <= now
      BY <1>1, <2>1
    <2>8. IndexAt(state, ds \o list, now) \in Nat
          /\ IndexAt(state, ds, now) <= IndexAt(state, ds \o list, now)
      BY <1>1, <2>6, <2>7, IndexGrows DEF v
    <2>. QED
      BY <1>2, <2>2, <2>8
  <1>9. ASSUME Tick
        PROVE  NewIndex' \in Nat /\ NewIndex <= NewIndex'
    <2>1. ds' = ds /\ state' = state /\ now' = now + 1
      BY <1>9 DEF Tick, ds
    <2>2. now + 1 \in Nat /\ now <= now + 1
      BY <1>1
    <2>. DEFINE v == GainBy(last, now)
                w == GainBy(last, now + 1)
    <2>3. \A s \in Schedule : v[s] \in Nat /\ w[s] \in Nat /\ v[s] <= w[s]
      BY <1>1, <2>2, GainGrows
    <2>. HIDE DEF v, w
    <2>4. ListSum(v, ds) <= ListSum(w, ds)
      BY <1>1, <2>3, ListSumMonotone
    <2>5. IndexAt(state, ds, now + 1) \in Nat
          /\ IndexAt(state, ds, now) <= IndexAt(state, ds, now + 1)
      BY <1>1, <2>2, <2>4, IndexGrows DEF v, w
    <2>. QED
      BY <1>2, <2>1, <2>5
  <1>10. ASSUME NEW sender \in Owners, NEW owner \in Owners, UpdateOwner(sender, owner)
         PROVE  NewIndex' = NewIndex
    <2>1. ds' = ds /\ state' = state /\ now' = now
      BY <1>10 DEF UpdateOwner, IType, TypeOK, ds
    <2>. QED
      BY <1>5, <2>1
  <1>11. ASSUME UNCHANGED <<config, state, now>>
         PROVE  NewIndex' = NewIndex
    BY <1>5, <1>11 DEF ds
  <1>. QED
    BY <1>3, <1>6, <1>7, <1>8, <1>9, <1>10, <1>11, StepKinds DEF TransferLp, vars

\* The reward of a bond grows with the index.
LEMMA RewardGrows ==
    ASSUME NEW info \in StakerInfo, NEW j \in Nat, NEW k \in Nat,
           info.reward_index <= j, j <= k
    PROVE  /\ RewardOf(info, j) \in Nat /\ RewardOf(info, k) \in Nat
           /\ RewardOf(info, j) <= RewardOf(info, k)
  <1>. DEFINE b == info.bond_amount
              i == info.reward_index
              F == DECIMAL_FRACTIONAL
              p == (b * i) \div F
              q == (b * j) \div F
              r == (b * k) \div F
  <1>1. b \in Nat /\ i \in Nat /\ F \in Nat \ {0} /\ i <= j
    BY DecimalAssumption DEF StakerInfo
  <1>2. RewardOf(info, j) = q - p /\ RewardOf(info, k) = r - p
    BY DEF RewardOf, TimesDecimal, MultiplyRatio
  <1>. HIDE DEF b, i, F
  <1>3. b * i \in Nat /\ b * j \in Nat /\ b * k \in Nat /\ b * i <= b * j /\ b * j <= b * k
    <2>1. i * b <= j * b /\ j * b <= k * b
      BY <1>1, MulMonotone
    <2>2. i * b = b * i /\ j * b = b * j /\ k * b = b * k
      BY <1>1
    <2>. QED
      BY <1>1, <2>1, <2>2, MulNat
  <1>4. p \in Nat /\ q \in Nat /\ r \in Nat /\ p <= q /\ q <= r
    BY <1>1, <1>3, DivFloor, FloorMonotone
  <1>. HIDE DEF p, q, r
  <1>. QED
    BY <1>2, <1>4

LEMMA NeverLostStep ==
    ASSUME IType, IndexKnown, IndexKnown', [Next]_vars
    PROVE  RewardsNeverLostStep
  <1>. SUFFICES ASSUME RewardIsComputable, RewardIsComputable', NEW u \in Stakers
                PROVE  Claimable(u) - Claimable(u)' <= (psi_balance - psi_balance') - (sent' - sent)
    BY DEF RewardsNeverLostStep
  <1>1. NewIndex \in Nat /\ NewIndex' \in Nat /\ NewIndex <= NewIndex'
    BY IndexNeverFalls
  <1>2. /\ Claimable(u) = PendingNow(u)
        /\ Claimable(u)' = reward'[u].pending_reward + RewardOf(reward'[u], NewIndex')
    BY DEF Claimable, QueryStakerInfo, Settle, PendingNow, RewardOf
  <1>3. /\ reward \in [Stakers -> StakerInfo] /\ reward[u] \in StakerInfo
        /\ reward[u].pending_reward \in Nat /\ reward[u].reward_index \in Nat
        /\ reward[u].reward_index <= NewIndex /\ PendingNow(u) \in Nat
    <2>1. reward[u].reward_index <= state.global_reward_index /\ state.global_reward_index <= NewIndex
      BY InfoFacts, ComputeReward
    <2>2. state.global_reward_index \in Nat
      BY TypeFacts
    <2>. QED
      BY <1>1, <2>1, <2>2, InfoFacts, SettleIs
  <1>4. /\ psi_balance \in Nat /\ sent \in Nat
    BY TypeFacts
  <1>5. ASSUME reward'[u] = reward[u]
        PROVE  Claimable(u)' \in Nat /\ Claimable(u) <= Claimable(u)'
    <2>1. /\ RewardOf(reward[u], NewIndex) \in Nat /\ RewardOf(reward[u], NewIndex') \in Nat
          /\ RewardOf(reward[u], NewIndex) <= RewardOf(reward[u], NewIndex')
      BY <1>1, <1>3, RewardGrows
    <2>2. Claimable(u)' = reward[u].pending_reward + RewardOf(reward[u], NewIndex')
      BY <1>2, <1>5
    <2>. QED
      BY <1>2, <1>3, <2>1, <2>2 DEF PendingNow
  <1>6. ASSUME NEW v \in Stakers, NEW db \in Int, NEW out \in Nat, Settles(v, db, out)
        PROVE  Claimable(u) - Claimable(u)' <= (psi_balance - psi_balance') - (sent' - sent)
    <2>1. PICK info : Booked(v, db, out, info)
      BY <1>6 DEF Settles
    <2>2. psi_balance' = psi_balance - out /\ sent' = sent
      BY <1>6 DEF Settles
    <2>3. reward' = [reward EXCEPT ![v] = info] /\ info \in StakerInfo
      BY <2>1 DEF Booked
    <2>4. (psi_balance - psi_balance') - (sent' - sent) = out
      BY <1>4, <2>2
    <2>5. CASE v # u
      <3>1. reward'[u] = reward[u]
        BY <1>3, <2>3, <2>5
      <3>. QED
        BY <1>2, <1>3, <1>5, <2>4, <3>1
    <2>6. CASE v = u
      <3>1. reward'[u] = info
        BY <1>3, <2>3, <2>6
      <3>2. info.pending_reward = PendingNow(u) - out /\ info.pending_reward \in Nat
        BY <2>1, <2>6 DEF Booked, StakerInfo
      <3>3. info.reward_index <= NewIndex
        BY <1>1, <2>1 DEF Booked, StakerInfo
      <3>4. info.reward_index \in Nat
        BY <2>3 DEF StakerInfo
      <3>5. RewardOf(info, NewIndex') \in Nat
        BY <1>1, <2>3, <3>3, RewardGrows
      <3>6. Claimable(u)' = info.pending_reward + RewardOf(info, NewIndex')
        BY <1>2, <3>1
      <3>. QED
        BY <1>2, <1>3, <2>4, <3>2, <3>5, <3>6
    <2>. QED
      BY <2>5, <2>6
  <1>7. ASSUME NEW sender \in Owners, MigrateStaking(sender)
        PROVE  Claimable(u) - Claimable(u)' <= (psi_balance - psi_balance') - (sent' - sent)
    <2>1. /\ psi_balance' = psi_balance - Remaining /\ sent' = sent + Remaining
          /\ reward' = reward /\ CutIsComputable
      BY <1>7 DEF MigrateStaking, CutIsComputable
    <2>2. Remaining \in Int
      <3>1. AmountIn(ds) \in Nat /\ AmountIn(Cut) \in Nat
        BY <2>1, TypeFacts, CutType, AmountInIsListSum
      <3>. QED
        BY <3>1 DEF Remaining, ds
    <2>3. (psi_balance - psi_balance') - (sent' - sent) = 0
      BY <1>4, <2>1, <2>2
    <2>4. reward'[u] = reward[u]
      BY <2>1
    <2>. QED
      BY <1>2, <1>3, <1>5, <2>3, <2>4
  <1>8. ASSUME UNCHANGED <<reward, psi_balance, sent>>
        PROVE  Claimable(u) - Claimable(u)' <= (psi_balance - psi_balance') - (sent' - sent)
    <2>1. reward'[u] = reward[u] /\ (psi_balance - psi_balance') - (sent' - sent) = 0
      BY <1>4, <1>8
    <2>. QED
      BY <1>2, <1>3, <1>5, <2>1
  <1>. QED
    BY <1>6, <1>7, <1>8, StepKinds
       DEF AddSchedules, UpdateOwner, TransferLp, Tick, vars, history

\* What a staker is shown shrinks only by what is paid out: whatever the staker,
\* the other stakers and the owner do, and however time passes, no reward that
\* could be computed before and after the step is lost.
THEOREM RewardsStay == Spec => RewardsNeverLost
  <1>1. IType => IndexKnown
    BY IndexIs
  <1>2. IType /\ IndexKnown /\ IndexKnown' /\ [Next]_vars => [RewardsNeverLostStep]_vars
    BY NeverLostStep
  <1>. QED
    BY <1>1, <1>2, AlwaysIType, PTL DEF Spec, RewardsNeverLost

=============================================================================

----------------------------- MODULE VestingProofs -----------------------------
(***************************************************************************)
(* Theorems about Vesting, for every set of accounts, every registration,  *)
(* every genesis time and every denominator of a Decimal.                  *)
(*                                                                         *)
(* Everything is shown per schedule first: what one claim pays for on top  *)
(* of what the earlier ones did.  The inductive invariant Kept says that   *)
(* the seconds paid for have vested by the last claim, and that an account *)
(* whose last claim still lies ahead (its genesis time does) has none.     *)
(***************************************************************************)
EXTENDS Vesting, CosmMathProofs

-----------------------------------------------------------------------------
(* One schedule *)

Span(s) == s.end_time - s.start_time

LEMMA AmountIs ==
    ASSUME NEW s \in VestingSchedule, Valid(s), NEW t \in Nat
    PROVE  /\ Span(s) \in Nat \ {0} /\ s.amount \in Nat
           /\ Amount(s, t) = Release(DECIMAL_FRACTIONAL, s.amount, Span(s), t)
           /\ Amount(s, t) \in Nat
  <1>1. Span(s) \in Nat \ {0} /\ s.amount \in Nat
    BY DEF VestingSchedule, Valid, Span
  <1>2. Amount(s, t) = Release(DECIMAL_FRACTIONAL, s.amount, Span(s), t)
    BY DEF Amount, Rate, Release, Span
  <1>3. Release(DECIMAL_FRACTIONAL, s.amount, Span(s), t) \in Nat
    BY <1>1, ReleaseType, DecimalAssumption
  <1>. QED
    BY <1>1, <1>2, <1>3

LEMMA AmountMonotone ==
    ASSUME NEW s \in VestingSchedule, Valid(s), NEW t \in Nat, NEW u \in Nat, t <= u
    PROVE  Amount(s, t) <= Amount(s, u)
  <1>1. /\ Span(s) \in Nat \ {0} /\ s.amount \in Nat
        /\ Amount(s, t) = Release(DECIMAL_FRACTIONAL, s.amount, Span(s), t)
        /\ Amount(s, u) = Release(DECIMAL_FRACTIONAL, s.amount, Span(s), u)
    BY AmountIs
  <1>. QED
    BY <1>1, ReleaseMonotone, DecimalAssumption

\* Paying twice never pays more than paying once for as many seconds.
LEMMA AmountInParts ==
    ASSUME NEW s \in VestingSchedule, Valid(s), NEW t \in Nat, NEW u \in Nat
    PROVE  Amount(s, t) + Amount(s, u) <= Amount(s, t + u)
  <1>1. /\ Span(s) \in Nat \ {0} /\ s.amount \in Nat
        /\ Amount(s, t) = Release(DECIMAL_FRACTIONAL, s.amount, Span(s), t)
        /\ Amount(s, u) = Release(DECIMAL_FRACTIONAL, s.amount, Span(s), u)
    BY AmountIs
  <1>2. Amount(s, t + u) = Release(DECIMAL_FRACTIONAL, s.amount, Span(s), t + u)
    BY t + u \in Nat, AmountIs
  <1>. QED
    BY <1>1, <1>2, ReleaseInParts, DecimalAssumption

Share(s, t) == MultiplyRatio(s.amount, t, s.end_time - s.start_time)

LEMMA AmountBound ==
    ASSUME NEW s \in VestingSchedule, Valid(s), NEW t \in Nat, NEW u \in Nat, t <= u
    PROVE  Share(s, u) \in Nat /\ Amount(s, t) <= Share(s, u)
  <1>. DEFINE a == s.amount
              len == Span(s)
  <1>1. /\ len \in Nat \ {0} /\ a \in Nat /\ Amount(s, u) \in Nat /\ Amount(s, t) \in Nat
        /\ Amount(s, u) = Release(DECIMAL_FRACTIONAL, a, len, u)
    BY AmountIs
  <1>2. Share(s, u) = MultiplyRatio(a, u, len)
    BY DEF Share, Span
  <1>. HIDE DEF a, len
  <1>3. Amount(s, u) <= MultiplyRatio(a, u, len)
    BY <1>1, ReleaseBound, DecimalAssumption
  <1>4. MultiplyRatio(a, u, len) \in Nat
    BY <1>1, MultiplyRatioType
  <1>5. Amount(s, t) <= Amount(s, u)
    BY AmountMonotone
  <1>. QED
    BY <1>1, <1>2, <1>3, <1>4, <1>5

LEMMA VestedType ==
    ASSUME NEW s \in VestingSchedule, Valid(s), NEW t \in Nat, NEW u \in Nat, t <= u
    PROVE  Vested(s, t) \in Nat /\ Vested(s, u) \in Nat /\ Vested(s, t) <= Vested(s, u)
  BY DEF Vested, VestingSchedule, Valid, MinOf, MaxOf

\* What of a schedule was paid for by the last claim.
PaidFor(s, last, r) ==
    /\ Valid(s)
    /\ r <= Vested(s, last)
    /\ last <= now \/ r = 0

Counts(s, last) == Due(s, last) => Elapsed(s, last) >= 0

\* A claim that can be computed pays for no second twice, and for none that has
\* not vested.
LEMMA ClaimOnce ==
    ASSUME NEW s \in VestingSchedule, NEW last \in Nat, NEW r \in Nat, now \in Nat,
           PaidFor(s, last, r), Counts(s, last)
    PROVE  PassedTime(s, last) \in Nat /\ r + PassedTime(s, last) <= Vested(s, now)
  BY DEF PassedTime, Counts, Due, Elapsed, CatchUp, Vested, PaidFor,
         VestingSchedule, Valid, MinOf, MaxOf

\* Once the cliff lies within the schedule, it misses none either.
LEMMA ClaimExactly ==
    ASSUME NEW s \in VestingSchedule, NEW last \in Nat, now \in Nat, Valid(s),
           Counts(s, last), s.cliff_end_time <= s.end_time, last <= now \/ last <= s.start_time
    PROVE  Vested(s, last) + PassedTime(s, last) = Vested(s, now)
  BY DEF PassedTime, Counts, Due, Elapsed, CatchUp, Vested,
         VestingSchedule, Valid, MinOf, MaxOf

\* After the last claim was in the past, every difference can be computed.
LEMMA CountsLater ==
    ASSUME NEW s \in VestingSchedule, NEW last \in Nat, now \in Nat, Valid(s), last <= now
    PROVE  Counts(s, last)
  BY DEF Counts, Due, Elapsed, VestingSchedule, Valid, MinOf, MaxOf

-----------------------------------------------------------------------------
(* Types *)

Info(a) == vesting_info[a]
Last(a) == vesting_info[a].last_claim_time

LEMMA TypeFacts ==
    ASSUME TypeOK, NEW a \in Registered
    PROVE  /\ a \in Accounts /\ Info(a) \in VestingInfo
           /\ Last(a) \in Nat /\ Schedules(a) \in Seq(VestingSchedule)
           /\ \A i \in DOMAIN Schedules(a) : Schedules(a)[i] \in VestingSchedule
           /\ genesis[a] \in Nat /\ paid[a] \in Nat
           /\ \A i \in DOMAIN Schedules(a) : released[a][i] \in Nat
           /\ released[a] \in [DOMAIN Schedules(a) -> Nat]
           /\ now \in Nat
  <1>1. Info(a) \in VestingInfo /\ a \in Accounts /\ genesis[a] \in Nat /\ paid[a] \in Nat
    BY DEF TypeOK, Info
  <1>2. Last(a) \in Nat /\ Schedules(a) \in Seq(VestingSchedule)
    BY <1>1 DEF VestingInfo, Info, Last, Schedules
  <1>3. \A i \in DOMAIN Schedules(a) : Schedules(a)[i] \in VestingSchedule
    BY <1>2
  <1>4. released[a] \in [DOMAIN Schedules(a) -> Nat]
    BY DEF TypeOK
  <1>. QED
    BY <1>1, <1>2, <1>3, <1>4 DEF TypeOK

\* The entry that stays is one of the account's.
LEMMA EntryOf ==
    ASSUME NEW list \in Seq(VestingAccount), NEW a \in Named(list)
    PROVE  LastEntry(list, a) \in DOMAIN list /\ list[LastEntry(list, a)].address = a
  <1>. DEFINE S == {k \in DOMAIN list : list[k].address = a}
  <1>1. S \in SUBSET Nat /\ S # {}
    BY DEF Named
  <1>2. IsFiniteSet(S)
    <2>1. IsFiniteSet(1..Len(list))
      BY FS_Interval
    <2>. QED
      BY <2>1, FS_Subset
  <1>3. \E m \in S : \A n \in S : n <= m
    <2>. HIDE DEF S
    <2>. QED
      BY <1>1, <1>2, FiniteMax
  <1>4. MaxOrZero(S) \in S
    BY <1>1, <1>3 DEF MaxOrZero
  <1>. QED
    BY <1>4 DEF LastEntry

\* What registering does to an account: it starts anew, or stays as it is.
Anew(a) ==
    \E given \in Seq(VestingSchedule) :
        /\ \A i \in DOMAIN given : Valid(given[i])
        /\ vesting_info'[a] = [last_claim_time |-> config.genesis_time, schedules |-> given]
        /\ genesis'[a] = config.genesis_time
        /\ released'[a] = [i \in DOMAIN given |-> 0]
        /\ paid'[a] = 0
Untouched(a) ==
    /\ a \in Registered
    /\ vesting_info'[a] = vesting_info[a]
    /\ genesis'[a] = genesis[a] /\ released'[a] = released[a] /\ paid'[a] = paid[a]

Registering ==
    /\ DOMAIN genesis' = DOMAIN vesting_info' /\ DOMAIN released' = DOMAIN vesting_info'
    /\ DOMAIN paid' = DOMAIN vesting_info'
    /\ DOMAIN vesting_info' \subseteq Accounts
    /\ vesting_info' = [a \in DOMAIN vesting_info' |-> vesting_info'[a]]
    /\ genesis' = [a \in DOMAIN genesis' |-> genesis'[a]]
    /\ paid' = [a \in DOMAIN paid' |-> paid'[a]]
    /\ \A a \in DOMAIN vesting_info' : Anew(a) \/ Untouched(a)
    /\ UNCHANGED <<config, psi_balance, now>>

LEMMA RegisterSets ==
    ASSUME TypeOK, NEW sender, NEW list \in Registrations, RegisterVestingAccounts(sender, list)
    PROVE  Registering
  <1>1. list \in Seq(VestingAccount)
    BY MessagesAssumption
  <1>. DEFINE schedules(a) == list[LastEntry(list, a)].schedules
              names == Named(list)
              infos == [a \in names |-> [last_claim_time |-> config.genesis_time,
                                         schedules |-> schedules(a)]]
              starts == [a \in names |-> config.genesis_time]
              seconds == [a \in names |-> [i \in DOMAIN schedules(a) |-> 0]]
              amounts == [a \in names |-> 0]
  <1>2. \A a \in names : LastEntry(list, a) \in DOMAIN list
    BY <1>1, EntryOf
  <1>3. \A a \in names : schedules(a) \in Seq(VestingSchedule)
    <2>1. SUFFICES ASSUME NEW a \in names PROVE schedules(a) \in Seq(VestingSchedule)
      OBVIOUS
    <2>. DEFINE k == LastEntry(list, a)
    <2>2. k \in DOMAIN list
      BY <1>2
    <2>. HIDE DEF k
    <2>3. list[k] \in VestingAccount
      BY <1>1, <2>2
    <2>4. list[k].schedules \in Seq(VestingSchedule)
      BY <2>3 DEF VestingAccount
    <2>. QED
      BY <2>4 DEF k
  <1>4. \A a \in names : \A i \in DOMAIN schedules(a) : Valid(schedules(a)[i])
    BY <1>2 DEF RegisterVestingAccounts
  <1>5. names \subseteq Accounts
    <2>1. SUFFICES ASSUME NEW k \in DOMAIN list PROVE list[k].address \in Accounts
      BY DEF Named
    <2>2. list[k] \in VestingAccount
      BY <1>1
    <2>. QED
      BY <2>2 DEF VestingAccount
  <1>6. /\ vesting_info' = Renewed(vesting_info, infos) /\ genesis' = Renewed(genesis, starts)
        /\ released' = Renewed(released, seconds) /\ paid' = Renewed(paid, amounts)
        /\ UNCHANGED <<config, psi_balance, now>>
    BY DEF RegisterVestingAccounts
  <1>7. /\ DOMAIN genesis = Registered /\ DOMAIN released = Registered
        /\ DOMAIN paid = Registered /\ Registered \subseteq Accounts
    BY DEF TypeOK
  <1>8. /\ DOMAIN infos = names /\ DOMAIN starts = names
        /\ DOMAIN seconds = names /\ DOMAIN amounts = names
    OBVIOUS
  <1>9. /\ DOMAIN vesting_info' = Registered \cup names /\ DOMAIN genesis' = Registered \cup names
        /\ DOMAIN released' = Registered \cup names /\ DOMAIN paid' = Registered \cup names
    BY <1>6, <1>7, <1>8 DEF Renewed, Registered
  <1>10. /\ vesting_info' = [a \in DOMAIN vesting_info' |-> vesting_info'[a]]
         /\ genesis' = [a \in DOMAIN genesis' |-> genesis'[a]]
         /\ paid' = [a \in DOMAIN paid' |-> paid'[a]]
    BY <1>6 DEF Renewed
  <1>11. ASSUME NEW a \in Registered \cup names
         PROVE  Anew(a) \/ Untouched(a)
    <2>1. CASE a \in names
      <3>1. /\ vesting_info'[a] = infos[a] /\ genesis'[a] = starts[a]
            /\ released'[a] = seconds[a] /\ paid'[a] = amounts[a]
        BY <1>6, <1>8, <2>1 DEF Renewed
      <3>2. /\ infos[a] = [last_claim_time |-> config.genesis_time, schedules |-> schedules(a)]
            /\ starts[a] = config.genesis_time /\ amounts[a] = 0
            /\ seconds[a] = [i \in DOMAIN schedules(a) |-> 0]
        BY <2>1
      <3>3. schedules(a) \in Seq(VestingSchedule) /\ \A i \in DOMAIN schedules(a) : Valid(schedules(a)[i])
        BY <1>3, <1>4, <2>1
      <3>. HIDE DEF infos, starts, seconds, amounts, schedules
      <3>. QED
        BY <3>1, <3>2, <3>3 DEF Anew
    <2>2. CASE a \notin names
      <3>1. a \in Registered
        BY <1>11, <2>2
      <3>2. /\ vesting_info'[a] = vesting_info[a] /\ genesis'[a] = genesis[a]
            /\ released'[a] = released[a] /\ paid'[a] = paid[a]
        BY <1>6, <1>7, <1>8, <2>2, <3>1 DEF Renewed, Registered
      <3>. QED
        BY <3>1, <3>2 DEF Untouched
    <2>. QED
      BY <2>1, <2>2
  <1>. HIDE DEF names
  <1>. QED
    BY <1>5, <1>6, <1>7, <1>9, <1>10, <1>11 DEF Registering

LEMMA RegisteringType == ASSUME TypeOK, Registering PROVE TypeOK'
  <1>. DEFINE D == DOMAIN vesting_info'
  <1>1. config' = config /\ config.genesis_time \in Nat /\ TypeOK
    BY DEF Registering, TypeOK, ConfigType
  <1>2. ASSUME NEW a \in D
        PROVE  /\ vesting_info'[a] \in VestingInfo /\ genesis'[a] \in Nat /\ paid'[a] \in Nat
               /\ released'[a] \in [DOMAIN vesting_info'[a].schedules -> Nat]
    <2>1. CASE Untouched(a)
      <3>1. /\ Info(a) \in VestingInfo /\ genesis[a] \in Nat /\ paid[a] \in Nat
            /\ released[a] \in [DOMAIN Schedules(a) -> Nat]
        BY <2>1, TypeFacts DEF Untouched
      <3>. QED
        BY <2>1, <3>1 DEF Untouched, Info, Schedules
    <2>2. CASE Anew(a)
      <3>1. PICK given \in Seq(VestingSchedule) :
               /\ vesting_info'[a] = [last_claim_time |-> config.genesis_time, schedules |-> given]
               /\ genesis'[a] = config.genesis_time
               /\ released'[a] = [i \in DOMAIN given |-> 0]
               /\ paid'[a] = 0
        BY <2>2 DEF Anew
      <3>2. vesting_info'[a] \in VestingInfo /\ vesting_info'[a].schedules = given
        BY <1>1, <3>1 DEF VestingInfo
      <3>3. released'[a] \in [DOMAIN given -> Nat]
        BY <3>1
      <3>. QED
        BY <1>1, <3>1, <3>2, <3>3
    <2>. QED
      BY <1>2, <2>1, <2>2 DEF Registering
  <1>3. vesting_info' \in [D -> VestingInfo] /\ genesis' \in [D -> Nat] /\ paid' \in [D -> Nat]
    BY <1>2 DEF Registering
  <1>4. /\ D \subseteq Accounts /\ DOMAIN released' = D
        /\ config' = config /\ psi_balance' = psi_balance /\ now' = now
    BY DEF Registering
  <1>5. \A a \in D : released'[a] \in [DOMAIN Schedules(a)' -> Nat]
    BY <1>2 DEF Schedules
  <1>6. Registered' = D
    BY DEF Registered
  <1>7. config \in ConfigType /\ psi_balance \in [Tokens -> Nat] /\ now \in Nat
    BY DEF TypeOK
  <1>. HIDE DEF D
  <1>. QED
    BY <1>3, <1>4, <1>5, <1>6, <1>7 DEF TypeOK

\* What a claim does to its account.
Claiming(a, amount) ==
    /\ a \in Registered
    /\ Computable(Info(a))
    /\ amount = QueryClaimable(a)
    /\ vesting_info' = [vesting_info EXCEPT ![a] = Claimed(Info(a))]
    /\ released' = [released EXCEPT
            ![a] = [i \in DOMAIN released[a] |->
                       released[a][i] + PassedTime(Schedules(a)[i], Last(a))]]
    /\ paid' = [paid EXCEPT ![a] = paid[a] + amount]
    /\ UNCHANGED <<config, now, genesis>>

Kept ==
    \A a \in Registered :
        /\ Last(a) <= now \/ Last(a) = genesis[a]
        /\ \A i \in DOMAIN Schedules(a) :
              PaidFor(Schedules(a)[i], Last(a), released[a][i])

IInv == TypeOK /\ Kept

\* A claim that is made pays a natural number of seconds for each schedule.
LEMMA ClaimTimes ==
    ASSUME IInv, NEW a \in Registered, Computable(Info(a)), NEW i \in DOMAIN Schedules(a)
    PROVE  /\ Valid(Schedules(a)[i]) /\ Schedules(a)[i] \in VestingSchedule
           /\ Counts(Schedules(a)[i], Last(a))
           /\ PassedTime(Schedules(a)[i], Last(a)) \in Nat
           /\ released[a][i] + PassedTime(Schedules(a)[i], Last(a)) <= Vested(Schedules(a)[i], now)
           /\ Amount(Schedules(a)[i], PassedTime(Schedules(a)[i], Last(a))) \in Nat
  <1>. DEFINE s == Schedules(a)[i]
              r == released[a][i]
  <1>1. s \in VestingSchedule /\ r \in Nat /\ Last(a) \in Nat /\ now \in Nat
    BY TypeFacts DEF IInv
  <1>2. PaidFor(s, Last(a), r)
    BY DEF IInv, Kept
  <1>3. Counts(s, Last(a))
    BY DEF Counts, Computable, Info, Schedules, Last
  <1>. HIDE DEF s, r
  <1>4. PassedTime(s, Last(a)) \in Nat /\ r + PassedTime(s, Last(a)) <= Vested(s, now)
    BY <1>1, <1>2, <1>3, ClaimOnce
  <1>5. Valid(s) /\ Amount(s, PassedTime(s, Last(a))) \in Nat
    BY <1>1, <1>2, <1>4, AmountIs DEF PaidFor
  <1>. QED
    BY <1>1, <1>3, <1>4, <1>5 DEF s, r

ClaimTerms(a) == [i \in DOMAIN Schedules(a) |->
                     Amount(Schedules(a)[i], PassedTime(Schedules(a)[i], Last(a)))]

LEMMA ClaimableIsSum ==
    ASSUME IInv, NEW a \in Registered, Computable(Info(a))
    PROVE  /\ IsFiniteSet(DOMAIN Schedules(a))
           /\ QueryClaimable(a) = Sum(ClaimTerms(a), DOMAIN Schedules(a))
           /\ \A i \in DOMAIN Schedules(a) : ClaimTerms(a)[i] \in Nat
           /\ QueryClaimable(a) \in Nat
  <1>1. IsFiniteSet(DOMAIN Schedules(a))
    <2>1. Schedules(a) \in Seq(VestingSchedule)
      BY TypeFacts DEF IInv
    <2>2. DOMAIN Schedules(a) = 1..Len(Schedules(a)) /\ Len(Schedules(a)) \in Nat
      BY <2>1
    <2>. QED
      BY <2>2, FS_Interval
  <1>2. QueryClaimable(a) = Sum(ClaimTerms(a), DOMAIN Schedules(a))
    BY SumFunctionIsSum DEF QueryClaimable, ClaimAmount, ClaimTerms, Schedules, Last
  <1>3. \A i \in DOMAIN Schedules(a) : ClaimTerms(a)[i] \in Nat
    BY ClaimTimes DEF ClaimTerms
  <1>4. Sum(ClaimTerms(a), DOMAIN Schedules(a)) \in Nat
    BY <1>1, <1>3, SumNat
  <1>. QED
    BY <1>1, <1>2, <1>3, <1>4

LEMMA ClaimClaims ==
    ASSUME IInv, NEW a \in Accounts, Claim(a)
    PROVE  /\ Claiming(a, QueryClaimable(a)) /\ QueryClaimable(a) \in Nat
           /\ psi_balance' \in [Tokens -> Nat]
  <1>1. Claiming(a, QueryClaimable(a))
    BY DEF Claim, Claiming, Info, Schedules, Last
  <1>2. QueryClaimable(a) \in Nat
    BY <1>1, ClaimableIsSum DEF Claiming
  <1>3. /\ psi_balance \in [Tokens -> Nat] /\ config.psi_token \in Tokens
        /\ QueryClaimable(a) <= psi_balance[config.psi_token]
        /\ psi_balance' = [psi_balance EXCEPT ![config.psi_token] = @ - QueryClaimable(a)]
    BY DEF Claim, IInv, TypeOK, ConfigType
  <1>4. psi_balance[config.psi_token] - QueryClaimable(a) \in Nat
    BY <1>2, <1>3
  <1>. QED
    BY <1>1, <1>2, <1>3, <1>4

LEMMA ClaimedIs ==
    ASSUME IInv, NEW a \in Registered, NEW amount \in Nat, Claiming(a, amount)
    PROVE  /\ DOMAIN vesting_info' = Registered
           /\ vesting_info'[a] = [last_claim_time |-> now, schedules |-> Schedules(a)]
           /\ released'[a] = [i \in DOMAIN Schedules(a) |->
                                 released[a][i] + PassedTime(Schedules(a)[i], Last(a))]
           /\ paid'[a] = paid[a] + amount
           /\ \A b \in Registered \ {a} : /\ vesting_info'[b] = vesting_info[b]
                                          /\ released'[b] = released[b] /\ paid'[b] = paid[b]
           /\ now' = now /\ genesis' = genesis
  <1>1. /\ DOMAIN released = Registered /\ DOMAIN paid = Registered
        /\ Info(a) \in VestingInfo /\ DOMAIN released[a] = DOMAIN Schedules(a)
    BY TypeFacts DEF IInv, TypeOK
  <1>2. Claimed(Info(a)) = [last_claim_time |-> now, schedules |-> Schedules(a)]
    BY <1>1 DEF Claimed, VestingInfo, Info, Schedules
  <1>. QED
    BY <1>1, <1>2 DEF Claiming, Registered

LEMMA ClaimingType ==
    ASSUME IInv, NEW a \in Registered, NEW amount \in Nat, Claiming(a, amount),
           psi_balance' \in [Tokens -> Nat]
    PROVE  TypeOK'
  <1>1. /\ DOMAIN vesting_info' = Registered
        /\ vesting_info'[a] = [last_claim_time |-> now, schedules |-> Schedules(a)]
        /\ released'[a] = [i \in DOMAIN Schedules(a) |->
                              released[a][i] + PassedTime(Schedules(a)[i], Last(a))]
        /\ paid'[a] = paid[a] + amount
        /\ \A b \in Registered \ {a} : /\ vesting_info'[b] = vesting_info[b]
                                       /\ released'[b] = released[b] /\ paid'[b] = paid[b]
        /\ now' = now /\ genesis' = genesis
    BY ClaimedIs
  <1>2. /\ Schedules(a) \in Seq(VestingSchedule) /\ now \in Nat /\ paid[a] \in Nat
    BY TypeFacts DEF IInv
  <1>3. vesting_info'[a] \in VestingInfo /\ paid'[a] \in Nat
    BY <1>1, <1>2 DEF VestingInfo
  <1>4. released'[a] \in [DOMAIN Schedules(a) -> Nat]
    <2>1. ASSUME NEW i \in DOMAIN Schedules(a)
          PROVE  released[a][i] + PassedTime(Schedules(a)[i], Last(a)) \in Nat
      <3>1. released[a][i] \in Nat
        BY TypeFacts DEF IInv
      <3>2. PassedTime(Schedules(a)[i], Last(a)) \in Nat
        BY ClaimTimes DEF Claiming
      <3>. QED
        BY <3>1, <3>2
    <2>. QED
      BY <1>1, <2>1
  <1>5. ASSUME NEW b \in Registered
        PROVE  /\ vesting_info'[b] \in VestingInfo /\ paid'[b] \in Nat
               /\ released'[b] \in [DOMAIN vesting_info'[b].schedules -> Nat]
    <2>1. CASE b = a
      BY <1>1, <1>3, <1>4, <2>1
    <2>2. CASE b # a
      BY <1>1, <2>2, TypeFacts DEF IInv, Info, Schedules
    <2>. QED
      BY <2>1, <2>2
  <1>6. /\ vesting_info' \in [Registered -> VestingInfo] /\ paid' \in [Registered -> Nat]
        /\ DOMAIN released' = Registered /\ genesis' \in [Registered -> Nat]
    <2>1. /\ vesting_info \in [Registered -> VestingInfo] /\ paid \in [Registered -> Nat]
          /\ DOMAIN released = Registered /\ genesis \in [Registered -> Nat]
      BY DEF IInv, TypeOK
    <2>2. /\ \E info : vesting_info' = [vesting_info EXCEPT ![a] = info]
          /\ \E p : paid' = [paid EXCEPT ![a] = p]
          /\ \E r : released' = [released EXCEPT ![a] = r]
      BY DEF Claiming
    <2>. QED
      BY <1>1, <1>5, <2>1, <2>2
  <1>7. Registered' = Registered
    BY <1>1 DEF Registered
  <1>8. \A b \in Registered : released'[b] \in [DOMAIN Schedules(b)' -> Nat]
    BY <1>5 DEF Schedules
  <1>9. config' \in ConfigType /\ now' \in Nat /\ Registered \subseteq Accounts
    BY <1>1 DEF Claiming, IInv, TypeOK
  <1>. QED
    BY <1>6, <1>7, <1>8, <1>9 DEF TypeOK

LEMMA InitInv == ASSUME Init PROVE IInv
  <1>1. /\ vesting_info = <<>> /\ genesis = <<>> /\ released = <<>> /\ paid = <<>>
        /\ psi_balance = [t \in Tokens |-> Funds] /\ now = 0 /\ config \in ConfigType
    BY MessagesAssumption DEF Init
  <1>2. Registered = {} /\ \A S : <<>> \in [{} -> S]
    BY <1>1 DEF Registered
  <1>. QED
    BY <1>1, <1>2, BoundsAssumption DEF IInv, TypeOK, Kept

\* What one step does, to the accounts or around them.
LEMMA StepKinds ==
    ASSUME IInv, [Next]_vars
    PROVE  \/ Registering
           \/ \E a \in Registered : Claim(a) /\ Claiming(a, QueryClaimable(a))
           \/ Tick
           \/ \E sender \in Owners, update \in Updates : UpdateConfig(sender, update)
           \/ UNCHANGED vars
  <1>1. ASSUME NEW a \in Accounts, Claim(a)
        PROVE  a \in Registered /\ Claiming(a, QueryClaimable(a))
    BY <1>1, ClaimClaims DEF Claiming
  <1>2. ASSUME NEW sender \in Owners, NEW list \in Registrations,
               RegisterVestingAccounts(sender, list)
        PROVE  Registering
    BY <1>2, RegisterSets DEF IInv
  <1>. QED
    BY <1>1, <1>2 DEF Next

LEMMA NextType == ASSUME IInv, [Next]_vars PROVE TypeOK'
  <1>1. CASE Registering
    BY <1>1, RegisteringType DEF IInv
  <1>2. ASSUME NEW a \in Registered, Claim(a), Claiming(a, QueryClaimable(a))
        PROVE  TypeOK'
    <2>1. a \in Accounts
      BY DEF IInv, TypeOK
    <2>2. QueryClaimable(a) \in Nat /\ psi_balance' \in [Tokens -> Nat]
      BY <1>2, <2>1, ClaimClaims
    <2>. QED
      BY <1>2, <2>2, ClaimingType
  <1>3. ASSUME config' \in ConfigType, now' \in Nat,
               UNCHANGED <<vesting_info, psi_balance, genesis, released, paid>>
        PROVE  TypeOK'
    BY <1>3 DEF IInv, TypeOK, Registered, Schedules
  <1>4. CASE Tick
    BY <1>3, <1>4 DEF Tick, IInv, TypeOK
  <1>5. ASSUME NEW sender \in Owners, NEW update \in Updates, UpdateConfig(sender, update)
        PROVE  TypeOK'
    <2>1. config \in ConfigType /\ update \in UpdateType
      BY MessagesAssumption DEF IInv, TypeOK
    <2>2. /\ OrElse(update.owner, config.owner) \in Owners
          /\ OrElse(update.psi_token, config.psi_token) \in Tokens
          /\ OrElse(update.genesis_time, config.genesis_time) \in Nat
      BY <2>1 DEF OrElse, ConfigType, UpdateType
    <2>3. config' \in ConfigType
      BY <1>5, <2>2 DEF UpdateConfig, ConfigType
    <2>4. now \in Nat
      BY DEF IInv, TypeOK
    <2>. QED
      BY <1>3, <1>5, <2>3, <2>4 DEF UpdateConfig
  <1>6. CASE UNCHANGED vars
    BY <1>3, <1>6 DEF vars, IInv, TypeOK
  <1>. QED
    BY <1>1, <1>2, <1>4, <1>5, <1>6, StepKinds

LEMMA NextKept == ASSUME IInv, [Next]_vars PROVE Kept'
  <1>. DEFINE KeptAt(info, start, secs, t) ==
                 /\ info.last_claim_time <= t \/ info.last_claim_time = start
                 /\ \A i \in DOMAIN info.schedules :
                       /\ Valid(info.schedules[i])
                       /\ secs[i] <= Vested(info.schedules[i], info.last_claim_time)
                       /\ info.last_claim_time <= t \/ secs[i] = 0
  <1>1. \A a \in Registered : KeptAt(vesting_info[a], genesis[a], released[a], now)
    BY DEF IInv, Kept, PaidFor, Last, Schedules
  <1>2. ASSUME \A a \in DOMAIN vesting_info' :
                  KeptAt(vesting_info'[a], genesis'[a], released'[a], now')
        PROVE  Kept'
    BY <1>2 DEF Kept, PaidFor, Last, Schedules, Registered, Valid, Vested, MinOf, MaxOf
  <1>3. CASE Registering
    <2>1. SUFFICES ASSUME NEW a \in DOMAIN vesting_info'
                   PROVE  KeptAt(vesting_info'[a], genesis'[a], released'[a], now')
      BY <1>2
    <2>2. CASE Untouched(a)
      BY <1>1, <1>3, <2>2 DEF Untouched, Registering
    <2>3. CASE Anew(a)
      <3>1. PICK given \in Seq(VestingSchedule) :
               /\ \A i \in DOMAIN given : Valid(given[i])
               /\ vesting_info'[a] = [last_claim_time |-> config.genesis_time, schedules |-> given]
               /\ genesis'[a] = config.genesis_time
               /\ released'[a] = [i \in DOMAIN given |-> 0]
        BY <2>3 DEF Anew
      <3>2. config.genesis_time \in Nat
        BY DEF IInv, TypeOK, ConfigType
      <3>3. \A i \in DOMAIN given : Valid(given[i]) /\ 0 <= Vested(given[i], config.genesis_time)
        <4>1. SUFFICES ASSUME NEW i \in DOMAIN given
                       PROVE  0 <= Vested(given[i], config.genesis_time)
          BY <3>1
        <4>2. given[i] \in VestingSchedule /\ Valid(given[i])
          BY <3>1
        <4>. QED
          BY <3>2, <4>2, VestedType, SMTT(30)
      <3>. QED
        BY <3>1, <3>3
    <2>. QED
      BY <1>3, <2>2, <2>3 DEF Registering
  <1>4. ASSUME NEW a \in Registered, Claim(a), Claiming(a, QueryClaimable(a))
        PROVE  Kept'
    <2>1. a \in Accounts /\ QueryClaimable(a) \in Nat /\ now \in Nat
      BY <1>4, ClaimClaims DEF IInv, TypeOK
    <2>2. /\ DOMAIN vesting_info' = Registered
          /\ vesting_info'[a] = [last_claim_time |-> now, schedules |-> Schedules(a)]
          /\ released'[a] = [i \in DOMAIN Schedules(a) |->
                                released[a][i] + PassedTime(Schedules(a)[i], Last(a))]
          /\ \A b \in Registered \ {a} : /\ vesting_info'[b] = vesting_info[b]
                                         /\ released'[b] = released[b]
          /\ now' = now /\ genesis' = genesis
      BY <1>4, <2>1, ClaimedIs
    <2>3. \A i \in DOMAIN Schedules(a) :
             /\ Valid(Schedules(a)[i])
             /\ released[a][i] + PassedTime(Schedules(a)[i], Last(a)) <= Vested(Schedules(a)[i], now)
      BY <1>4, ClaimTimes DEF Claiming
    <2>4. KeptAt(vesting_info'[a], genesis'[a], released'[a], now')
      BY <2>1, <2>2, <2>3
    <2>5. \A b \in Registered \ {a} : KeptAt(vesting_info'[b], genesis'[b], released'[b], now')
      BY <1>1, <2>2
    <2>. QED
      BY <1>2, <2>2, <2>4, <2>5
  <1>5. ASSUME UNCHANGED <<vesting_info, genesis, released>>, now' \in Nat, now <= now'
        PROVE  Kept'
    <2>1. SUFFICES ASSUME NEW a \in Registered
                   PROVE  KeptAt(vesting_info[a], genesis[a], released[a], now')
      BY <1>2, <1>5 DEF Registered
    <2>2. vesting_info[a].last_claim_time \in Nat /\ now \in Nat
      BY TypeFacts DEF IInv, Last
    <2>. QED
      BY <1>1, <1>5, <2>2
  <1>6. now \in Nat
    BY DEF IInv, TypeOK
  <1>. HIDE DEF KeptAt
  <1>. QED
    BY <1>3, <1>4, <1>5, <1>6, StepKinds DEF Tick, UpdateConfig, vars

LEMMA AlwaysInv == Spec => []IInv
  <1>1. Init => IInv
    BY InitInv
  <1>2. IInv /\ [Next]_vars => IInv'
    BY NextType, NextKept DEF IInv
  <1>. QED
    BY <1>1, <1>2, PTL DEF Spec

\* Every variable keeps its type, whatever is registered and claimed.
THEOREM TypeCorrect == Spec => []TypeOK
  BY AlwaysInv, PTL DEF IInv

-----------------------------------------------------------------------------
(* What claims pay for *)

LEMMA NextExactly == ASSUME IInv, ReleasedExactly, [Next]_vars PROVE ReleasedExactly'
  <1>. DEFINE Exactly(info, start, secs) ==
                 \A i \in DOMAIN info.schedules :
                    LET s == info.schedules[i]
                    IN  start <= s.start_time /\ s.cliff_end_time <= s.end_time =>
                            secs[i] = Vested(s, info.last_claim_time)
  <1>1. \A a \in Registered : Exactly(vesting_info[a], genesis[a], released[a])
    BY DEF ReleasedExactly, Schedules
  <1>2. ASSUME \A a \in DOMAIN vesting_info' :
                  Exactly(vesting_info'[a], genesis'[a], released'[a])
        PROVE  ReleasedExactly'
    BY <1>2 DEF ReleasedExactly, Schedules, Registered, Vested, MinOf, MaxOf
  <1>3. CASE Registering
    <2>1. SUFFICES ASSUME NEW a \in DOMAIN vesting_info'
                   PROVE  Exactly(vesting_info'[a], genesis'[a], released'[a])
      BY <1>2
    <2>2. CASE Untouched(a)
      BY <1>1, <2>2 DEF Untouched
    <2>3. CASE Anew(a)
      <3>1. PICK given \in Seq(VestingSchedule) :
               /\ \A i \in DOMAIN given : Valid(given[i])
               /\ vesting_info'[a] = [last_claim_time |-> config.genesis_time, schedules |-> given]
               /\ genesis'[a] = config.genesis_time
               /\ released'[a] = [i \in DOMAIN given |-> 0]
        BY <2>3 DEF Anew
      <3>2. config.genesis_time \in Nat
        BY DEF IInv, TypeOK, ConfigType
      <3>3. ASSUME NEW i \in DOMAIN given, config.genesis_time <= given[i].start_time
            PROVE  Vested(given[i], config.genesis_time) = 0
        <4>1. given[i] \in VestingSchedule /\ Valid(given[i])
          BY <3>1
        <4>. QED
          BY <3>2, <3>3, <4>1, SMTT(30) DEF Vested, VestingSchedule, Valid, MinOf, MaxOf
      <3>. QED
        BY <3>1, <3>3
    <2>. QED
      BY <1>3, <2>2, <2>3 DEF Registering
  <1>4. ASSUME NEW a \in Registered, Claim(a), Claiming(a, QueryClaimable(a))
        PROVE  ReleasedExactly'
    <2>1. a \in Accounts /\ QueryClaimable(a) \in Nat /\ now \in Nat
      BY <1>4, ClaimClaims DEF IInv, TypeOK
    <2>2. /\ DOMAIN vesting_info' = Registered
          /\ vesting_info'[a] = [last_claim_time |-> now, schedules |-> Schedules(a)]
          /\ released'[a] = [i \in DOMAIN Schedules(a) |->
                                released[a][i] + PassedTime(Schedules(a)[i], Last(a))]
          /\ \A b \in Registered \ {a} : /\ vesting_info'[b] = vesting_info[b]
                                         /\ released'[b] = released[b]
          /\ genesis' = genesis
      BY <1>4, <2>1, ClaimedIs
    <2>3. ASSUME NEW i \in DOMAIN Schedules(a),
                 genesis[a] <= Schedules(a)[i].start_time,
                 Schedules(a)[i].cliff_end_time <= Schedules(a)[i].end_time
          PROVE  released[a][i] + PassedTime(Schedules(a)[i], Last(a)) = Vested(Schedules(a)[i], now)
      <3>. DEFINE s == Schedules(a)[i]
      <3>1. released[a][i] = Vested(s, Last(a))
        BY <2>3 DEF ReleasedExactly, Last
      <3>2. s \in VestingSchedule /\ Valid(s) /\ Counts(s, Last(a)) /\ Last(a) \in Nat
        BY <1>4, ClaimTimes, TypeFacts DEF Claiming, IInv
      <3>3. Last(a) <= now \/ Last(a) <= s.start_time
        BY <2>3 DEF IInv, Kept
      <3>. HIDE DEF s
      <3>4. Vested(s, Last(a)) + PassedTime(s, Last(a)) = Vested(s, now)
        BY <2>1, <2>3, <3>2, <3>3, ClaimExactly DEF s
      <3>. QED
        BY <3>1, <3>4 DEF s
    <2>4. Exactly(vesting_info'[a], genesis'[a], released'[a])
      BY <2>2, <2>3
    <2>5. \A b \in Registered \ {a} : Exactly(vesting_info'[b], genesis'[b], released'[b])
      BY <1>1, <2>2
    <2>. QED
      BY <1>2, <2>2, <2>4, <2>5
  <1>5. ASSUME UNCHANGED <<vesting_info, genesis, released>>
        PROVE  ReleasedExactly'
    BY <1>1, <1>2, <1>5 DEF Registered
  <1>. HIDE DEF Exactly
  <1>. QED
    BY <1>3, <1>4, <1>5, StepKinds DEF Tick, UpdateConfig, vars

\* However the claims of an account are spread, they have paid for each second
\* of a schedule up to the last claim exactly once, if the genesis time is no
\* later than its start and its cliff no later than its end.
THEOREM ClaimsReleaseExactly == Spec => []ReleasedExactly
  <1>1. Init => ReleasedExactly
    BY DEF Init, ReleasedExactly, Registered
  <1>2. IInv /\ ReleasedExactly /\ [Next]_vars => ReleasedExactly'
    BY NextExactly
  <1>. QED
    BY <1>1, <1>2, AlwaysInv, PTL DEF Spec

-----------------------------------------------------------------------------
(* What claims pay *)

\* What the seconds paid for come to when paid at once.
AtOnce(secs, list) == [i \in DOMAIN list |-> Amount(list[i], secs[i])]

PaidInParts ==
    \A a \in Registered :
        paid[a] <= Sum(AtOnce(released[a], Schedules(a)), DOMAIN Schedules(a))

LEMMA AtOnceType ==
    ASSUME IInv, NEW a \in Registered
    PROVE  /\ IsFiniteSet(DOMAIN Schedules(a))
           /\ \A i \in DOMAIN Schedules(a) : AtOnce(released[a], Schedules(a))[i] \in Nat
           /\ Sum(AtOnce(released[a], Schedules(a)), DOMAIN Schedules(a)) \in Nat
  <1>1. IsFiniteSet(DOMAIN Schedules(a))
    <2>1. Schedules(a) \in Seq(VestingSchedule)
      BY TypeFacts DEF IInv
    <2>2. DOMAIN Schedules(a) = 1..Len(Schedules(a)) /\ Len(Schedules(a)) \in Nat
      BY <2>1
    <2>. QED
      BY <2>2, FS_Interval
  <1>2. \A i \in DOMAIN Schedules(a) : AtOnce(released[a], Schedules(a))[i] \in Nat
    <2>1. SUFFICES ASSUME NEW i \in DOMAIN Schedules(a)
                   PROVE  Amount(Schedules(a)[i], released[a][i]) \in Nat
      BY DEF AtOnce
    <2>2. Schedules(a)[i] \in VestingSchedule /\ released[a][i] \in Nat
      BY TypeFacts DEF IInv
    <2>3. Valid(Schedules(a)[i])
      BY DEF IInv, Kept, PaidFor
    <2>. QED
      BY <2>2, <2>3, AmountIs
  <1>3. Sum(AtOnce(released[a], Schedules(a)), DOMAIN Schedules(a)) \in Nat
    BY <1>1, <1>2, SumNat
  <1>. QED
    BY <1>1, <1>2, <1>3

LEMMA NextInParts == ASSUME IInv, PaidInParts, [Next]_vars PROVE PaidInParts'
  <1>. DEFINE InParts(info, secs, sum) ==
                 sum <= Sum(AtOnce(secs, info.schedules), DOMAIN info.schedules)
  <1>1. \A a \in Registered : InParts(vesting_info[a], released[a], paid[a])
    BY DEF PaidInParts, Schedules
  <1>2. ASSUME \A a \in DOMAIN vesting_info' : InParts(vesting_info'[a], released'[a], paid'[a])
        PROVE  PaidInParts'
    BY <1>2 DEF PaidInParts, Schedules, Registered, AtOnce, Amount, TimesDecimal,
                MultiplyRatio, Rate, FromRatio
  <1>3. CASE Registering
    <2>1. SUFFICES ASSUME NEW a \in DOMAIN vesting_info'
                   PROVE  InParts(vesting_info'[a], released'[a], paid'[a])
      BY <1>2
    <2>2. CASE Untouched(a)
      BY <1>1, <2>2 DEF Untouched
    <2>3. CASE Anew(a)
      <3>1. PICK given \in Seq(VestingSchedule) :
               /\ \A i \in DOMAIN given : Valid(given[i])
               /\ vesting_info'[a] = [last_claim_time |-> config.genesis_time, schedules |-> given]
               /\ released'[a] = [i \in DOMAIN given |-> 0]
               /\ paid'[a] = 0
        BY <2>3 DEF Anew
      <3>. DEFINE g == AtOnce(released'[a], given)
      <3>2. \A i \in DOMAIN given : g[i] \in Nat
        <4>1. SUFFICES ASSUME NEW i \in DOMAIN given PROVE Amount(given[i], 0) \in Nat
          BY <3>1 DEF AtOnce
        <4>2. given[i] \in VestingSchedule /\ Valid(given[i])
          BY <3>1
        <4>. QED
          BY <4>2, AmountIs
      <3>3. IsFiniteSet(DOMAIN given)
        BY FS_Interval
      <3>. HIDE DEF g
      <3>4. Sum(g, DOMAIN given) \in Nat
        BY <3>2, <3>3, SumNat
      <3>5. vesting_info'[a].schedules = given
        BY <3>1
      <3>. QED
        BY <3>1, <3>4, <3>5 DEF g
    <2>. QED
      BY <1>3, <2>2, <2>3 DEF Registering
  <1>4. ASSUME NEW a \in Registered, Claim(a), Claiming(a, QueryClaimable(a))
        PROVE  PaidInParts'
    <2>. DEFINE D == DOMAIN Schedules(a)
                f == AtOnce(released[a], Schedules(a))
                c == ClaimTerms(a)
                h == AtOnce(released'[a], Schedules(a))
                z == [i \in D |-> f[i] + c[i]]
    <2>1. a \in Accounts /\ QueryClaimable(a) \in Nat
      BY <1>4, ClaimClaims DEF IInv, TypeOK
    <2>2. /\ DOMAIN vesting_info' = Registered
          /\ vesting_info'[a] = [last_claim_time |-> now, schedules |-> Schedules(a)]
          /\ released'[a] = [i \in DOMAIN Schedules(a) |->
                                released[a][i] + PassedTime(Schedules(a)[i], Last(a))]
          /\ paid'[a] = paid[a] + QueryClaimable(a)
          /\ \A b \in Registered \ {a} : /\ vesting_info'[b] = vesting_info[b]
                                         /\ released'[b] = released[b] /\ paid'[b] = paid[b]
      BY <1>4, <2>1, ClaimedIs
    <2>3. \A i \in D : /\ f[i] \in Nat /\ c[i] \in Nat /\ h[i] \in Nat
                       /\ z[i] = f[i] + c[i] /\ z[i] <= h[i]
      <3>1. SUFFICES ASSUME NEW i \in D
                     PROVE  f[i] \in Nat /\ c[i] \in Nat /\ h[i] \in Nat /\ f[i] + c[i] <= h[i]
        OBVIOUS
      <3>. DEFINE s == Schedules(a)[i]
                  r == released[a][i]
                  t == PassedTime(s, Last(a))
      <3>2. s \in VestingSchedule /\ Valid(s) /\ t \in Nat /\ r \in Nat
        BY <1>4, ClaimTimes, TypeFacts DEF Claiming, IInv
      <3>3. f[i] = Amount(s, r) /\ c[i] = Amount(s, t) /\ h[i] = Amount(s, r + t)
        BY <2>2 DEF AtOnce, ClaimTerms
      <3>. HIDE DEF s, r, t
      <3>4. r + t \in Nat
        BY <3>2
      <3>5. Amount(s, r) \in Nat /\ Amount(s, t) \in Nat /\ Amount(s, r + t) \in Nat
        BY <3>2, <3>4, AmountIs
      <3>. HIDE DEF f, c, h
      <3>. QED
        BY <3>2, <3>3, <3>5, AmountInParts
    <2>4. /\ IsFiniteSet(D) /\ QueryClaimable(a) = Sum(c, D) /\ paid[a] <= Sum(f, D)
          /\ paid[a] \in Nat
      BY <1>4, ClaimableIsSum, TypeFacts DEF Claiming, PaidInParts, IInv
    <2>. HIDE DEF D, f, c, h, z
    <2>5. \A i \in D : /\ f[i] \in Int /\ c[i] \in Int /\ z[i] = f[i] + c[i]
                       /\ z[i] \in Int /\ h[i] \in Int /\ z[i] <= h[i]
      BY <2>3
    <2>6. Sum(z, D) = Sum(f, D) + Sum(c, D) /\ Sum(z, D) <= Sum(h, D)
      BY <2>4, <2>5, SumPlus, SumMonotone
    <2>7. Sum(f, D) \in Int /\ Sum(c, D) \in Int /\ Sum(h, D) \in Int
      BY <2>4, <2>5, SumInt
    <2>8. paid'[a] <= Sum(h, D)
      BY <2>2, <2>4, <2>6, <2>7
    <2>9. InParts(vesting_info'[a], released'[a], paid'[a])
      BY <2>2, <2>8 DEF h, D
    <2>10. \A b \in Registered \ {a} : InParts(vesting_info'[b], released'[b], paid'[b])
      BY <1>1, <2>2
    <2>. QED
      BY <1>2, <2>2, <2>9, <2>10
  <1>5. ASSUME UNCHANGED <<vesting_info, released, paid>>
        PROVE  PaidInParts'
    BY <1>1, <1>2, <1>5 DEF Registered
  <1>. HIDE DEF InParts
  <1>. QED
    BY <1>3, <1>4, <1>5, StepKinds DEF Tick, UpdateConfig, vars

LEMMA PaidImplies == ASSUME IInv, PaidInParts PROVE PaidAtMostVested
  <1>1. SUFFICES ASSUME NEW a \in Registered
                 PROVE  paid[a] <= SumFunction([i \in DOMAIN Schedules(a) |->
                                                  Share(Schedules(a)[i], Vested(Schedules(a)[i], now))])
    BY DEF PaidAtMostVested, Share
  <1>. DEFINE D == DOMAIN Schedules(a)
              f == AtOnce(released[a], Schedules(a))
              g == [i \in D |-> Share(Schedules(a)[i], Vested(Schedules(a)[i], now))]
  <1>2. \A i \in D : f[i] \in Int /\ g[i] \in Int /\ f[i] <= g[i]
    <2>1. SUFFICES ASSUME NEW i \in D PROVE f[i] \in Int /\ g[i] \in Int /\ f[i] <= g[i]
      OBVIOUS
    <2>. DEFINE s == Schedules(a)[i]
                r == released[a][i]
    <2>2. s \in VestingSchedule /\ r \in Nat /\ Last(a) \in Nat /\ now \in Nat
      BY TypeFacts DEF IInv
    <2>3. PaidFor(s, Last(a), r)
      BY DEF IInv, Kept
    <2>4. f[i] = Amount(s, r) /\ g[i] = Share(s, Vested(s, now))
      BY DEF AtOnce
    <2>. HIDE DEF s, r, f, g
    <2>5. Valid(s) /\ Vested(s, now) \in Nat /\ r <= Vested(s, now)
      <3>1. Valid(s) /\ r <= Vested(s, Last(a)) /\ (Last(a) <= now \/ r = 0)
        BY <2>3 DEF PaidFor
      <3>2. CASE Last(a) <= now
        BY <2>2, <3>1, <3>2, VestedType
      <3>3. CASE r = 0
        <4>1. now <= now
          BY <2>2
        <4>. QED
          BY <2>2, <3>1, <3>3, <4>1, VestedType
      <3>. QED
        BY <3>1, <3>2, <3>3
    <2>6. Amount(s, r) \in Nat
      BY <2>2, <2>5, AmountIs
    <2>7. Share(s, Vested(s, now)) \in Nat /\ Amount(s, r) <= Share(s, Vested(s, now))
      BY <2>2, <2>5, AmountBound
    <2>. QED
      BY <2>4, <2>6, <2>7
  <1>3. /\ IsFiniteSet(D) /\ paid[a] <= Sum(f, D) /\ paid[a] \in Nat /\ Sum(f, D) \in Nat
    BY AtOnceType, TypeFacts DEF PaidInParts, IInv
  <1>4. SumFunction(g) = Sum(g, D)
    BY SumFunctionIsSum
  <1>. HIDE DEF D, f, g
  <1>5. Sum(f, D) <= Sum(g, D) /\ Sum(g, D) \in Int
    BY <1>2, <1>3, SumMonotone, SumInt
  <1>6. paid[a] <= SumFunction(g)
    BY <1>3, <1>4, <1>5
  <1>. QED
    BY <1>6 DEF g, D

\* Whatever the genesis time and the schedules, the claims of an account never
\* pay more than what has vested by now.
THEOREM NeverPaidMoreThanVested == Spec => []PaidAtMostVested
  <1>1. Init => PaidInParts
    BY DEF Init, PaidInParts, Registered
  <1>2. IInv /\ PaidInParts /\ [Next]_vars => PaidInParts'
    BY NextInParts
  <1>3. IInv /\ PaidInParts => PaidAtMostVested
    BY PaidImplies
  <1>. QED
    BY <1>1, <1>2, <1>3, AlwaysInv, PTL DEF Spec

-----------------------------------------------------------------------------
(* What is claimable *)

\* What a schedule would pay at time t.
TermAt(s, last, t) ==
    Amount(s, IF s.start_time <= t /\ s.end_time >= last /\ s.cliff_end_time <= t
              THEN (MinOf(s.end_time, t) - MaxOf(s.start_time, last)) + CatchUp(s, last)
              ELSE 0)

LEMMA TermGrows ==
    ASSUME NEW s \in VestingSchedule, Valid(s), NEW last \in Nat, NEW t \in Nat, NEW u \in Nat,
           last <= t, t <= u
    PROVE  /\ TermAt(s, last, t) \in Nat /\ TermAt(s, last, u) \in Nat
           /\ TermAt(s, last, t) <= TermAt(s, last, u)
  <1>. DEFINE secs(v) ==
                 IF s.start_time <= v /\ s.end_time >= last /\ s.cliff_end_time <= v
                 THEN (MinOf(s.end_time, v) - MaxOf(s.start_time, last)) + CatchUp(s, last)
                 ELSE 0
  <1>1. secs(t) \in Nat /\ secs(u) \in Nat /\ secs(t) <= secs(u)
    BY DEF CatchUp, VestingSchedule, Valid, MinOf, MaxOf
  <1>2. TermAt(s, last, t) = Amount(s, secs(t)) /\ TermAt(s, last, u) = Amount(s, secs(u))
    BY DEF TermAt
  <1>. HIDE DEF secs
  <1>3. /\ Amount(s, secs(t)) \in Nat /\ Amount(s, secs(u)) \in Nat
        /\ Amount(s, secs(t)) <= Amount(s, secs(u))
    BY <1>1, AmountIs, AmountMonotone
  <1>. QED
    BY <1>2, <1>3

\* What an account could claim at time t.
ClaimableAt(info, t) ==
    Sum([i \in DOMAIN info.schedules |-> TermAt(info.schedules[i], info.last_claim_time, t)],
        DOMAIN info.schedules)

LEMMA ClaimableIs ==
    ASSUME NEW a
    PROVE  /\ QueryClaimable(a) = ClaimableAt(vesting_info[a], now)
           /\ QueryClaimable(a)' = ClaimableAt(vesting_info'[a], now')
  <1>1. QueryClaimable(a) = ClaimableAt(vesting_info[a], now)
    BY SumFunctionIsSum
       DEF QueryClaimable, ClaimAmount, ClaimableAt, TermAt, PassedTime, Due, Elapsed
  <1>2. QueryClaimable(a)' = ClaimableAt(vesting_info'[a], now')
    BY SumFunctionIsSum
       DEF QueryClaimable, ClaimAmount, ClaimableAt, TermAt, PassedTime, Due, Elapsed
  <1>. QED
    BY <1>1, <1>2

LEMMA ClaimableGrows ==
    ASSUME NEW info \in VestingInfo, \A i \in DOMAIN info.schedules : Valid(info.schedules[i]),
           NEW t \in Nat, NEW u \in Nat, info.last_claim_time <= t, t <= u
    PROVE  /\ ClaimableAt(info, t) \in Nat /\ ClaimableAt(info, u) \in Nat
           /\ ClaimableAt(info, t) <= ClaimableAt(info, u)
  <1>. DEFINE D == DOMAIN info.schedules
              f == [i \in D |-> TermAt(info.schedules[i], info.last_claim_time, t)]
              g == [i \in D |-> TermAt(info.schedules[i], info.last_claim_time, u)]
  <1>1. info.schedules \in Seq(VestingSchedule) /\ info.last_claim_time \in Nat
    BY DEF VestingInfo
  <1>2. \A i \in D : f[i] \in Nat /\ g[i] \in Nat /\ f[i] <= g[i]
    <2>1. SUFFICES ASSUME NEW i \in D
                   PROVE  f[i] \in Nat /\ g[i] \in Nat /\ f[i] <= g[i]
      OBVIOUS
    <2>. DEFINE s == info.schedules[i]
                last == info.last_claim_time
    <2>2. s \in VestingSchedule /\ Valid(s) /\ last \in Nat /\ last <= t
      BY <1>1
    <2>3. f[i] = TermAt(s, last, t) /\ g[i] = TermAt(s, last, u)
      OBVIOUS
    <2>. HIDE DEF s, last, f, g
    <2>. QED
      BY <2>2, <2>3, TermGrows
  <1>3. IsFiniteSet(D)
    <2>. DEFINE n == Len(info.schedules)
    <2>1. D = 1..n /\ n \in Nat
      BY <1>1
    <2>. HIDE DEF D, n
    <2>. QED
      BY <2>1, FS_Interval
  <1>4. ClaimableAt(info, t) = Sum(f, D) /\ ClaimableAt(info, u) = Sum(g, D)
    BY DEF ClaimableAt
  <1>. HIDE DEF D, f, g
  <1>5. \A i \in D : f[i] \in Int /\ g[i] \in Int /\ f[i] <= g[i]
    BY <1>2
  <1>6. Sum(f, D) \in Nat /\ Sum(g, D) \in Nat
    BY <1>2, <1>3, SumNat
  <1>7. Sum(f, D) <= Sum(g, D)
    BY <1>3, <1>5, SumMonotone
  <1>. QED
    BY <1>4, <1>6, <1>7

\* The difference compute_claim_amount takes, at time t.
CountsAt(s, last, t) ==
    s.start_time <= t /\ s.end_time >= last /\ s.cliff_end_time <= t
        => MinOf(s.end_time, t) - MaxOf(s.start_time, last) >= 0

LEMMA NothingForgoneAt == ASSUME IInv, [Next]_vars PROVE NothingForgoneStep
  <1>. SUFFICES ASSUME Tick \/ (\E a \in Accounts : Claim(a)), NEW b \in Registered,
                       vesting_info[b].last_claim_time <= now
                PROVE  Computable(vesting_info[b])' /\ Worth(b)' >= Worth(b)
    BY DEF NothingForgoneStep
  <1>. DEFINE info == vesting_info[b]
              later == vesting_info'[b]
  <1>1. /\ info \in VestingInfo /\ now \in Nat /\ paid[b] \in Nat
        /\ \A i \in DOMAIN info.schedules : Valid(info.schedules[i])
    BY TypeFacts DEF IInv, Info, Kept, PaidFor, Schedules
  <1>2. /\ Worth(b) = paid[b] + ClaimableAt(info, now)
        /\ Worth(b)' = paid'[b] + ClaimableAt(later, now')
    BY ClaimableIs DEF Worth
  <1>3. ASSUME later \in VestingInfo, later.schedules = info.schedules,
               now' \in Nat, later.last_claim_time <= now'
        PROVE  Computable(info)'
    <2>1. Computable(info)' <=> \A i \in DOMAIN later.schedules :
                                   CountsAt(later.schedules[i], later.last_claim_time, now')
      BY DEF Computable, Due, Elapsed, CountsAt
    <2>2. ASSUME NEW i \in DOMAIN later.schedules
          PROVE  CountsAt(later.schedules[i], later.last_claim_time, now')
      <3>. DEFINE s == later.schedules[i]
                  last == later.last_claim_time
      <3>1. s \in VestingSchedule /\ Valid(s) /\ last \in Nat /\ last <= now'
        BY <1>1, <1>3, <2>2 DEF VestingInfo
      <3>. HIDE DEF s, last
      <3>2. CountsAt(s, last, now')
        BY <1>3, <3>1 DEF CountsAt, VestingSchedule, Valid, MinOf, MaxOf
      <3>. QED
        BY <3>2 DEF s, last
    <2>. QED
      BY <2>1, <2>2
  <1>4. CASE Tick
    <2>1. now' = now + 1 /\ vesting_info' = vesting_info /\ paid' = paid
      BY <1>4 DEF Tick
    <2>2. now' \in Nat /\ now <= now' /\ later = info /\ info.last_claim_time \in Nat
      BY <1>1, <2>1 DEF VestingInfo
    <2>3. /\ ClaimableAt(info, now) \in Nat /\ ClaimableAt(info, now') \in Nat
          /\ ClaimableAt(info, now) <= ClaimableAt(info, now')
      BY <1>1, <2>2, ClaimableGrows
    <2>4. info.last_claim_time <= now'
      BY <1>1, <2>2
    <2>. QED
      BY <1>1, <1>2, <1>3, <2>1, <2>2, <2>3, <2>4
  <1>5. ASSUME NEW a \in Accounts, Claim(a)
        PROVE  Computable(vesting_info[b])' /\ Worth(b)' >= Worth(b)
    <2>1. a \in Registered /\ Claiming(a, QueryClaimable(a)) /\ QueryClaimable(a) \in Nat
      BY <1>5, ClaimClaims DEF Claiming
    <2>2. /\ vesting_info'[a] = [last_claim_time |-> now, schedules |-> Schedules(a)]
          /\ paid'[a] = paid[a] + QueryClaimable(a)
          /\ \A c \in Registered \ {a} : vesting_info'[c] = vesting_info[c] /\ paid'[c] = paid[c]
          /\ now' = now
      BY <2>1, ClaimedIs
    <2>3. /\ ClaimableAt(info, now) \in Nat /\ now <= now
      BY <1>1, ClaimableGrows
    <2>4. CASE a # b
      <3>1. later = info /\ paid'[b] = paid[b]
        BY <2>2, <2>4
      <3>. QED
        BY <1>1, <1>2, <1>3, <2>2, <2>3, <3>1
    <2>5. CASE a = b
      <3>1. /\ later = [last_claim_time |-> now, schedules |-> info.schedules]
            /\ paid'[b] = paid[b] + ClaimableAt(info, now)
        BY <2>2, <2>5, ClaimableIs DEF Schedules
      <3>2. later \in VestingInfo /\ later.schedules = info.schedules /\ later.last_claim_time = now
        BY <1>1, <3>1 DEF VestingInfo
      <3>3. ClaimableAt(later, now) \in Nat
        BY <1>1, <2>3, <3>2, ClaimableGrows
      <3>. QED
        BY <1>1, <1>2, <1>3, <2>2, <2>3, <3>1, <3>2, <3>3
    <2>. QED
      BY <2>4, <2>5
  <1>. QED
    BY <1>4, <1>5

\* What could once be claimed is never forgone: neither time nor a claim, the
\* account's own or one made for it, takes from what an account was paid and is
\* shown together, nor makes the next claim abort.
THEOREM NothingIsForgone == Spec => NothingForgone
  <1>1. IInv /\ [Next]_vars => [NothingForgoneStep]_vars
    BY NothingForgoneAt
  <1>. QED
    BY <1>1, AlwaysInv, PTL DEF Spec, NothingForgone

=============================================================================

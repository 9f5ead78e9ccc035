--------------------------- MODULE RangeQueriesProofs ---------------------------
(***************************************************************************)
(* A walk through a paged query meets each key once, and all that stayed   *)
(* listed, for any number of polls and accounts, any request and any       *)
(* limits.                                                                 *)
(*                                                                         *)
(* The inductive invariant is TypeOK, whose cursor is the furthest key     *)
(* that was met, with NoDuplicates and Walked: of the keys that stayed,    *)
(* those that are not after the cursor have been met.                      *)
(***************************************************************************)
EXTENDS RangeQueries, CosmMathProofs, SequenceTheorems

After(r, from, k) == from = NONE \/ Before(r.order_by, from, k)

LEMMA Keyspace == AnyKey \subseteq Nat /\ IsFiniteSet(AnyKey) /\ NONE \notin AnyKey
<1>1. MaxPolls \in Nat /\ NONE \notin Nat /\ Accounts \subseteq Nat /\ IsFiniteSet(Accounts)
    BY LimitsAssumption, AccountsAssumption
<1>2. IsFiniteSet(1..MaxPolls)
    BY <1>1, FS_Interval
<1>3. IsFiniteSet(AnyKey)
    BY <1>1, <1>2, FS_Union DEF AnyKey
<1>4. AnyKey \subseteq Nat
  <2>1. 1..MaxPolls \subseteq Nat
      BY <1>1
  <2> QED
      BY <1>1, <2>1 DEF AnyKey
<1> QED
    BY <1>1, <1>3, <1>4

\* The order of a query is a strict total order on keys.
LEMMA BeforeIsOrder ==
    ASSUME NEW order_by, NEW k \in Nat, NEW l \in Nat, NEW m \in Nat
    PROVE  /\ ~Before(order_by, k, k)
           /\ k # l => Before(order_by, k, l) \/ Before(order_by, l, k)
           /\ Before(order_by, k, l) => ~Before(order_by, l, k)
           /\ Before(order_by, k, l) /\ Before(order_by, l, m) => Before(order_by, k, m)
BY DEF Before

LEMMA RangeIsAfter ==
    ASSUME NEW keys \in SUBSET Nat, NEW r, NEW from
    PROVE  InRange(keys, from, r.order_by) = {k \in keys : After(r, from, k)}
BY DEF InRange, After, Before

LEMMA LimitType == ASSUME NEW r \in Requests PROVE EffectiveLimit(r.limit) \in Nat
<1>1. r.limit \in Nat \cup {NONE}
    BY RequestsAssumption, LimitsAssumption DEF Request
<1> QED
    BY <1>1, LimitsAssumption DEF EffectiveLimit, MinOf

LEMMA SortedProperties ==
    ASSUME NEW keys \in SUBSET Nat, IsFiniteSet(keys), NEW order_by,
           NEW sorted, sorted = Sorted(keys, order_by)
    PROVE  /\ sorted \in Seq(keys)
           /\ \A i, j \in DOMAIN sorted : i < j => Before(order_by, sorted[i], sorted[j])
           /\ \A k \in keys : \E i \in DOMAIN sorted : sorted[i] = k
<1> DEFINE before == {p \in keys \X keys : Before(order_by, p[1], p[2])}
           n == Cardinality(keys)
<1>1. \A k, l \in keys : <<k, l>> \in before <=> Before(order_by, k, l)
    OBVIOUS
<1>2. TotalOrder(before, keys)
  <2> HIDE DEF before
  <2> QED
      BY <1>1, BeforeIsOrder DEF TotalOrder
<1>3. sorted = Arranged(keys, before)
    BY DEF Sorted
<1> HIDE DEF before
<1>4. Lists(sorted, n, keys, before)
    BY <1>2, <1>3, ArrangedProperties
<1>5. /\ n \in Nat /\ sorted \in [1..n -> keys]
      /\ \A i, j \in 1..n : i < j => <<sorted[i], sorted[j]>> \in before
      /\ \A k \in keys : \E i \in 1..n : sorted[i] = k
    BY <1>4 DEF Lists
<1>6. sorted \in Seq(keys) /\ DOMAIN sorted = 1..n
  <2> HIDE DEF n
  <2> QED
      BY <1>5
<1> QED
    BY <1>1, <1>5, <1>6

\* A page has keys that are listed after `from` in order, and misses none of
\* them but those after its last.
IsPageOf(page, keys, r, from) ==
    /\ \A k \in Range(page) : k \in keys /\ After(r, from, k)
    /\ page # <<>> =>
          /\ Last(page) \in Range(page)
          /\ \A k \in Range(page) : ~Before(r.order_by, Last(page), k)
    /\ EffectiveLimit(r.limit) > 0 =>
          \A k \in keys : After(r, from, k) /\ k \notin Range(page) =>
              page # <<>> /\ Before(r.order_by, Last(page), k)

LEMMA PageProperties ==
    ASSUME NEW keys \in SUBSET AnyKey, NEW r \in Requests, NEW from,
           NEW page, page = Page(keys, from, r.limit, r.order_by)
    PROVE  IsPageOf(page, keys, r, from)
<1> DEFINE range == InRange(keys, from, r.order_by)
           sorted == Sorted(range, r.order_by)
           limit == EffectiveLimit(r.limit)
           len == Len(sorted)
           n == MinOf(limit, len)
<1>1. keys \in SUBSET Nat /\ range = {k \in keys : After(r, from, k)}
    BY Keyspace, RangeIsAfter
<1>2. range \in SUBSET Nat /\ IsFiniteSet(range)
  <2>1. range \in SUBSET AnyKey
      BY <1>1
  <2> QED
      BY <2>1, Keyspace, FS_Subset
<1>3. limit \in Nat
    BY LimitType
<1>4. page = SubSeq(sorted, 1, n)
    BY DEF Page, Taken
<1> HIDE DEF range
<1>5. /\ sorted \in Seq(range)
      /\ \A i, j \in DOMAIN sorted : i < j => Before(r.order_by, sorted[i], sorted[j])
      /\ \A k \in range : \E i \in DOMAIN sorted : sorted[i] = k
    BY <1>2, SortedProperties
<1> HIDE DEF sorted, limit
<1>6. len \in Nat /\ DOMAIN sorted = 1..len /\ \A i \in 1..len : sorted[i] \in range
    BY <1>5
<1> HIDE DEF len
<1>7. n \in Nat /\ n <= len /\ (n = limit \/ n = len) /\ \A i \in 1..n : i \in 1..len
    BY <1>3, <1>6 DEF MinOf
<1> HIDE DEF n
<1>8. page \in Seq(range) /\ Len(page) = n /\ \A i \in 1..n : page[i] = sorted[i]
  <2>1. \A i \in 1..n : sorted[i] \in range
      BY <1>6, <1>7, Zenon
  <2>2. /\ SubSeq(sorted, 1, n) \in Seq(range)
        /\ Len(SubSeq(sorted, 1, n)) = IF 1 <= n THEN n - 1 + 1 ELSE 0
        /\ \A i \in 1..(n - 1 + 1) : SubSeq(sorted, 1, n)[i] = sorted[1 + i - 1]
      BY <1>7, <2>1, SubSeqProperties
  <2>3. n - 1 + 1 = n /\ \A i \in 1..n : 1 + i - 1 = i
      BY <1>7
  <2> QED
      BY <1>4, <1>7, <2>2, <2>3
<1>9. DOMAIN page = 1..n /\ \A k : k \in Range(page) <=> \E i \in 1..n : k = sorted[i]
  <2>1. DOMAIN page = 1..n
      BY <1>8
  <2> QED
      BY <1>8, <2>1 DEF Range
<1>10. ASSUME NEW k \in Range(page) PROVE k \in range
    BY <1>6, <1>7, <1>9, Zenon
<1>11. ASSUME page # <<>>
       PROVE  n > 0 /\ Last(page) = sorted[n] /\ n \in 1..n
  <2>1. n # 0
      BY <1>8, <1>11, EmptySeq
  <2> QED
      BY <1>7, <1>8, <2>1 DEF Last
<1>12. ASSUME page # <<>>, NEW k \in Range(page) PROVE ~Before(r.order_by, Last(page), k)
  <2>1. PICK i \in 1..n : k = sorted[i]
      BY <1>9, <1>12
  <2>2. sorted[n] \in Nat /\ k \in Nat
      BY <1>2, <1>6, <1>7, <1>11, <1>12, <2>1, Zenon
  <2>3. CASE i = n
      BY <1>11, <1>12, <2>1, <2>2, <2>3, BeforeIsOrder
  <2>4. CASE i # n
    <3>1. Before(r.order_by, sorted[i], sorted[n])
      <4>1. i \in DOMAIN sorted /\ n \in DOMAIN sorted
          BY <1>6, <1>7, <1>11, <1>12, Zenon
      <4>2. i < n
          BY <1>7, <2>4
      <4> QED
          BY <1>5, <4>1, <4>2, Zenon
    <3>2. sorted[i] \in Nat /\ Last(page) = sorted[n]
        BY <1>11, <1>12, <2>1, <2>2
    <3>3. ~Before(r.order_by, sorted[n], sorted[i])
        BY <2>2, <3>1, <3>2, BeforeIsOrder
    <3> QED
        BY <2>1, <3>2, <3>3, Zenon
  <2> QED
      BY <2>3, <2>4
<1>13. ASSUME limit > 0, NEW k \in range, k \notin Range(page)
       PROVE  page # <<>> /\ Before(r.order_by, Last(page), k)
  <2>1. PICK i \in 1..len : sorted[i] = k
      BY <1>5, <1>6
  <2>2. i > n
      BY <1>7, <1>9, <1>13, <2>1
  <2>3. n > 0 /\ n \in 1..len
      BY <1>3, <1>6, <1>7, <1>13, <2>2
  <2>4. page # <<>>
      BY <1>8, <2>3
  <2>5. Before(r.order_by, sorted[n], sorted[i])
      BY <1>5, <1>6, <2>1, <2>2, <2>3
  <2> QED
      BY <1>11, <2>1, <2>4, <2>5
<1>14. page # <<>> => Last(page) \in Range(page)
    BY <1>9, <1>11
<1> QED
    BY <1>1, <1>10, <1>12, <1>13, <1>14 DEF IsPageOf, limit

-----------------------------------------------------------------------------
(* Keys of the request *)

LEMMA RequestFields ==
    ASSUME NEW r \in Requests
    PROVE  \/ r.list = "polls"
           \/ r.list = "voters" /\ r.poll \in 1..MaxPolls
           \/ r.list = "vesting_accounts"
BY RequestsAssumption DEF Request

LEMMA KeysAreKeys == TypeOK => Keys(request) \subseteq AnyKey
<1> SUFFICES ASSUME TypeOK PROVE Keys(request) \subseteq AnyKey
    OBVIOUS
<1>1. MaxPolls \in Nat /\ Len(status) \in Nat /\ DOMAIN status = 1..Len(status) /\ Len(status) <= MaxPolls
    BY LimitsAssumption DEF TypeOK
<1>2. DOMAIN status \subseteq 1..MaxPolls
    BY <1>1
<1>3. request \in Requests /\ keyed \subseteq AnyKey /\ left \subseteq DOMAIN status
    BY DEF TypeOK, AnyKey
<1>4. CASE request.list = "polls"
    BY <1>2, <1>3, <1>4 DEF Keys, PollKeys, AnyKey
<1>5. CASE request.list = "voters"
    BY <1>3, <1>5 DEF Keys, VoterKeys
<1>6. CASE request.list = "vesting_accounts"
    BY <1>3, <1>6 DEF Keys, VestingAccountKeys
<1> QED
    BY <1>3, <1>4, <1>5, <1>6, RequestFields

-----------------------------------------------------------------------------
(* The invariant *)

\* Of what stayed in the range, all that the cursor has passed has been met.
Walked ==
    /\ stayed \subseteq Keys(request)
    /\ EffectiveLimit(request.limit) > 0 =>
          /\ \A k \in stayed : met[k] > 0 \/ After(request, cursor, k)
          /\ done => \A k \in stayed : met[k] > 0

Inv == TypeOK /\ NoDuplicates /\ Walked

LEMMA InvHoldsInitially == Init => Inv
<1> SUFFICES ASSUME Init PROVE Inv
    OBVIOUS
<1>1. request \in Requests /\ Listed \in Nat /\ Listed <= MaxPolls
  <2>1. request \in Requests
      BY DEF Init
  <2> QED
      BY <2>1, RequestFields, LimitsAssumption DEF Listed
<1>2. status \in Seq(PollStatus) /\ Len(status) <= MaxPolls
  <2>1. PICK n \in 0..Listed : status \in [1..n -> PollStatus]
      BY DEF Init
  <2> QED
      BY <1>1, <2>1, LimitsAssumption
<1>3. keyed \subseteq Accounts /\ left \subseteq DOMAIN status
    BY DEF Init
<1>4. met \in [AnyKey -> 0..2] /\ cursor = NONE /\ \A k \in AnyKey : met[k] = 0
    BY DEF Init
<1>5. done = FALSE /\ stayed = Keys(request)
    BY DEF Init
<1>6. Keys(request) \subseteq AnyKey
  <2>1. MaxPolls \in Nat /\ Len(status) \in Nat /\ DOMAIN status = 1..Len(status)
      BY <1>2, LimitsAssumption
  <2>2. DOMAIN status \subseteq 1..MaxPolls
      BY <1>2, <2>1
  <2> QED
      BY <1>1, <1>3, <2>2, RequestFields DEF Keys, PollKeys, VoterKeys, VestingAccountKeys, AnyKey
<1>7. TypeOK
    BY <1>1, <1>2, <1>3, <1>4, <1>5, <1>6 DEF TypeOK
<1>8. NoDuplicates
    BY <1>4 DEF NoDuplicates
<1>9. Walked
    BY <1>4, <1>5 DEF Walked, After
<1> QED
    BY <1>7, <1>8, <1>9 DEF Inv

\* A page advances the cursor over all it shows and all it does not.
LEMMA PagesAdvance == Inv /\ NextPage => Inv'
<1> SUFFICES ASSUME Inv, NextPage PROVE Inv'
    OBVIOUS
<1> DEFINE keys == Keys(request)
           page == Answer(request, cursor)
<1>1. TypeOK /\ NoDuplicates /\ Walked
    BY DEF Inv
<1>2. request \in Requests /\ keys \in SUBSET AnyKey
    BY <1>1, KeysAreKeys DEF TypeOK
<1>3. /\ \A k \in Range(page) : k \in keys /\ After(request, cursor, k)
      /\ page # <<>> =>
            /\ Last(page) \in Range(page)
            /\ \A k \in Range(page) : ~Before(request.order_by, Last(page), k)
      /\ EffectiveLimit(request.limit) > 0 =>
            \A k \in keys : After(request, cursor, k) /\ k \notin Range(page) =>
                page # <<>> /\ Before(request.order_by, Last(page), k)
  <2>1. page = Page(keys, cursor, request.limit, request.order_by)
      BY DEF Answer
  <2> HIDE DEF keys, page
  <2>2. IsPageOf(page, keys, request, cursor)
      BY <1>2, <2>1, PageProperties
  <2> QED
      BY <2>2 DEF IsPageOf
<1>4. UNCHANGED <<request, status, left, keyed, stayed>> /\ ~done /\ keys' = keys
    BY DEF NextPage, Keys, PollKeys, VoterKeys, VestingAccountKeys, Exists
<1>5. CASE page = <<>>
  <2>1. done' = TRUE /\ UNCHANGED <<cursor, met>>
      BY <1>5 DEF NextPage
  <2>2. TypeOK'
      BY <1>1, <1>4, <2>1 DEF TypeOK
  <2>3. NoDuplicates'
      BY <1>1, <2>1 DEF NoDuplicates
  <2>4. Walked'
    <3> SUFFICES ASSUME EffectiveLimit(request.limit) > 0
                 PROVE  \A k \in stayed : met[k] > 0
        BY <1>1, <1>4, <2>1 DEF Walked, After
    <3>1. Range(page) = {}
        BY <1>5 DEF Range
    <3>2. \A k \in keys : ~After(request, cursor, k)
        BY <1>3, <1>5, <3>1
    <3> QED
        BY <1>1, <3>2 DEF Walked
  <2> QED
      BY <2>2, <2>3, <2>4 DEF Inv
<1>6. CASE page # <<>>
  <2> DEFINE shown == Range(page)
             last == Last(page)
             by == request.order_by
  <2>1. /\ met' = [k \in AnyKey |-> IF k \in shown THEN MinOf(met[k] + 1, 2) ELSE met[k]]
        /\ cursor' = last
        /\ done' = FALSE
      BY <1>4, <1>6, <1>1 DEF NextPage, NextCursor, TypeOK
  <2>2. /\ last \in shown /\ shown \subseteq keys
        /\ \A k \in shown : After(request, cursor, k) /\ ~Before(by, last, k)
      BY <1>3, <1>6
  <2>3. EffectiveLimit(request.limit) > 0 =>
            \A k \in keys : After(request, cursor, k) /\ k \notin shown => Before(by, last, k)
      BY <1>3
  <2> HIDE DEF keys, page, shown, last, by
  <2>4. last \in AnyKey /\ last # NONE /\ AnyKey \subseteq Nat /\ NONE \notin AnyKey
      BY <1>2, <2>2, Keyspace
  \* What is shown was not met before.
  <2>5. ASSUME NEW k \in shown PROVE k \in AnyKey /\ met[k] = 0
    <3>1. k \in AnyKey /\ After(request, cursor, k)
        BY <1>2, <2>2
    <3>2. met[k] \in 0..2
        BY <1>1, <3>1 DEF TypeOK
    <3>3. CASE cursor = NONE
        BY <1>1, <3>1, <3>3 DEF TypeOK
    <3>4. CASE cursor # NONE
      <4>1. Before(request.order_by, cursor, k)
          BY <3>1, <3>4 DEF After
      <4>2. ~(met[k] > 0)
          BY <1>1, <3>1, <3>4, <4>1 DEF TypeOK
      <4> QED
          BY <3>1, <3>2, <4>2
    <3> QED
        BY <3>3, <3>4
  <2>6. ASSUME NEW k \in AnyKey
        PROVE  met'[k] = IF k \in shown THEN 1 ELSE met[k]
      BY <2>1, <2>5 DEF MinOf
  \* What was met is not after the last key of the page.
  <2>7. ASSUME NEW k \in AnyKey, met[k] > 0, k \notin shown
        PROVE  ~Before(by, last, k)
    <3>1. cursor # NONE /\ cursor \in AnyKey /\ ~Before(by, cursor, k)
        BY <1>1, <2>7 DEF TypeOK, by
    <3>2. Before(by, cursor, last)
        BY <2>2, <3>1 DEF After, by
    <3> QED
        BY <2>4, <3>1, <3>2, BeforeIsOrder
  <2>8. TypeOK'
    <3>1. met' \in [AnyKey -> 0..2]
        BY <1>1, <2>1, <2>6 DEF TypeOK
    <3>2. met'[cursor'] > 0 /\ \A k \in AnyKey : met'[k] > 0 => ~Before(by, last, k)
        BY <2>1, <2>2, <2>4, <2>6, <2>7
    <3> QED
        BY <1>1, <1>4, <2>1, <2>4, <3>1, <3>2 DEF TypeOK, by
  <2>9. NoDuplicates'
      BY <1>1, <2>6 DEF NoDuplicates
  <2>10. Walked'
    <3> SUFFICES ASSUME EffectiveLimit(request.limit) > 0, NEW k \in stayed
                 PROVE  met'[k] > 0 \/ Before(by, last, k)
        BY <1>1, <1>4, <2>1, <2>4 DEF Walked, After, keys, by
    <3>1. k \in keys /\ k \in AnyKey /\ (met[k] > 0 \/ After(request, cursor, k))
        BY <1>1, <1>2 DEF Walked, keys
    <3> QED
        BY <2>3, <2>6, <3>1
  <2> QED
      BY <2>8, <2>9, <2>10 DEF Inv
<1> QED
    BY <1>5, <1>6

\* Messages change only what is listed, and what stayed with it.
LEMMA MessagesLeaveTheWalk ==
    ASSUME Inv, UNCHANGED <<request, cursor, met, done>>, Stays,
           status' \in Seq(PollStatus), Len(status') <= MaxPolls,
           left' \subseteq DOMAIN status', keyed' \subseteq Accounts
    PROVE  Inv'
<1>1. TypeOK /\ NoDuplicates /\ Walked
    BY DEF Inv
<1>2. stayed' \subseteq stayed /\ stayed' \subseteq Keys(request)'
    BY DEF Stays
<1>3. TypeOK'
    BY <1>1, <1>2 DEF TypeOK
<1>4. NoDuplicates'
    BY <1>1 DEF NoDuplicates
<1>5. Walked'
    BY <1>1, <1>2 DEF Walked, After
<1> QED
    BY <1>3, <1>4, <1>5 DEF Inv

LEMMA InvIsInductive == Inv /\ [Next]_vars => Inv'
<1> SUFFICES ASSUME Inv, [Next]_vars PROVE Inv'
    OBVIOUS
<1>1. /\ TypeOK /\ MaxPolls \in Nat /\ request \in Requests
      /\ status \in Seq(PollStatus) /\ Len(status) <= MaxPolls
      /\ left \subseteq DOMAIN status /\ keyed \subseteq Accounts
    BY LimitsAssumption DEF Inv, TypeOK
<1>2. CASE NextPage
    BY <1>2, PagesAdvance
<1>3. CASE CreatePoll
  <2>1. Listed <= MaxPolls /\ Listed \in Nat
      BY <1>1, RequestFields DEF Listed
  <2>2. status' \in Seq(PollStatus) /\ Len(status') = Len(status) + 1 /\ Len(status) < Listed
      BY <1>1, <1>3 DEF CreatePoll, PollStatus
  <2>3. Len(status') <= MaxPolls
      BY <1>1, <2>1, <2>2
  <2>4. left' \subseteq DOMAIN status'
    <3>1. /\ DOMAIN status = 1..Len(status) /\ Len(status) \in Nat
          /\ DOMAIN status' = 1..Len(status')
        BY <1>1, <2>2
    <3>2. left' = left
        BY <1>3 DEF CreatePoll
    <3> QED
        BY <1>1, <2>2, <3>1, <3>2
  <2> QED
      BY <1>1, <1>3, <2>2, <2>3, <2>4, MessagesLeaveTheWalk DEF CreatePoll
<1>4. ASSUME NEW id \in DOMAIN status, MovePoll(id) PROVE Inv'
  <2>1. PICK to \in MayBecome(status[id]) : status' = [status EXCEPT ![id] = to]
      BY <1>4 DEF MovePoll
  <2>2. to \in PollStatus
      BY DEF MayBecome, PollStatus
  <2>3. /\ status' \in Seq(PollStatus) /\ Len(status') = Len(status)
        /\ DOMAIN status' = DOMAIN status
      BY <1>1, <2>1, <2>2
  <2> QED
      BY <1>1, <1>4, <2>3, MessagesLeaveTheWalk DEF MovePoll
<1>8. ASSUME NEW id \in DOMAIN status, RunPoll(id) PROVE Inv'
  <2>1. status' = [status EXCEPT ![id] = "executed"] /\ left' \subseteq left \cup {id}
      BY <1>8 DEF RunPoll
  <2>2. /\ status' \in Seq(PollStatus) /\ Len(status') = Len(status)
        /\ DOMAIN status' = DOMAIN status
      BY <1>1, <2>1 DEF PollStatus
  <2>3. left' \subseteq DOMAIN status'
      BY <1>1, <2>1, <2>2
  <2> QED
      BY <1>1, <1>8, <2>2, <2>3, MessagesLeaveTheWalk DEF RunPoll
<1>5. ASSUME NEW a \in Accounts, AddAccount(a) PROVE Inv'
    BY <1>1, <1>5, MessagesLeaveTheWalk DEF AddAccount
<1>6. ASSUME NEW a \in Accounts, RemoveVoter(a) PROVE Inv'
    BY <1>1, <1>6, MessagesLeaveTheWalk DEF RemoveVoter
<1>7. CASE UNCHANGED vars
  <2>1. Keys(request)' = Keys(request)
      BY <1>7 DEF vars, Keys, PollKeys, VoterKeys, VestingAccountKeys, Exists
  <2> QED
      BY <1>7, <2>1 DEF vars, Inv, TypeOK, NoDuplicates, Walked, After
<1> QED
    BY <1>2, <1>3, <1>4, <1>5, <1>6, <1>7, <1>8 DEF Next

-----------------------------------------------------------------------------
(* Theorems *)

THEOREM InvHolds == Spec => []Inv
BY InvHoldsInitially, InvIsInductive, PTL DEF Spec

\* Every walk keeps to its types, and its cursor, the caller's start_after, is
\* the furthest key that a page of the paged queries has shown.
THEOREM TypeCorrect == Spec => []TypeOK
<1>1. Inv => TypeOK
    BY DEF Inv
<1> QED
    BY <1>1, InvHolds, PTL

\* query_polls, query_voters and query_vesting_accounts never show a walk the
\* same key twice, whatever changes between its pages: calc_range_start and
\* calc_range_end leave out the cursor and all before it.
THEOREM KeysAreMetOnce == Spec => []NoDuplicates
<1>1. Inv => NoDuplicates
    BY DEF Inv
<1> QED
    BY <1>1, InvHolds, PTL

\* A walk that came to an empty page has met all that stayed in the range of
\* the query, whatever its limit, if that is not 0, and its order.
THEOREM WalksAreComplete == Spec => []CompleteWalk
<1>1. Inv => CompleteWalk
    BY DEF Inv, Walked, CompleteWalk
<1> QED
    BY <1>1, InvHolds, PTL

=============================================================================

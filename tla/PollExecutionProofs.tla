-------------------------- MODULE PollExecutionProofs --------------------------
(***************************************************************************)
(* Theorems about PollExecution, for every set of polls and users, every   *)
(* list of messages in them and every bound on the calls pending at once:  *)
(* a reply fails the right poll, and, as long as no poll has a message     *)
(* that calls the contract's Yourself entry point, only passed polls run   *)
(* and an execution leaves all of its messages behind or none.             *)
(***************************************************************************)
EXTENDS PollExecution, CosmMathProofs, SequenceTheorems

-----------------------------------------------------------------------------
(* Sequences of calls *)

\* What is left of `cs` after its first m items.
After(cs, m) == SubSeq(cs, m + 1, Len(cs))

LEMMA AfterProperties ==
    ASSUME NEW S, NEW cs \in Seq(S), NEW m \in 0..Len(cs)
    PROVE  /\ After(cs, m) \in Seq(S)
           /\ Len(cs) \in Nat /\ Len(After(cs, m)) = Len(cs) - m
           /\ \A k \in 1..(Len(cs) - m) : After(cs, m)[k] = cs[m + k]
  <1>1. Len(cs) \in Nat /\ \A i \in 1..Len(cs) : cs[i] \in S
    BY LenProperties, ElementOfSeq
  <1>. DEFINE n == Len(cs)
              lo == m + 1
  <1>2. n \in Int /\ lo \in Int /\ \A i \in lo..n : cs[i] \in S
    BY <1>1
  <1>. HIDE DEF n, lo
  <1>3. /\ SubSeq(cs, lo, n) \in Seq(S)
        /\ Len(SubSeq(cs, lo, n)) = IF lo <= n THEN n - lo + 1 ELSE 0
        /\ \A i \in 1..(n - lo + 1) : SubSeq(cs, lo, n)[i] = cs[lo + i - 1]
    BY <1>2, SubSeqProperties
  <1>4. After(cs, m) = SubSeq(cs, lo, n)
    BY DEF After, lo, n
  <1>5. /\ Len(SubSeq(cs, lo, n)) = n - m
        /\ \A i \in 1..(n - m) : SubSeq(cs, lo, n)[i] = cs[m + i]
    BY <1>1, <1>3 DEF lo, n
  <1>. QED
    BY <1>1, <1>3, <1>4, <1>5 DEF n

LEMMA TailIsAfter ==
    ASSUME NEW S, NEW cs \in Seq(S), cs # <<>>
    PROVE  /\ Len(cs) \in Nat \ {0} /\ Head(cs) = cs[1] /\ cs[1] \in S
           /\ Tail(cs) \in Seq(S) /\ Tail(cs) = After(cs, 1)
           /\ cs = <<cs[1]>> \o Tail(cs)
  <1>1. Len(cs) \in Nat \ {0} /\ Head(cs) = cs[1] /\ cs[1] \in S /\ Tail(cs) \in Seq(S)
    BY EmptySeq, HeadTailProperties, ElementOfSeq
  <1>2. Len(Tail(cs)) = Len(cs) - 1 /\ \A i \in 1..Len(Tail(cs)) : Tail(cs)[i] = cs[i + 1]
    BY HeadTailProperties
  <1>3. /\ After(cs, 1) \in Seq(S) /\ Len(After(cs, 1)) = Len(cs) - 1
        /\ \A k \in 1..(Len(cs) - 1) : After(cs, 1)[k] = cs[1 + k]
    <2>. DEFINE one == 1
    <2>1. one \in 0..Len(cs)
      BY <1>1
    <2>. HIDE DEF one
    <2>2. /\ After(cs, one) \in Seq(S) /\ Len(After(cs, one)) = Len(cs) - one
          /\ \A k \in 1..(Len(cs) - one) : After(cs, one)[k] = cs[one + k]
      BY <2>1, AfterProperties
    <2>. QED
      BY <2>2 DEF one
  <1>4. Tail(cs) = After(cs, 1)
    <2>1. \A i \in 1..Len(Tail(cs)) : Tail(cs)[i] = After(cs, 1)[i]
      BY <1>1, <1>2, <1>3
    <2>. QED
      BY <1>1, <1>2, <1>3, <2>1, SeqEqual
  <1>5. cs = <<cs[1]>> \o Tail(cs)
    <2>. DEFINE h == <<cs[1]>>
    <2>1. h \in Seq(S) /\ Len(h) = 1 /\ h[1] = cs[1]
      BY <1>1
    <2>. HIDE DEF h
    <2>5. /\ h \o Tail(cs) \in Seq(S) /\ Len(h \o Tail(cs)) = Len(h) + Len(Tail(cs))
          /\ \A i \in 1..(Len(h) + Len(Tail(cs))) :
                (h \o Tail(cs))[i] = IF i <= Len(h) THEN h[i] ELSE Tail(cs)[i - Len(h)]
      BY <1>1, <2>1, ConcatProperties
    <2>2. /\ h \o Tail(cs) \in Seq(S) /\ Len(h \o Tail(cs)) = 1 + Len(Tail(cs))
          /\ \A i \in 1..(1 + Len(Tail(cs))) :
                (h \o Tail(cs))[i] = IF i <= 1 THEN h[i] ELSE Tail(cs)[i - 1]
      BY <2>1, <2>5
    <2>3. Len(h \o Tail(cs)) = Len(cs)
      BY <1>1, <1>2, <2>2
    <2>4. \A i \in 1..Len(cs) : (h \o Tail(cs))[i] = cs[i]
      <3>. TAKE i \in 1..Len(cs)
      <3>1. CASE i = 1
        BY <1>1, <1>2, <2>1, <2>2, <3>1
      <3>2. CASE i # 1
        <4>1. i - 1 \in 1..Len(Tail(cs)) /\ i \in 1..(1 + Len(Tail(cs))) /\ ~(i <= 1)
          BY <1>1, <1>2, <3>2
        <4>2. Tail(cs)[i - 1] = cs[(i - 1) + 1] /\ (i - 1) + 1 = i
          BY <1>1, <1>2, <4>1
        <4>. QED
          BY <2>2, <4>1, <4>2
      <3>. QED
        BY <3>1, <3>2
    <2>. QED
      BY <2>2, <2>3, <2>4, SeqEqual DEF h
  <1>. QED
    BY <1>1, <1>4, <1>5

\* A list that has had its first m items replaced by `new`.
Replaced(cs, m, new) == new \o After(cs, m)

LEMMA ReplacedProperties ==
    ASSUME NEW S, NEW new \in Seq(S), NEW cs \in Seq(S), NEW m \in 0..Len(cs)
    PROVE  /\ Replaced(cs, m, new) \in Seq(S)
           /\ Len(new) \in Nat /\ Len(cs) \in Nat
           /\ Len(Replaced(cs, m, new)) = Len(new) + (Len(cs) - m)
           /\ \A k \in 1..Len(new) : Replaced(cs, m, new)[k] = new[k]
           /\ \A k \in 1..(Len(cs) - m) :
                 /\ Replaced(cs, m, new)[Len(new) + k] = cs[m + k]
                 /\ After(Replaced(cs, m, new), Len(new) + k) = After(cs, m + k)
           /\ After(Replaced(cs, m, new), Len(new)) = After(cs, m)
  <1>. DEFINE rest == After(cs, m)
              all == new \o rest
              n == Len(new)
              l == Len(cs) - m
  <1>a. /\ rest \in Seq(S) /\ Len(cs) \in Nat /\ Len(rest) = l
        /\ \A k \in 1..l : rest[k] = cs[m + k]
    BY AfterProperties
  <1>1. /\ rest \in Seq(S) /\ Len(cs) \in Nat /\ Len(rest) = l /\ l \in Nat
        /\ \A k \in 1..l : rest[k] = cs[m + k]
    BY <1>a
  <1>2. n \in Nat
    BY LenProperties
  <1>. HIDE DEF rest
  <1>b. /\ all \in Seq(S) /\ Len(all) = Len(new) + Len(rest)
        /\ \A i \in 1..(Len(new) + Len(rest)) :
              all[i] = IF i <= Len(new) THEN new[i] ELSE rest[i - Len(new)]
    BY <1>1, ConcatProperties
  <1>3. /\ all \in Seq(S) /\ Len(all) = n + l
        /\ \A i \in 1..(n + l) : all[i] = IF i <= n THEN new[i] ELSE rest[i - n]
    BY <1>1, <1>b
  <1>. HIDE DEF all
  <1>4. \A k \in 1..n : all[k] = new[k]
    <2>. TAKE k \in 1..n
    <2>1. k \in 1..(n + l) /\ k <= n
      BY <1>1, <1>2
    <2>. QED
      BY <1>3, <2>1
  <1>5. \A k \in 1..l : all[n + k] = rest[k]
    <2>. TAKE k \in 1..l
    <2>1. n + k \in 1..(n + l) /\ ~(n + k <= n) /\ (n + k) - n = k
      BY <1>1, <1>2
    <2>. QED
      BY <1>3, <2>1
  <1>6. \A k \in 0..l : After(all, n + k) = After(cs, m + k)
    <2>. TAKE k \in 0..l
    <2>. DEFINE a == n + k
                b == m + k
    <2>1. a \in 0..Len(all) /\ b \in 0..Len(cs) /\ Len(all) - a = l - k /\ Len(cs) - b = l - k
      BY <1>1, <1>2, <1>3
    <2>2. /\ After(all, a) \in Seq(S) /\ Len(After(all, a)) = l - k
          /\ \A i \in 1..(l - k) : After(all, a)[i] = all[a + i]
      <3>. HIDE DEF a
      <3>. QED
        BY <1>3, <2>1, AfterProperties, ZenonT(30)
    <2>3. /\ After(cs, b) \in Seq(S) /\ Len(After(cs, b)) = l - k
          /\ \A i \in 1..(l - k) : After(cs, b)[i] = cs[b + i]
      <3>. HIDE DEF b
      <3>. QED
        BY <2>1, AfterProperties
    <2>4. \A i \in 1..(l - k) : all[a + i] = cs[b + i]
      <3>. TAKE i \in 1..(l - k)
      <3>1. k + i \in 1..l /\ n + (k + i) = a + i /\ m + (k + i) = b + i
        BY <1>1, <1>2
      <3>. QED
        BY <1>1, <1>5, <3>1
    <2>. HIDE DEF a, b
    <2>5. \A i \in 1..Len(After(all, a)) : After(all, a)[i] = After(cs, b)[i]
      BY <2>2, <2>3, <2>4
    <2>6. After(all, a) = After(cs, b)
      BY <2>2, <2>3, <2>5, SeqEqual
    <2>. QED
      BY <2>6 DEF a, b
  <1>7. After(all, n) = rest
    <2>1. n + 0 = n /\ m + 0 = m /\ 0 \in 0..l
      BY <1>1, <1>2
    <2>. QED
      BY <1>6, <2>1 DEF rest
  <1>8. \A k \in 1..l : all[n + k] = cs[m + k] /\ After(all, n + k) = After(cs, m + k)
    BY <1>1, <1>5, <1>6
  <1>. QED
    BY <1>1, <1>2, <1>3, <1>4, <1>7, <1>8 DEF all, rest, Replaced

LEMMA Positions ==
    ASSUME NEW S, NEW new \in Seq(S), NEW cs \in Seq(S), NEW m \in 1..Len(cs),
           NEW all, all = Replaced(cs, m, new)
    PROVE  /\ all \in Seq(S) /\ After(cs, m) \in Seq(S)
           /\ \A k \in DOMAIN all :
                 \/ k \in DOMAIN new /\ all[k] = new[k]
                 \/ \E j \in DOMAIN cs :
                       j > 1 /\ all[k] = cs[j] /\ After(all, k) = After(cs, j)
           /\ After(all, Len(new)) = After(cs, m)
  <1>1. m \in 0..Len(cs) /\ Len(cs) \in Nat /\ DOMAIN cs = 1..Len(cs)
    BY LenProperties
  <1>2. /\ all \in Seq(S) /\ Len(new) \in Nat /\ Len(all) = Len(new) + (Len(cs) - m)
        /\ \A k \in 1..Len(new) : all[k] = new[k]
        /\ \A k \in 1..(Len(cs) - m) : /\ all[Len(new) + k] = cs[m + k]
                                       /\ After(all, Len(new) + k) = After(cs, m + k)
        /\ After(all, Len(new)) = After(cs, m)
    <2>1. /\ Replaced(cs, m, new) \in Seq(S)
          /\ Len(new) \in Nat /\ Len(cs) \in Nat
          /\ Len(Replaced(cs, m, new)) = Len(new) + (Len(cs) - m)
          /\ \A k \in 1..Len(new) : Replaced(cs, m, new)[k] = new[k]
          /\ \A k \in 1..(Len(cs) - m) :
                /\ Replaced(cs, m, new)[Len(new) + k] = cs[m + k]
                /\ After(Replaced(cs, m, new), Len(new) + k) = After(cs, m + k)
          /\ After(Replaced(cs, m, new), Len(new)) = After(cs, m)
      BY <1>1, ReplacedProperties, ZenonT(30)
    <2>. QED
      BY <2>1
  <1>. DEFINE n == Len(new)
              l == Len(cs) - m
  <1>3. /\ n \in Nat /\ l \in Nat /\ DOMAIN all = 1..(n + l) /\ DOMAIN new = 1..n
        /\ \A k \in 1..n : all[k] = new[k]
        /\ \A k \in 1..l : all[n + k] = cs[m + k] /\ After(all, n + k) = After(cs, m + k)
    BY <1>1, <1>2, LenProperties
  <1>4. After(cs, m) \in Seq(S)
    BY <1>1, AfterProperties
  <1>5. ASSUME NEW k \in DOMAIN all
        PROVE  \/ k \in DOMAIN new /\ all[k] = new[k]
               \/ \E j \in DOMAIN cs :
                     j > 1 /\ all[k] = cs[j] /\ After(all, k) = After(cs, j)
    <2>1. CASE k <= n
      BY <1>3, <2>1
    <2>2. CASE n < k
      <3>. DEFINE i == k - n
                  j == m + i
      <3>1. i \in 1..l /\ n + i = k
        BY <1>3, <2>2
      <3>2. j \in DOMAIN cs /\ j > 1
        BY <1>1, <3>1
      <3>3. all[n + i] = cs[m + i] /\ After(all, n + i) = After(cs, m + i)
        BY <1>3, <3>1
      <3>. QED
        BY <3>1, <3>2, <3>3
    <2>. QED
      BY <1>3, <2>1, <2>2
  <1>. QED
    BY <1>2, <1>4, <1>5

-----------------------------------------------------------------------------
(* What the state is made of *)

\* The polls' messages make calls in C.
MessageIn(C) == [order: Nat, call: C]
PollIn(C) ==
    [status: {"in_progress", "passed", "rejected", "executed", "failed"},
     execute_data: Seq(MessageIn(C)), migrate_data: Seq(MessageIn(C))]

Place == [poll: Polls, list: {"execute", "migrate"}, place: Nat]
OwnRequest == [op: {"execute_poll", "execute_poll_msgs"}, poll: Polls]

\* Calls carried out, asked for by a message, sent by a user or by execute_poll.
Done == [tag: {"call"}, sender: {Gov}, call: {ExternalCall}, of: Place]
Asked(C) == [tag: {"call"}, sender: {Gov}, call: C, of: Place]
Sent == [tag: {"call"}, sender: Users \cup {Gov}, call: OwnRequest, of: {NONE}]

StoreIn(C) ==
    [poll: [Polls -> PollIn(C)], tmp_poll_id: Polls \cup {NONE}, effects: Seq(Done)]
CatchIn(C) == [tag: {"catch"}, poll: Polls, saved: StoreIn(C)]
Reply == [tag: {"reply"}, poll: Polls]
Item(C) == Asked(C) \cup Sent \cup CatchIn(C) \cup Reply

TypeIn(C) ==
    /\ store \in StoreIn(C) /\ before \in StoreIn(C)
    /\ expired \in SUBSET Polls
    /\ calls \in Seq(Item(C))

LEMMA ItemByTag ==
    ASSUME NEW C, C \subseteq Request, NEW x \in Item(C)
    PROVE  /\ x.tag \in {"call", "catch", "reply"}
           /\ x.tag = "call" =>
                 /\ x \in Asked(C) \cup Sent /\ x.call \in Request
                 /\ x.call.op = "external" => x \in Done
                 /\ x.call.op # "external" => x.call.poll \in Polls
                 /\ x.call.op = "execute_poll_msgs" /\ x.call \notin C => x \in Sent
           /\ x.tag = "catch" => x.poll \in Polls /\ x.saved \in StoreIn(C)
           /\ x.tag = "reply" => x.poll \in Polls
  <1>1. CASE x \in Asked(C)
    BY <1>1 DEF Asked, Done, Request, ExternalCall
  <1>2. CASE x \in Sent
    BY <1>2 DEF Sent, OwnRequest, Request
  <1>3. CASE x \in CatchIn(C)
    BY <1>3 DEF CatchIn
  <1>4. CASE x \in Reply
    BY <1>4 DEF Reply
  <1>. QED
    BY <1>1, <1>2, <1>3, <1>4 DEF Item

LEMMA FirstIs ==
    ASSUME NEW C, C \subseteq Request, TypeIn(C), calls # <<>>
    PROVE  /\ First = calls[1] /\ First \in Item(C) /\ Len(calls) \in Nat \ {0}
           /\ 1 \in DOMAIN calls /\ DOMAIN calls = 1..Len(calls)
           /\ Tail(calls) \in Seq(Item(C)) /\ Tail(calls) = After(calls, 1)
           /\ calls = <<First>> \o Tail(calls)
  <1>1. calls \in Seq(Item(C))
    BY DEF TypeIn
  <1>. QED
    BY <1>1, TailIsAfter, LenProperties DEF First

\* A failure is caught by a catch that comes before every other.
LEMMA NearestCatchIs ==
    ASSUME NEW C, C \subseteq Request, TypeIn(C), Catches # {}
    PROVE  /\ NearestCatch \in DOMAIN calls /\ NearestCatch \in 1..Len(calls)
           /\ calls[NearestCatch].tag = "catch"
           /\ calls[NearestCatch].poll \in Polls /\ calls[NearestCatch].saved \in StoreIn(C)
  <1>1. /\ calls \in Seq(Item(C)) /\ Len(calls) \in Nat /\ DOMAIN calls = 1..Len(calls)
        /\ \A k \in 1..Len(calls) : calls[k] \in Item(C)
    BY LenProperties, ElementOfSeq DEF TypeIn
  <1>2. Catches \in SUBSET Nat /\ IsFiniteSet(Catches)
    <2>. DEFINE I == 1..Len(calls)
    <2>2. IsFiniteSet(I)
      BY <1>1, FS_Interval
    <2>1. IsFiniteSet(I) /\ I \in SUBSET Nat /\ Catches \in SUBSET I
      BY <1>1, <2>2 DEF Catches
    <2>. HIDE DEF I
    <2>. QED
      BY <2>1, FS_Subset
  <1>3. \E k \in Catches : \A j \in Catches : k <= j
    <2>1. PICK n, order : n \in Nat /\ Lists(order, n, Catches, Earlier(Catches))
      BY <1>2, FilteredProperties
    <2>2. /\ \A r \in 1..n : order[r] \in Catches
          /\ \A r, q \in 1..n : r < q => order[r] < order[q]
          /\ \A x \in Catches : \E r \in 1..n : order[r] = x
      BY <2>1 DEF Lists, Earlier
    <2>3. 1 \in 1..n
      BY <2>1, <2>2
    <2>4. \A j \in Catches : order[1] <= j
      <3>. TAKE j \in Catches
      <3>1. PICK r \in 1..n : order[r] = j
        BY <2>2
      <3>2. r = 1 \/ 1 < r
        OBVIOUS
      <3>3. order[1] \in Nat /\ order[r] \in Nat
        BY <1>2, <2>2, <2>3
      <3>. QED
        BY <2>2, <2>3, <3>1, <3>2, <3>3
    <2>. QED
      BY <2>2, <2>3, <2>4
  <1>4. NearestCatch \in Catches
    BY <1>3 DEF NearestCatch
  <1>5. NearestCatch \in 1..Len(calls) /\ calls[NearestCatch].tag = "catch"
    BY <1>4 DEF Catches
  <1>. QED
    BY <1>1, <1>5, ItemByTag

-----------------------------------------------------------------------------
(* The messages of a poll, in their order *)

LEMMA SortedProperties ==
    ASSUME NEW C, NEW msgs \in Seq(MessageIn(C))
    PROVE  /\ Sorted(msgs) \in Seq(DOMAIN msgs) /\ DOMAIN msgs \subseteq Nat
           /\ \A i \in DOMAIN msgs : msgs[i] \in MessageIn(C)
           /\ \A j, k \in DOMAIN Sorted(msgs) :
                 j < k => Sooner(msgs, Sorted(msgs)[j], Sorted(msgs)[k])
           /\ \A i \in DOMAIN msgs : \E k \in DOMAIN Sorted(msgs) : Sorted(msgs)[k] = i
  <1>. DEFINE D == DOMAIN msgs
              before0 == SortsBefore(msgs)
              place == Sorted(msgs)
  <1>1. /\ Len(msgs) \in Nat /\ D = 1..Len(msgs) /\ D \subseteq Nat
        /\ \A i \in D : msgs[i] \in MessageIn(C) /\ msgs[i].order \in Nat
    <2>1. Len(msgs) \in Nat /\ D = 1..Len(msgs)
      BY LenProperties
    <2>2. \A i \in D : msgs[i] \in MessageIn(C)
      BY <2>1, ElementOfSeq
    <2>. QED
      BY <2>1, <2>2 DEF MessageIn
  <1>2. IsFiniteSet(D)
    BY <1>1, FS_Interval
  <1>3. \A i, j \in D : <<i, j>> \in before0 <=> Sooner(msgs, i, j)
    BY DEF SortsBefore, Sooner
  <1>4. place = Arranged(D, before0)
    BY DEF Sorted
  <1>. HIDE DEF D, before0, place
  <1>5. TotalOrder(before0, D)
    <2>1. \A i \in D : ~Sooner(msgs, i, i)
      BY <1>1 DEF Sooner
    <2>2. \A i, j \in D : i # j => Sooner(msgs, i, j) \/ Sooner(msgs, j, i)
      BY <1>1 DEF Sooner
    <2>3. \A i, j, k \in D : Sooner(msgs, i, j) /\ Sooner(msgs, j, k) => Sooner(msgs, i, k)
      BY <1>1 DEF Sooner
    <2>. QED
      BY <1>3, <2>1, <2>2, <2>3 DEF TotalOrder
  <1>6. Lists(place, Cardinality(D), D, before0)
    BY <1>2, <1>4, <1>5, ArrangedProperties
  <1>. DEFINE n == Cardinality(D)
  <1>. HIDE DEF n
  <1>7. /\ n \in Nat /\ place \in [1..n -> D] /\ DOMAIN place = 1..n
        /\ \A r, q \in 1..n : r < q => <<place[r], place[q]>> \in before0
        /\ \A x \in D : \E r \in 1..n : place[r] = x
    BY <1>6 DEF Lists, n
  <1>8. place \in Seq(D)
    BY <1>7
  <1>9. \A j, k \in DOMAIN place : j < k => Sooner(msgs, place[j], place[k])
    BY <1>3, <1>7
  <1>. QED
    BY <1>1, <1>7, <1>8, <1>9 DEF D, place

LEMMA CallsForProperties ==
    ASSUME NEW C, NEW id \in Polls, NEW list \in {"execute", "migrate"},
           NEW msgs \in Seq(MessageIn(C))
    PROVE  /\ CallsFor(id, list, msgs) \in Seq(Asked(C))
           /\ \A k \in DOMAIN CallsFor(id, list, msgs) :
                 LET c == CallsFor(id, list, msgs)[k]
                 IN  /\ c.of.poll = id /\ c.of.list = list
                     /\ c.of.place \in DOMAIN msgs /\ c.call = msgs[c.of.place].call
           /\ \A j, k \in DOMAIN CallsFor(id, list, msgs) :
                 j < k => Sooner(msgs, CallsFor(id, list, msgs)[j].of.place,
                                       CallsFor(id, list, msgs)[k].of.place)
           /\ \A i \in DOMAIN msgs : \E k \in DOMAIN CallsFor(id, list, msgs) :
                 CallsFor(id, list, msgs)[k].of = MessageAt(id, list, i)
  <1>. DEFINE place == Sorted(msgs)
              cs == CallsFor(id, list, msgs)
  <1>1. /\ place \in Seq(DOMAIN msgs) /\ DOMAIN msgs \subseteq Nat
        /\ \A i \in DOMAIN msgs : msgs[i] \in MessageIn(C)
        /\ \A j, k \in DOMAIN place : j < k => Sooner(msgs, place[j], place[k])
        /\ \A i \in DOMAIN msgs : \E k \in DOMAIN place : place[k] = i
    BY SortedProperties
  <1>2. cs = [k \in DOMAIN place |->
                CallOf(Gov, msgs[place[k]].call, MessageAt(id, list, place[k]))]
    BY DEF CallsFor
  <1>. HIDE DEF place, cs
  <1>3. /\ Len(place) \in Nat /\ DOMAIN place = 1..Len(place) /\ DOMAIN cs = DOMAIN place
        /\ \A k \in DOMAIN place : place[k] \in DOMAIN msgs /\ place[k] \in Nat
    BY <1>1, <1>2, LenProperties, ElementOfSeq
  <1>4. \A k \in DOMAIN cs :
           /\ cs[k] = CallOf(Gov, msgs[place[k]].call, MessageAt(id, list, place[k]))
           /\ cs[k] \in Asked(C)
           /\ cs[k].of = MessageAt(id, list, place[k])
           /\ cs[k].of.poll = id /\ cs[k].of.list = list /\ cs[k].of.place = place[k]
           /\ cs[k].call = msgs[place[k]].call
    <2>. TAKE k \in DOMAIN cs
    <2>1. cs[k] = CallOf(Gov, msgs[place[k]].call, MessageAt(id, list, place[k]))
      BY <1>2, <1>3
    <2>2. MessageAt(id, list, place[k]) \in Place /\ msgs[place[k]].call \in C
      BY <1>1, <1>3 DEF MessageAt, Place, MessageIn
    <2>. QED
      BY <2>1, <2>2 DEF CallOf, Asked, MessageAt
  <1>5. cs \in Seq(Asked(C))
    BY <1>2, <1>3, <1>4
  <1>6. \A k \in DOMAIN cs : /\ cs[k].of.poll = id /\ cs[k].of.list = list
                             /\ cs[k].of.place \in DOMAIN msgs
                             /\ cs[k].call = msgs[cs[k].of.place].call
    BY <1>3, <1>4
  <1>7. \A j, k \in DOMAIN cs : j < k => Sooner(msgs, cs[j].of.place, cs[k].of.place)
    BY <1>1, <1>3, <1>4
  <1>8. \A i \in DOMAIN msgs : \E k \in DOMAIN cs : cs[k].of = MessageAt(id, list, i)
    BY <1>1, <1>3, <1>4
  <1>. QED
    BY <1>5, <1>6, <1>7, <1>8 DEF cs

\* The calls of a poll are those of its messages, each once, in their order.
LEMMA CallsOfProperties ==
    ASSUME NEW C, NEW id \in Polls, NEW p \in PollIn(C)
    PROVE  /\ CallsOf(id, p) \in Seq(Asked(C))
           /\ \A k \in DOMAIN CallsOf(id, p) :
                 /\ CallsOf(id, p)[k].of.poll = id
                 /\ CallsOf(id, p)[k].call = ExternalCall =>
                       CallsOf(id, p)[k].of \in Externals(id, p)
           /\ \A j, k \in DOMAIN CallsOf(id, p) :
                 j < k => Precedes(p, CallsOf(id, p)[j].of, CallsOf(id, p)[k].of)
           /\ \A e \in Externals(id, p) : \E k \in DOMAIN CallsOf(id, p) :
                 CallsOf(id, p)[k].of = e /\ CallsOf(id, p)[k].call = ExternalCall
  <1>. DEFINE x == p.execute_data
              y == p.migrate_data
              cx == CallsFor(id, "execute", x)
              cy == CallsFor(id, "migrate", y)
              cs == CallsOf(id, p)
  <1>0. x \in Seq(MessageIn(C)) /\ y \in Seq(MessageIn(C)) /\ cs = cx \o cy
    BY DEF PollIn, CallsOf
  <1>. HIDE DEF x, y
  <1>1. /\ cx \in Seq(Asked(C))
        /\ \A k \in DOMAIN cx : /\ cx[k].of.poll = id /\ cx[k].of.list = "execute"
                                /\ cx[k].of.place \in DOMAIN x
                                /\ cx[k].call = x[cx[k].of.place].call
        /\ \A j, k \in DOMAIN cx : j < k => Sooner(x, cx[j].of.place, cx[k].of.place)
        /\ \A i \in DOMAIN x : \E k \in DOMAIN cx : cx[k].of = MessageAt(id, "execute", i)
    BY <1>0, CallsForProperties
  <1>2. /\ cy \in Seq(Asked(C))
        /\ \A k \in DOMAIN cy : /\ cy[k].of.poll = id /\ cy[k].of.list = "migrate"
                                /\ cy[k].of.place \in DOMAIN y
                                /\ cy[k].call = y[cy[k].of.place].call
        /\ \A j, k \in DOMAIN cy : j < k => Sooner(y, cy[j].of.place, cy[k].of.place)
        /\ \A i \in DOMAIN y : \E k \in DOMAIN cy : cy[k].of = MessageAt(id, "migrate", i)
    BY <1>0, CallsForProperties
  <1>. HIDE DEF cx, cy, cs
  <1>. DEFINE n == Len(cx)
              l == Len(cy)
  <1>3. /\ n \in Nat /\ l \in Nat /\ DOMAIN cx = 1..n /\ DOMAIN cy = 1..l
        /\ cs \in Seq(Asked(C)) /\ DOMAIN cs = 1..(n + l)
        /\ \A k \in 1..(n + l) : cs[k] = IF k <= n THEN cx[k] ELSE cy[k - n]
    BY <1>0, <1>1, <1>2, LenProperties, ConcatProperties
  <1>. HIDE DEF n, l
  <1>4. \A k \in DOMAIN cs : \/ k <= n /\ k \in DOMAIN cx /\ cs[k] = cx[k]
                             \/ n < k /\ k - n \in DOMAIN cy /\ cs[k] = cy[k - n]
    BY <1>3
  <1>5. /\ \A k \in DOMAIN cx : k \in DOMAIN cs /\ cs[k] = cx[k]
        /\ \A k \in DOMAIN cy : n + k \in DOMAIN cs /\ cs[n + k] = cy[k]
    <2>1. \A k \in DOMAIN cx : k \in 1..(n + l) /\ k <= n
      BY <1>3
    <2>2. \A k \in DOMAIN cy : n + k \in 1..(n + l) /\ ~(n + k <= n) /\ (n + k) - n = k
      BY <1>3
    <2>. QED
      BY <1>3, <2>1, <2>2
  <1>6. \A k \in DOMAIN cs : cs[k] \in Asked(C) /\ cs[k].of \in Place
    <2>1. \A k \in DOMAIN cs : cs[k] \in Asked(C)
      BY <1>3
    <2>. QED
      BY <2>1 DEF Asked
  <1>7. \A k \in DOMAIN cs : /\ cs[k].of.poll = id
                             /\ cs[k].call = ExternalCall => cs[k].of \in Externals(id, p)
    <2>. TAKE k \in DOMAIN cs
    <2>1. cs[k].of = MessageAt(cs[k].of.poll, cs[k].of.list, cs[k].of.place)
      BY <1>6 DEF Place, MessageAt
    <2>2. CASE k \in DOMAIN cx /\ cs[k] = cx[k]
      BY <1>1, <2>1, <2>2, SMTT(30) DEF Externals, ExternalsIn, x
    <2>3. CASE k - n \in DOMAIN cy /\ cs[k] = cy[k - n]
      BY <1>2, <2>1, <2>3 DEF Externals, ExternalsIn, y
    <2>. QED
      BY <1>4, <2>2, <2>3
  <1>8. \A j, k \in DOMAIN cs : j < k => Precedes(p, cs[j].of, cs[k].of)
    <2>. SUFFICES ASSUME NEW j \in DOMAIN cs, NEW k \in DOMAIN cs, j < k
                  PROVE  Precedes(p, cs[j].of, cs[k].of)
      OBVIOUS
    <2>1. CASE k \in DOMAIN cx /\ cs[k] = cx[k]
      <3>1. j \in DOMAIN cx /\ cs[j] = cx[j]
        BY <1>3, <2>1
      <3>. QED
        BY <1>1, <2>1, <3>1 DEF Precedes, x
    <2>2. CASE n < k /\ k - n \in DOMAIN cy /\ cs[k] = cy[k - n]
      <3>1. CASE j \in DOMAIN cx /\ cs[j] = cx[j]
        BY <1>1, <1>2, <2>2, <3>1 DEF Precedes
      <3>2. CASE j - n \in DOMAIN cy /\ cs[j] = cy[j - n]
        <4>1. j - n < k - n
          BY <1>3
        <4>2. Sooner(y, cs[j].of.place, cs[k].of.place)
          BY <1>2, <2>2, <3>2, <4>1
        <4>. QED
          BY <1>2, <2>2, <3>2, <4>2 DEF Precedes, y
      <3>. QED
        BY <1>4, <3>1, <3>2
    <2>. QED
      BY <1>4, <2>1, <2>2
  <1>9. \A e \in Externals(id, p) :
           \E k \in DOMAIN cs : cs[k].of = e /\ cs[k].call = ExternalCall
    <2>. TAKE e \in Externals(id, p)
    <2>1. CASE e \in ExternalsIn(id, "execute", x)
      <3>1. PICK i \in DOMAIN x : x[i].call = ExternalCall /\ e = MessageAt(id, "execute", i)
        BY <2>1 DEF ExternalsIn
      <3>2. PICK k \in DOMAIN cx : cx[k].of = MessageAt(id, "execute", i)
        BY <1>1
      <3>3. cx[k].of.place = i
        BY <3>2 DEF MessageAt
      <3>. QED
        BY <1>1, <1>5, <3>1, <3>2, <3>3
    <2>2. CASE e \in ExternalsIn(id, "migrate", y)
      <3>1. PICK i \in DOMAIN y : y[i].call = ExternalCall /\ e = MessageAt(id, "migrate", i)
        BY <2>2 DEF ExternalsIn
      <3>2. PICK k \in DOMAIN cy : cy[k].of = MessageAt(id, "migrate", i)
        BY <1>2
      <3>3. cy[k].of.place = i
        BY <3>2 DEF MessageAt
      <3>. QED
        BY <1>2, <1>5, <3>1, <3>2, <3>3
    <2>. QED
      BY <2>1, <2>2 DEF Externals, x, y
  <1>. QED
    BY <1>3, <1>7, <1>8, <1>9 DEF cs

-----------------------------------------------------------------------------
(* Types *)

\* Initially the messages of the polls make calls in C.
InitIn(C) == C \subseteq Request /\ \A ps \in InitPolls : ps \in [Polls -> PollIn(C)]

LEMMA TypeInit == ASSUME NEW C, InitIn(C), Init PROVE TypeIn(C)
  BY EmptySeq DEF InitIn, Init, TypeIn, StoreIn

LEMMA SeqWiden ==
    ASSUME NEW S, NEW T, S \subseteq T, NEW s \in Seq(S)
    PROVE  s \in Seq(T)
  OBVIOUS

\* The next calls are `new` and what was left after the first m, m at least 1.
Follows(C, new, m) ==
    new \in Seq(Item(C)) /\ m \in 1..Len(calls) /\ calls' = Replaced(calls, m, new)

LEMMA FollowsProperties ==
    ASSUME NEW C, C \subseteq Request, TypeIn(C), NEW new, NEW m, Follows(C, new, m)
    PROVE  /\ calls' \in Seq(Item(C))
           /\ After(calls, m) \in Seq(Item(C))
           /\ \A k \in DOMAIN calls' :
                 \/ k \in DOMAIN new /\ calls'[k] = new[k]
                 \/ \E j \in DOMAIN calls :
                       j > 1 /\ calls'[k] = calls[j] /\ After(calls', k) = After(calls, j)
           /\ After(calls', Len(new)) = After(calls, m)
  <1>1. /\ calls \in Seq(Item(C)) /\ new \in Seq(Item(C)) /\ m \in 1..Len(calls)
        /\ calls' = Replaced(calls, m, new)
    BY DEF TypeIn, Follows
  <1>. QED
    BY <1>1, Positions

LEMMA TailFollows ==
    ASSUME NEW C, C \subseteq Request, TypeIn(C), calls # <<>>, calls' = Tail(calls)
    PROVE  Follows(C, <<>>, 1)
  <1>1. Tail(calls) \in Seq(Item(C)) /\ Tail(calls) = After(calls, 1) /\ 1 \in 1..Len(calls)
    BY FirstIs
  <1>2. <<>> \in Seq(Item(C)) /\ <<>> \o Tail(calls) = Tail(calls)
    BY <1>1, EmptySeq, ConcatEmptySeq
  <1>. QED
    BY <1>1, <1>2 DEF Follows, Replaced

\* What each step does with the calls and the store.
LEMMA BeginIs ==
    ASSUME NEW C, C \subseteq Request, TypeIn(C),
           NEW user \in Users, NEW c \in OwnRequest, Begin(user, c)
    PROVE  /\ calls = <<>> /\ calls' = <<CallOf(user, c, NONE)>>
           /\ CallOf(user, c, NONE) \in Item(C) /\ CallOf(user, c, NONE) \in Sent
           /\ before' = store /\ store' = store
  <1>1. CallOf(user, c, NONE) \in Sent
    BY DEF CallOf, Sent
  <1>. QED
    BY <1>1 DEF Begin, Idle, Item

ExecutePollNew(id) ==
    << CallOf(Gov, ExecutePollMsgsCall(id), NONE), CatchOf(id, TmpStored(id)) >>

LEMMA ExecutePollIs ==
    ASSUME NEW C, C \subseteq Request, TypeIn(C), ExecutePoll
    PROVE  \E id \in Polls :
              /\ First = calls[1] /\ First \in Item(C)
              /\ First.tag = "call" /\ First.call.op # "external" /\ calls # <<>>
              /\ Status(id) = "passed" /\ store' = TmpStored(id)
              /\ TmpStored(id) \in StoreIn(C)
              /\ Follows(C, ExecutePollNew(id), 1)
  <1>. DEFINE id == First.call.poll
  <1>1. calls # <<>> /\ First.tag = "call" /\ First.call.op = "execute_poll"
    BY DEF ExecutePoll, Calling, Running
  <1>2. /\ First = calls[1] /\ First \in Item(C) /\ id \in Polls
        /\ Tail(calls) = After(calls, 1) /\ 1 \in 1..Len(calls)
    BY <1>1, FirstIs, ItemByTag
  <1>3. TmpStored(id) \in StoreIn(C)
    BY <1>2 DEF TmpStored, StoreIn, TypeIn
  <1>4. CallOf(Gov, ExecutePollMsgsCall(id), NONE) \in Item(C)
    BY <1>2 DEF CallOf, ExecutePollMsgsCall, Item, Sent, OwnRequest
  <1>5. CatchOf(id, TmpStored(id)) \in Item(C)
    BY <1>2, <1>3 DEF CatchOf, Item, CatchIn
  <1>6. ExecutePollNew(id) \in Seq(Item(C))
    BY <1>4, <1>5 DEF ExecutePollNew
  <1>7. /\ MayExecute(id) /\ store' = TmpStored(id)
        /\ calls' = ExecutePollNew(id) \o Tail(calls)
    BY DEF ExecutePoll, ExecutePollNew
  <1>. HIDE DEF id
  <1>8. Follows(C, ExecutePollNew(id), 1)
    BY <1>2, <1>6, <1>7 DEF Follows, Replaced
  <1>. QED
    BY <1>1, <1>2, <1>3, <1>7, <1>8 DEF MayExecute

LEMMA ExecutePollMessagesIs ==
    ASSUME NEW C, C \subseteq Request, TypeIn(C), ExecutePollMessages
    PROVE  \E id \in Polls :
              /\ First = calls[1] /\ First \in Item(C) /\ calls # <<>>
              /\ First.tag = "call" /\ First.call.op = "execute_poll_msgs"
              /\ First.sender = Gov /\ First.call.poll = id
              /\ store.poll[id] \in PollIn(C)
              /\ store' = MarkedExecuted(id) /\ MarkedExecuted(id) \in StoreIn(C)
              /\ Follows(C, CallsOf(id, store.poll[id]), 1)
  <1>. DEFINE id == First.call.poll
              new == CallsOf(id, store.poll[id])
  <1>1. calls # <<>> /\ First.tag = "call" /\ First.call.op = "execute_poll_msgs"
    BY DEF ExecutePollMessages, Calling, Running
  <1>2. /\ First = calls[1] /\ First \in Item(C) /\ id \in Polls
        /\ Tail(calls) = After(calls, 1) /\ 1 \in 1..Len(calls)
    BY <1>1, FirstIs, ItemByTag
  <1>3. store.poll[id] \in PollIn(C)
    BY <1>2 DEF StoreIn, TypeIn
  <1>4. MarkedExecuted(id) \in StoreIn(C)
    BY <1>2, <1>3 DEF MarkedExecuted, StoreIn, PollIn, TypeIn
  <1>5. new \in Seq(Asked(C))
    BY <1>2, <1>3, CallsOfProperties
  <1>6. new \in Seq(Item(C))
    BY <1>5, SeqWiden DEF Item
  <1>7. /\ MayExecuteMessages(First.sender) /\ store' = MarkedExecuted(id)
        /\ calls' = new \o Tail(calls)
    BY DEF ExecutePollMessages
  <1>. HIDE DEF new
  <1>8. Follows(C, new, 1)
    BY <1>2, <1>6, <1>7 DEF Follows, Replaced
  <1>. QED
    BY <1>1, <1>2, <1>3, <1>4, <1>7, <1>8 DEF MayExecuteMessages, new

LEMMA ExternalSucceedsIs ==
    ASSUME NEW C, C \subseteq Request, TypeIn(C), ExternalSucceeds
    PROVE  /\ First = calls[1] /\ First \in Done /\ First \in Item(C) /\ calls # <<>>
           /\ store' = [store EXCEPT !.effects = Append(store.effects, First)]
           /\ store' \in StoreIn(C)
           /\ calls' = Tail(calls) /\ Follows(C, <<>>, 1)
  <1>1. calls # <<>> /\ First.tag = "call" /\ First.call.op = "external"
    BY DEF ExternalSucceeds, Calling, Running
  <1>2. First \in Done /\ First = calls[1] /\ First \in Item(C)
    BY <1>1, FirstIs, ItemByTag
  <1>3. store' = [store EXCEPT !.effects = Append(store.effects, First)] /\ calls' = Tail(calls)
    BY DEF ExternalSucceeds
  <1>4. Append(store.effects, First) \in Seq(Done)
    BY <1>2, AppendProperties DEF TypeIn, StoreIn
  <1>5. store' \in StoreIn(C)
    BY <1>3, <1>4 DEF TypeIn, StoreIn
  <1>. QED
    BY <1>1, <1>2, <1>3, <1>5, TailFollows

LEMMA CaughtIs ==
    ASSUME NEW C, C \subseteq Request, TypeIn(C), Caught
    PROVE  \E k \in DOMAIN calls :
              /\ calls[k].tag = "catch" /\ calls[k].poll \in Polls
              /\ store' = calls[k].saved /\ calls[k].saved \in StoreIn(C)
              /\ Follows(C, <<ReplyOf(calls[k].poll)>>, k)
  <1>. DEFINE k == NearestCatch
              new == <<ReplyOf(calls[k].poll)>>
  <1>1. Catches # {} /\ store' = calls[k].saved /\ calls' = new \o After(calls, k)
    BY DEF Caught, Restored, After
  <1>2. /\ k \in DOMAIN calls /\ k \in 1..Len(calls) /\ calls[k].tag = "catch"
        /\ calls[k].poll \in Polls /\ calls[k].saved \in StoreIn(C)
    BY <1>1, NearestCatchIs
  <1>3. new \in Seq(Item(C))
    BY <1>2 DEF ReplyOf, Item, Reply
  <1>. HIDE DEF new, k
  <1>4. Follows(C, new, k)
    BY <1>1, <1>2, <1>3 DEF Follows, Replaced
  <1>. QED
    BY <1>1, <1>2, <1>4 DEF new

LEMMA SubmessageSucceedsIs ==
    ASSUME NEW C, C \subseteq Request, TypeIn(C), SubmessageSucceeds
    PROVE  /\ First = calls[1] /\ First \in Item(C) /\ calls # <<>> /\ First.tag = "catch"
           /\ store' = store /\ Follows(C, <<>>, 1)
  <1>1. calls # <<>> /\ First.tag = "catch" /\ calls' = Tail(calls) /\ store' = store
    BY DEF SubmessageSucceeds, Running
  <1>. QED
    BY <1>1, FirstIs, TailFollows

LEMMA FailPollIs ==
    ASSUME NEW C, C \subseteq Request, TypeIn(C), FailPoll
    PROVE  /\ First = calls[1] /\ First \in Item(C) /\ calls # <<>> /\ First.tag = "reply"
           /\ store' = [store EXCEPT !.poll[store.tmp_poll_id].status = "failed"]
           /\ store' \in StoreIn(C) /\ Follows(C, <<>>, 1)
  <1>. DEFINE id == store.tmp_poll_id
  <1>1. /\ calls # <<>> /\ First.tag = "reply" /\ calls' = Tail(calls)
        /\ store' = [store EXCEPT !.poll[id].status = "failed"]
    BY DEF FailPoll, Running
  <1>. HIDE DEF id
  <1>2. store \in StoreIn(C) /\ store.poll \in [Polls -> PollIn(C)]
    BY DEF StoreIn, TypeIn
  <1>3. \A i \in Polls : [store.poll[i] EXCEPT !.status = "failed"] \in PollIn(C)
    BY <1>2 DEF PollIn
  <1>4. store' \in StoreIn(C)
    BY <1>1, <1>2, <1>3 DEF StoreIn
  <1>. QED
    BY <1>1, <1>4, FirstIs, TailFollows DEF id

LEMMA OwnRequests ==
    ASSUME NEW id \in Polls
    PROVE  ExecutePollCall(id) \in OwnRequest /\ ExecutePollMsgsCall(id) \in OwnRequest
  BY DEF ExecutePollCall, ExecutePollMsgsCall, OwnRequest

LEMMA TypeNext ==
    ASSUME NEW C, C \subseteq Request, TypeIn(C), [Next]_vars
    PROVE  TypeIn(C)'
  <1>1. ASSUME NEW new, NEW m, Follows(C, new, m), store' \in StoreIn(C),
               UNCHANGED <<expired, before>>
        PROVE  TypeIn(C)'
    BY <1>1, FollowsProperties DEF TypeIn
  <1>2. store \in StoreIn(C)
    BY DEF TypeIn
  <1>3. CASE UNCHANGED vars
    BY <1>3 DEF TypeIn, vars
  <1>4. ASSUME NEW user \in Users, NEW c \in OwnRequest, Begin(user, c)
        PROVE  TypeIn(C)'
    BY <1>4, BeginIs DEF Begin, TypeIn
  <1>5. ASSUME NEW id \in Polls, TimelockExpires(id)
        PROVE  TypeIn(C)'
    BY <1>5 DEF TimelockExpires, TypeIn
  <1>6. CASE ExecutePoll
    BY <1>1, <1>6, ExecutePollIs DEF ExecutePoll
  <1>7. CASE ExecutePollMessages
    BY <1>1, <1>7, ExecutePollMessagesIs DEF ExecutePollMessages
  <1>8. CASE ExternalSucceeds
    BY <1>1, <1>8, ExternalSucceedsIs DEF ExternalSucceeds
  <1>9. CASE Caught
    BY <1>1, <1>9, CaughtIs DEF Caught
  <1>10. CASE Abort
    BY <1>10, EmptySeq DEF Abort, TypeIn
  <1>11. CASE SubmessageSucceeds
    BY <1>1, <1>2, <1>11, SubmessageSucceedsIs DEF SubmessageSucceeds
  <1>12. CASE FailPoll
    BY <1>1, <1>12, FailPollIs DEF FailPoll
  <1>. QED
    BY <1>3, <1>4, <1>5, <1>6, <1>7, <1>8, <1>9, <1>10, <1>11, <1>12, OwnRequests
       DEF Next, Step, Uncaught, OutOfGas

\* The polls' messages make requests, if nothing else is known of them.
LEMMA AllRequests == InitIn(Request)
  <1>1. MessageIn(Request) = MessageType
    BY DEF MessageIn, MessageType
  <1>2. PollIn(Request) = PollType
    BY <1>1 DEF PollIn, PollType
  <1>. QED
    BY <1>2, InitPollsAssumption DEF InitIn

-----------------------------------------------------------------------------
(* A reply fails the right poll *)

ReadyToFail(s, id) == s.tmp_poll_id = id /\ s.poll[id].status = "passed"

\* Whatever a catch restores, the poll of the catch is the one to fail there, and
\* a reply comes straight after such a restoration.
Guarded ==
    \A k \in DOMAIN calls :
        /\ calls[k].tag = "catch" => ReadyToFail(calls[k].saved, calls[k].poll)
        /\ calls[k].tag = "reply" => k = 1 /\ ReadyToFail(store, calls[k].poll)

LEMMA GuardedFollows ==
    ASSUME NEW C, C \subseteq Request, TypeIn(C), Guarded,
           NEW new, NEW m, Follows(C, new, m),
           \A k \in DOMAIN new :
              /\ new[k].tag = "catch" => ReadyToFail(new[k].saved, new[k].poll)
              /\ new[k].tag = "reply" => k = 1 /\ ReadyToFail(store', new[k].poll)
    PROVE  Guarded'
  <1>1. \A k \in DOMAIN calls' :
           \/ k \in DOMAIN new /\ calls'[k] = new[k]
           \/ \E j \in DOMAIN calls : j > 1 /\ calls'[k] = calls[j]
    BY FollowsProperties
  <1>2. \A j \in DOMAIN calls : j > 1 => j # 1
    BY LenProperties DEF TypeIn
  <1>. QED
    BY <1>1, <1>2 DEF Guarded

LEMMA GuardedNext ==
    ASSUME TypeIn(Request), Guarded, [Next]_vars
    PROVE  Guarded'
  <1>. DEFINE C == Request
  <1>0. C \subseteq Request /\ TypeIn(C)
    OBVIOUS
  <1>. HIDE DEF C
  <1>1. CASE UNCHANGED vars
    BY <1>1 DEF vars, Guarded, ReadyToFail
  <1>2. ASSUME NEW user \in Users, NEW c \in OwnRequest, Begin(user, c)
        PROVE  Guarded'
    <2>1. calls' = <<CallOf(user, c, NONE)>> /\ CallOf(user, c, NONE).tag = "call"
      BY <1>0, <1>2, BeginIs DEF CallOf
    <2>. QED
      BY <2>1 DEF Guarded
  <1>3. ASSUME NEW id \in Polls, TimelockExpires(id)
        PROVE  Guarded'
    BY <1>3 DEF TimelockExpires, Guarded, ReadyToFail
  <1>4. CASE ExecutePoll
    <2>1. PICK id \in Polls : /\ Status(id) = "passed" /\ Follows(C, ExecutePollNew(id), 1)
      BY <1>0, <1>4, ExecutePollIs
    <2>2. ReadyToFail(TmpStored(id), id)
      BY <1>0, <2>1 DEF ReadyToFail, TmpStored, Status, TypeIn, StoreIn
    <2>3. \A k \in DOMAIN ExecutePollNew(id) :
             /\ ExecutePollNew(id)[k].tag = "catch" =>
                   ReadyToFail(ExecutePollNew(id)[k].saved, ExecutePollNew(id)[k].poll)
             /\ ExecutePollNew(id)[k].tag # "reply"
      BY <2>2 DEF ExecutePollNew, CallOf, CatchOf
    <2>. QED
      BY <1>0, <2>1, <2>3, GuardedFollows
  <1>5. CASE ExecutePollMessages
    <2>1. PICK id \in Polls : /\ store.poll[id] \in PollIn(C)
                              /\ Follows(C, CallsOf(id, store.poll[id]), 1)
      BY <1>0, <1>5, ExecutePollMessagesIs
    <2>. DEFINE new == CallsOf(id, store.poll[id])
    <2>2. new \in Seq(Asked(C))
      BY <2>1, CallsOfProperties
    <2>. HIDE DEF new
    <2>3. \A k \in DOMAIN new : new[k].tag = "call"
      <3>1. \A k \in DOMAIN new : new[k] \in Asked(C)
        BY <2>2
      <3>. QED
        BY <3>1 DEF Asked
    <2>4. \A k \in DOMAIN new : new[k].tag # "catch" /\ new[k].tag # "reply"
      BY <2>3
    <2>. QED
      BY <1>0, <2>1, <2>4, GuardedFollows DEF new
  <1>6. CASE ExternalSucceeds
    BY <1>0, <1>6, ExternalSucceedsIs, GuardedFollows
  <1>7. CASE Caught
    <2>1. PICK k \in DOMAIN calls :
             /\ calls[k].tag = "catch" /\ store' = calls[k].saved
             /\ Follows(C, <<ReplyOf(calls[k].poll)>>, k)
      BY <1>0, <1>7, CaughtIs
    <2>2. ReadyToFail(store', calls[k].poll)
      BY <2>1 DEF Guarded
    <2>. DEFINE new == <<ReplyOf(calls[k].poll)>>
    <2>3. \A i \in DOMAIN new : i = 1 /\ new[i].tag = "reply" /\ new[i].poll = calls[k].poll
      BY DEF ReplyOf
    <2>. HIDE DEF new
    <2>4. \A i \in DOMAIN new :
             /\ new[i].tag = "catch" => ReadyToFail(new[i].saved, new[i].poll)
             /\ new[i].tag = "reply" => i = 1 /\ ReadyToFail(store', new[i].poll)
      BY <2>2, <2>3
    <2>5. Follows(C, new, k)
      BY <2>1 DEF new
    <2>. QED
      BY <1>0, <2>4, <2>5, GuardedFollows
  <1>8. CASE Abort
    BY <1>8 DEF Abort, Guarded
  <1>9. CASE SubmessageSucceeds
    BY <1>0, <1>9, SubmessageSucceedsIs, GuardedFollows
  <1>10. CASE FailPoll
    BY <1>0, <1>10, FailPollIs, GuardedFollows
  <1>. QED
    BY <1>1, <1>2, <1>3, <1>4, <1>5, <1>6, <1>7, <1>8, <1>9, <1>10, OwnRequests
       DEF Next, Step, Uncaught, OutOfGas

LEMMA GuardedImplies ==
    ASSUME TypeIn(Request), Guarded
    PROVE  ReplyFailsTheRightPoll
  <1>1. SUFFICES ASSUME calls # <<>>, First.tag = "reply"
                 PROVE  store.tmp_poll_id = First.poll /\ Status(First.poll) = "passed"
    BY DEF ReplyFailsTheRightPoll
  <1>2. First = calls[1] /\ 1 \in DOMAIN calls
    BY <1>1, FirstIs
  <1>. QED
    BY <1>1, <1>2 DEF Guarded, ReadyToFail, Status

THEOREM GuardedAlways == Spec => [](TypeIn(Request) /\ Guarded)
  <1>1. Init => TypeIn(Request) /\ Guarded
    BY AllRequests, TypeInit DEF Init, Guarded
  <1>2. TypeIn(Request) /\ Guarded /\ [Next]_vars => TypeIn(Request)' /\ Guarded'
    BY TypeNext, GuardedNext
  <1>. QED
    BY <1>1, <1>2, PTL DEF Spec

\* The poll that `reply` finds in TMP_POLL_ID is the one whose submessage has
\* failed, and it is passed again: whatever the polls' messages are.
THEOREM RightPollFails == Spec => []ReplyFailsTheRightPoll
  <1>1. TypeIn(Request) /\ Guarded => ReplyFailsTheRightPoll
    BY GuardedImplies
  <1>. QED
    BY <1>1, GuardedAlways, PTL

-----------------------------------------------------------------------------
(* The messages of a passed poll alone are run *)

Quiet == {c \in Request : c.op # "execute_poll_msgs"}

\* No poll has a message that calls the contract's Yourself entry point.
NoYourself == InitIn(Quiet)

\* What the contract sends itself comes first, and is about a passed poll.
MessagesRun ==
    \A k \in DOMAIN calls :
        calls[k].tag = "call" /\ calls[k].sender = Gov
          /\ calls[k].call.op = "execute_poll_msgs" =>
            k = 1 /\ Status(calls[k].call.poll) = "passed"

Runs(x) == x.tag = "call" /\ x.sender = Gov /\ x.call.op = "execute_poll_msgs"

LEMMA MessagesRunFollows ==
    ASSUME TypeIn(Quiet), MessagesRun, NEW new, NEW m, Follows(Quiet, new, m),
           \A k \in DOMAIN new :
              Runs(new[k]) => k = 1 /\ store'.poll[new[k].call.poll].status = "passed"
    PROVE  MessagesRun'
  <1>0. Quiet \subseteq Request
    BY DEF Quiet
  <1>1. \A k \in DOMAIN calls' :
           \/ k \in DOMAIN new /\ calls'[k] = new[k]
           \/ \E j \in DOMAIN calls : j > 1 /\ calls'[k] = calls[j]
    BY <1>0, FollowsProperties
  <1>2. \A j \in DOMAIN calls : j > 1 => j # 1
    BY LenProperties DEF TypeIn
  <1>3. \A j \in DOMAIN calls : j > 1 => ~Runs(calls[j])
    BY <1>2 DEF MessagesRun, Runs
  <1>4. \A k \in DOMAIN calls' :
           Runs(calls'[k]) => k = 1 /\ store'.poll[calls'[k].call.poll].status = "passed"
    BY <1>1, <1>3
  <1>. QED
    BY <1>4 DEF MessagesRun, Runs, Status

LEMMA MessagesRunNext ==
    ASSUME TypeIn(Quiet), MessagesRun, [Next]_vars
    PROVE  MessagesRun'
  <1>. DEFINE C == Quiet
  <1>0. C \subseteq Request /\ TypeIn(C)
    BY DEF Quiet
  <1>a. ASSUME NEW m, Follows(C, <<>>, m)
        PROVE  MessagesRun'
    BY <1>a, MessagesRunFollows
  <1>1. CASE UNCHANGED vars
    BY <1>1 DEF vars, MessagesRun, Status
  <1>2. ASSUME NEW user \in Users, NEW c \in OwnRequest, Begin(user, c)
        PROVE  MessagesRun'
    <2>1. calls' = <<CallOf(user, c, NONE)>> /\ CallOf(user, c, NONE).sender # Gov
      BY <1>0, <1>2, BeginIs, GovIsNoUser DEF CallOf
    <2>. QED
      BY <2>1 DEF MessagesRun
  <1>3. ASSUME NEW id \in Polls, TimelockExpires(id)
        PROVE  MessagesRun'
    BY <1>3 DEF TimelockExpires, MessagesRun, Status
  <1>4. CASE ExecutePoll
    <2>1. PICK id \in Polls : /\ Status(id) = "passed" /\ Follows(C, ExecutePollNew(id), 1)
                              /\ store' = TmpStored(id)
      BY <1>0, <1>4, ExecutePollIs
    <2>2. store'.poll[id].status = "passed"
      BY <1>0, <2>1 DEF TmpStored, Status, TypeIn, StoreIn
    <2>3. \A k \in DOMAIN ExecutePollNew(id) :
             Runs(ExecutePollNew(id)[k]) => k = 1 /\ ExecutePollNew(id)[k].call.poll = id
      BY DEF ExecutePollNew, CallOf, CatchOf, Runs, ExecutePollMsgsCall
    <2>. QED
      BY <1>0, <2>1, <2>2, <2>3, MessagesRunFollows
  <1>5. CASE ExecutePollMessages
    <2>1. PICK id \in Polls : /\ store.poll[id] \in PollIn(C)
                              /\ Follows(C, CallsOf(id, store.poll[id]), 1)
      BY <1>0, <1>5, ExecutePollMessagesIs
    <2>. DEFINE new == CallsOf(id, store.poll[id])
    <2>2. new \in Seq(Asked(C))
      BY <2>1, CallsOfProperties
    <2>. HIDE DEF new
    <2>3. \A k \in DOMAIN new : ~Runs(new[k])
      <3>1. \A k \in DOMAIN new : new[k] \in Asked(C)
        BY <2>2
      <3>. QED
        BY <3>1 DEF Asked, Quiet, Runs
    <2>. QED
      BY <1>0, <2>1, <2>3, MessagesRunFollows DEF new
  <1>6. CASE ExternalSucceeds
    BY <1>0, <1>6, <1>a, ExternalSucceedsIs
  <1>7. CASE Caught
    <2>1. PICK k \in DOMAIN calls : Follows(C, <<ReplyOf(calls[k].poll)>>, k)
      BY <1>0, <1>7, CaughtIs
    <2>. DEFINE new == <<ReplyOf(calls[k].poll)>>
    <2>2. \A i \in DOMAIN new : ~Runs(new[i])
      BY DEF ReplyOf, Runs
    <2>. HIDE DEF new
    <2>3. Follows(C, new, k)
      BY <2>1 DEF new
    <2>. QED
      BY <1>0, <2>2, <2>3, MessagesRunFollows
  <1>8. CASE Abort
    BY <1>8 DEF Abort, MessagesRun
  <1>9. CASE SubmessageSucceeds
    BY <1>0, <1>9, <1>a, SubmessageSucceedsIs
  <1>10. CASE FailPoll
    BY <1>0, <1>10, <1>a, FailPollIs
  <1>. QED
    BY <1>1, <1>2, <1>3, <1>4, <1>5, <1>6, <1>7, <1>8, <1>9, <1>10, OwnRequests
       DEF Next, Step, Uncaught, OutOfGas

-----------------------------------------------------------------------------
(* The messages of one poll that a list of calls holds *)

\* The calls of w that are for other contracts and that poll `id` has asked for.
Mine(w, id) ==
    {k \in DOMAIN w : w[k].tag = "call" /\ w[k].call = ExternalCall /\ w[k].of.poll = id}

\* The calls of w are the messages of poll `id`, whose record is p, each once and
\* in their order, if it is executed, and none of them if it is not.
Carried(id, p, w) ==
    /\ {w[k].of : k \in Mine(w, id)} = IF p.status = "executed" THEN Externals(id, p) ELSE {}
    /\ \A j, k \in Mine(w, id) : j < k => Precedes(p, w[j].of, w[k].of)

\* f takes the calls of w for the poll to those of v, in the order they are in.
Matches(f, w, v, id) ==
    /\ \A k \in Mine(w, id) : f[k] \in Mine(v, id) /\ v[f[k]].of = w[k].of
    /\ \A i \in Mine(v, id) : \E k \in Mine(w, id) : f[k] = i
    /\ \A j, k \in Mine(w, id) : j < k => f[j] < f[k]

LEMMA CarriedMatches ==
    ASSUME NEW S, NEW w \in Seq(S), NEW v \in Seq(S), NEW id, NEW f, Matches(f, w, v, id), NEW p
    PROVE  Carried(id, p, w) <=> Carried(id, p, v)
  <1>1. /\ \A k \in Mine(w, id) : k \in Nat
        /\ \A k \in Mine(v, id) : k \in Nat
    BY LenProperties DEF Mine
  <1>2. {w[k].of : k \in Mine(w, id)} = {v[i].of : i \in Mine(v, id)}
    BY DEF Matches
  <1>3. ASSUME \A j, k \in Mine(w, id) : j < k => Precedes(p, w[j].of, w[k].of),
               NEW a \in Mine(v, id), NEW b \in Mine(v, id), a < b
        PROVE  Precedes(p, v[a].of, v[b].of)
    <2>1. PICK j \in Mine(w, id) : f[j] = a
      BY DEF Matches
    <2>2. PICK k \in Mine(w, id) : f[k] = b
      BY DEF Matches
    <2>3. j < k
      <3>1. ~(k < j) /\ j # k
        BY <1>1, <1>3, <2>1, <2>2 DEF Matches
      <3>. QED
        BY <1>1, <3>1
    <2>. QED
      BY <1>3, <2>1, <2>2, <2>3 DEF Matches
  <1>4. ASSUME \A a, b \in Mine(v, id) : a < b => Precedes(p, v[a].of, v[b].of),
               NEW j \in Mine(w, id), NEW k \in Mine(w, id), j < k
        PROVE  Precedes(p, w[j].of, w[k].of)
    BY <1>4 DEF Matches
  <1>. QED
    BY <1>2, <1>3, <1>4 DEF Carried

\* Calls that are not the poll's do not count.
LEMMA CarriedInserted ==
    ASSUME NEW S, NEW x \in Seq(S), NEW new \in Seq(S), NEW y \in Seq(S),
           NEW id, Mine(new, id) = {}, NEW p
    PROVE  Carried(id, p, x \o y) <=> Carried(id, p, x \o (new \o y))
  <1>. DEFINE w == x \o y
              z == new \o y
              v == x \o z
              l == Len(x)
              n == Len(new)
              m == Len(y)
              f == [k \in Mine(w, id) |-> IF k <= l THEN k ELSE k + n]
  <1>1. /\ w \in Seq(S) /\ z \in Seq(S) /\ v \in Seq(S)
        /\ l \in Nat /\ n \in Nat /\ m \in Nat
        /\ Len(w) = l + m /\ Len(z) = n + m /\ Len(v) = l + (n + m)
        /\ \A k \in 1..(l + m) : w[k] = IF k <= l THEN x[k] ELSE y[k - l]
        /\ \A k \in 1..(n + m) : z[k] = IF k <= n THEN new[k] ELSE y[k - n]
    BY ConcatProperties, LenProperties
  <1>2. \A k \in 1..(l + (n + m)) : v[k] = IF k <= l THEN x[k] ELSE z[k - l]
    <2>. HIDE DEF z
    <2>1. \A k \in 1..(Len(x) + Len(z)) :
             (x \o z)[k] = IF k <= Len(x) THEN x[k] ELSE z[k - Len(x)]
      BY <1>1, ConcatProperties
    <2>. QED
      BY <1>1, <2>1
  <1>. HIDE DEF w, z, v, l, n, m
  <1>3. /\ DOMAIN w = 1..(l + m) /\ DOMAIN v = 1..(l + (n + m)) /\ DOMAIN new = 1..n
    BY <1>1, LenProperties DEF n
  <1>4. \A k \in DOMAIN w :
           LET g == IF k <= l THEN k ELSE k + n
           IN  g \in DOMAIN v /\ v[g] = w[k]
    <2>. TAKE k \in DOMAIN w
    <2>1. CASE k <= l
      BY <1>1, <1>2, <1>3, <2>1, SMTT(30)
    <2>2. CASE ~(k <= l)
      <3>1. /\ k + n \in 1..(l + (n + m)) /\ ~(k + n <= l)
            /\ (k + n) - l \in 1..(n + m) /\ ~((k + n) - l <= n)
            /\ ((k + n) - l) - n = k - l
        <4>1. /\ k \in Int /\ l \in Nat /\ n \in Nat /\ m \in Nat
              /\ k > l /\ k <= l + m /\ k >= 1
          BY <1>1, <1>3, <2>2, SMTT(30)
        <4>. QED
          BY <4>1, SMTT(30)
      <3>2. v[k + n] = z[(k + n) - l]
        BY <1>2, <3>1
      <3>3. z[(k + n) - l] = y[k - l]
        BY <1>1, <3>1
      <3>4. w[k] = y[k - l]
        BY <1>1, <1>3, <2>2
      <3>. QED
        BY <1>3, <2>2, <3>1, <3>2, <3>3, <3>4
    <2>. QED
      BY <2>1, <2>2
  <1>5. \A i \in DOMAIN v :
           \/ \E k \in DOMAIN w : i = IF k <= l THEN k ELSE k + n
           \/ i - l \in DOMAIN new /\ v[i] = new[i - l]
    <2>. TAKE i \in DOMAIN v
    <2>1. CASE i <= l
      BY <1>1, <1>3, <2>1
    <2>2. CASE l < i /\ i - l <= n
      <3>1. i - l \in 1..(n + m) /\ i - l \in 1..n /\ ~(i <= l)
        BY <1>1, <1>3, <2>2
      <3>. QED
        BY <1>1, <1>2, <1>3, <2>2, <3>1
    <2>3. CASE l < i /\ n < i - l
      <3>1. i - n \in 1..(l + m) /\ ~(i - n <= l) /\ i = (i - n) + n
        BY <1>1, <1>3, <2>3, SMTT(30)
      <3>. QED
        BY <1>3, <3>1
    <2>. QED
      BY <1>1, <1>3, <2>1, <2>2, <2>3
  <1>6. \A k \in Mine(w, id) : k \in DOMAIN w /\ k \in Nat
    BY <1>3 DEF Mine
  <1>7. Matches(f, w, v, id)
    <2>1. \A k \in Mine(w, id) : f[k] \in Mine(v, id) /\ v[f[k]].of = w[k].of
      BY <1>4 DEF Mine
    <2>2. \A i \in Mine(v, id) : \E k \in Mine(w, id) : f[k] = i
      <3>. TAKE i \in Mine(v, id)
      <3>1. ~(i - l \in DOMAIN new /\ v[i] = new[i - l])
        BY DEF Mine
      <3>2. PICK k \in DOMAIN w : i = IF k <= l THEN k ELSE k + n
        BY <1>5, <3>1 DEF Mine
      <3>3. k \in Mine(w, id)
        BY <1>4, <3>2 DEF Mine
      <3>. QED
        BY <3>2, <3>3
    <2>3. \A j, k \in Mine(w, id) : j < k => f[j] < f[k]
      BY <1>1, <1>6
    <2>. QED
      BY <2>1, <2>2, <2>3 DEF Matches
  <1>8. Carried(id, p, w) <=> Carried(id, p, v)
    BY <1>1, <1>7, CarriedMatches
  <1>. QED
    BY <1>8 DEF w, v, z

LEMMA MineOfParts ==
    ASSUME NEW S, NEW x \in Seq(S), NEW y \in Seq(S), NEW id, Mine(x \o y, id) = {}
    PROVE  Mine(x, id) = {} /\ Mine(y, id) = {}
  <1>. DEFINE w == x \o y
              l == Len(x)
              m == Len(y)
  <1>1. /\ w \in Seq(S) /\ l \in Nat /\ m \in Nat /\ Len(w) = l + m
        /\ \A k \in 1..(l + m) : w[k] = IF k <= l THEN x[k] ELSE y[k - l]
    BY ConcatProperties, LenProperties
  <1>. HIDE DEF w
  <1>2. DOMAIN w = 1..(l + m) /\ DOMAIN x = 1..l /\ DOMAIN y = 1..m
    BY <1>1, LenProperties
  <1>. HIDE DEF l, m
  <1>3. \A k \in DOMAIN x : k \in DOMAIN w /\ w[k] = x[k]
    BY <1>1, <1>2
  <1>4. \A k \in DOMAIN y : l + k \in DOMAIN w /\ w[l + k] = y[k]
    <2>. TAKE k \in DOMAIN y
    <2>1. l + k \in 1..(l + m) /\ ~(l + k <= l) /\ (l + k) - l = k
      BY <1>1, <1>2
    <2>. QED
      BY <1>1, <1>2, <2>1
  <1>5. Mine(w, id) = {}
    BY DEF w
  <1>. QED
    BY <1>3, <1>4, <1>5 DEF Mine

\* Two records of a poll with the same messages.
SameMessages(p, q) == p.execute_data = q.execute_data /\ p.migrate_data = q.migrate_data

LEMMA SameMessagesCarried ==
    ASSUME NEW p, NEW q, SameMessages(p, q), NEW id, NEW w,
           p.status = "executed" <=> q.status = "executed", Carried(id, p, w)
    PROVE  Carried(id, q, w)
  <1>1. Externals(id, p) = Externals(id, q)
    BY DEF SameMessages, Externals
  <1>2. \A a, b : Precedes(p, a, b) <=> Precedes(q, a, b)
    BY DEF SameMessages, Precedes
  <1>. QED
    BY <1>1, <1>2 DEF Carried

\* A poll none of whose messages are about has them all scheduled.
LEMMA CarriedScheduled ==
    ASSUME NEW S, NEW x \in Seq(S), NEW y \in Seq(S),
           NEW C, NEW id \in Polls, NEW p \in PollIn(C), p.status # "executed",
           NEW q, q.status = "executed", SameMessages(p, q),
           CallsOf(id, p) \in Seq(S), Carried(id, p, x \o y)
    PROVE  Carried(id, q, x \o (CallsOf(id, p) \o y))
  <1>. DEFINE cs == CallsOf(id, p)
  <1>1. /\ cs \in Seq(Asked(C))
        /\ \A k \in DOMAIN cs :
              cs[k].of.poll = id /\ (cs[k].call = ExternalCall => cs[k].of \in Externals(id, p))
        /\ \A j, k \in DOMAIN cs : j < k => Precedes(p, cs[j].of, cs[k].of)
        /\ \A e \in Externals(id, p) : \E k \in DOMAIN cs :
              cs[k].of = e /\ cs[k].call = ExternalCall
    BY CallsOfProperties
  <1>. HIDE DEF cs
  <1>2. \A k \in DOMAIN cs : cs[k].tag = "call"
    <2>1. \A k \in DOMAIN cs : cs[k] \in Asked(C)
      BY <1>1
    <2>. QED
      BY <2>1 DEF Asked
  <1>3. Carried(id, q, cs)
    <2>1. Externals(id, p) = Externals(id, q) /\ \A a, b : Precedes(p, a, b) <=> Precedes(q, a, b)
      BY DEF SameMessages, Externals, Precedes
    <2>2. {cs[k].of : k \in Mine(cs, id)} = Externals(id, p)
      BY <1>1, <1>2 DEF Mine
    <2>. QED
      BY <1>1, <2>1, <2>2 DEF Carried, Mine
  <1>4. Mine(x, id) = {} /\ Mine(y, id) = {}
    <2>1. {(x \o y)[k].of : k \in Mine(x \o y, id)} = {}
      BY DEF Carried
    <2>2. Mine(x \o y, id) = {}
      BY <2>1
    <2>. QED
      BY <2>2, MineOfParts
  <1>5. /\ cs \in Seq(S) /\ <<>> \in Seq(S) /\ x \o cs \in Seq(S)
        /\ <<>> \o cs = cs /\ <<>> \o (x \o cs) = x \o cs
        /\ (x \o cs) \o <<>> = x \o cs /\ y \o <<>> = y
        /\ (x \o cs) \o y = x \o (cs \o y)
    <2>1. cs \in Seq(S)
      BY DEF cs
    <2>2. x \o cs \in Seq(S)
      BY <2>1, ConcatProperties
    <2>. QED
      BY <2>1, <2>2, EmptySeq, ConcatEmptySeq, ConcatAssociative, SMTT(30)
  <1>6. Carried(id, q, <<>> \o cs) <=> Carried(id, q, <<>> \o (x \o cs))
    BY <1>4, <1>5, CarriedInserted
  <1>7. Carried(id, q, (x \o cs) \o <<>>) <=> Carried(id, q, (x \o cs) \o (y \o <<>>))
    BY <1>4, <1>5, CarriedInserted
  <1>. QED
    BY <1>3, <1>5, <1>6, <1>7 DEF cs

\* Of the calls carried out, those for the poll are listed once, in their order.
LEMMA CarriedFiltered ==
    ASSUME NEW es \in Seq(Done), NEW id, NEW p, Carried(id, p, es)
    PROVE  LET done == Filtered(es, {k \in DOMAIN es : es[k].of.poll = id})
           IN  /\ {done[k].of : k \in DOMAIN done} =
                     IF p.status = "executed" THEN Externals(id, p) ELSE {}
               /\ \A j, k \in DOMAIN done : j < k => Precedes(p, done[j].of, done[k].of)
  <1>. DEFINE kept == {k \in DOMAIN es : es[k].of.poll = id}
              done == Filtered(es, kept)
  <1>1. Len(es) \in Nat /\ DOMAIN es = 1..Len(es) /\ \A k \in DOMAIN es : es[k] \in Done
    BY LenProperties, ElementOfSeq
  <1>2. kept = Mine(es, id)
    BY <1>1 DEF Mine, Done
  <1>3. kept \in SUBSET Nat /\ IsFiniteSet(kept)
    <2>. DEFINE I == 1..Len(es)
    <2>1. IsFiniteSet(I)
      BY <1>1, FS_Interval
    <2>2. I \in SUBSET Nat /\ kept \in SUBSET I
      BY <1>1
    <2>. HIDE DEF I, kept
    <2>. QED
      BY <2>1, <2>2, FS_Subset
  <1>. HIDE DEF kept
  <1>4. PICK n, order :
           /\ n \in Nat /\ done = [r \in 1..n |-> es[order[r]]]
           /\ Lists(order, n, kept, Earlier(kept))
    BY <1>3, FilteredProperties
  <1>. HIDE DEF done
  <1>5. /\ \A r \in 1..n : order[r] \in kept
        /\ \A r, q \in 1..n : r < q => order[r] < order[q]
        /\ \A k \in kept : \E r \in 1..n : order[r] = k
    BY <1>4 DEF Lists, Earlier
  <1>6. DOMAIN done = 1..n /\ \A r \in 1..n : done[r] = es[order[r]]
    BY <1>4
  <1>7. {done[r].of : r \in DOMAIN done} = {es[k].of : k \in kept}
    BY <1>5, <1>6
  <1>8. \A r, q \in DOMAIN done : r < q => Precedes(p, done[r].of, done[q].of)
    BY <1>2, <1>5, <1>6 DEF Carried
  <1>. QED
    BY <1>2, <1>7, <1>8 DEF Carried, done, kept

-----------------------------------------------------------------------------
(* A store and the calls that are to follow on it *)

Executed(s) == {id \in Polls : s.poll[id].status = "executed"}

\* The calls `cs` may follow on the store s, in a transaction that began with the
\* store b: the polls executed in b still are, and a poll executed where a catch
\* of cs leads back to is executed in s; of the calls carried out in s with those
\* in cs, those of each poll are its messages, or none.
Fits(b, s, cs) ==
    /\ Executed(b) \subseteq Executed(s)
    /\ \A k \in DOMAIN cs : cs[k].tag = "catch" => Executed(cs[k].saved) \subseteq Executed(s)
    /\ \A id \in Polls : Carried(id, s.poll[id], s.effects \o cs)

\* A store that differs in nothing but TMP_POLL_ID.
LEMMA FitsSame ==
    ASSUME NEW b, NEW s, NEW t, t.poll = s.poll, t.effects = s.effects, NEW cs, Fits(b, s, cs)
    PROVE  Fits(b, t, cs)
  BY DEF Fits, Executed

Entry(C) == Item(C) \cup Done

LEMMA Entries ==
    ASSUME NEW C, NEW s \in StoreIn(C), NEW cs \in Seq(Item(C))
    PROVE  s.effects \in Seq(Entry(C)) /\ cs \in Seq(Entry(C))
  <1>1. s.effects \in Seq(Done)
    BY DEF StoreIn
  <1>. QED
    BY <1>1, SeqWiden DEF Entry

\* New calls, of which none is for another contract, may precede those that fit.
LEMMA FitsInserted ==
    ASSUME NEW C, NEW b, NEW s \in StoreIn(C), NEW new \in Seq(Item(C)), NEW cs \in Seq(Item(C)),
           Fits(b, s, cs),
           \A k \in DOMAIN new : ~(new[k].tag = "call" /\ new[k].call = ExternalCall),
           \A k \in DOMAIN new :
              new[k].tag = "catch" => Executed(new[k].saved) \subseteq Executed(s)
    PROVE  Fits(b, s, new \o cs)
  <1>. DEFINE all == new \o cs
  <1>1. \A id \in Polls : Mine(new, id) = {}
    BY DEF Mine
  <1>2. s.effects \in Seq(Entry(C)) /\ new \in Seq(Entry(C)) /\ cs \in Seq(Entry(C))
    BY Entries
  <1>3. \A id \in Polls : Carried(id, s.poll[id], s.effects \o all)
    BY <1>1, <1>2, CarriedInserted DEF Fits
  <1>4. \A k \in DOMAIN all : \/ k \in DOMAIN new /\ all[k] = new[k]
                              \/ \E j \in DOMAIN cs : all[k] = cs[j]
    <2>1. /\ all \in Seq(Item(C)) /\ Len(all) = Len(new) + Len(cs)
          /\ Len(new) \in Nat /\ Len(cs) \in Nat
          /\ \A k \in 1..(Len(new) + Len(cs)) :
                all[k] = IF k <= Len(new) THEN new[k] ELSE cs[k - Len(new)]
      BY ConcatProperties, LenProperties
    <2>2. /\ DOMAIN all = 1..(Len(new) + Len(cs))
          /\ DOMAIN new = 1..Len(new) /\ DOMAIN cs = 1..Len(cs)
      BY <2>1, LenProperties
    <2>. HIDE DEF all
    <2>. TAKE k \in DOMAIN all
    <2>3. CASE k <= Len(new)
      BY <2>1, <2>2, <2>3
    <2>4. CASE ~(k <= Len(new))
      <3>1. k - Len(new) \in DOMAIN cs
        BY <2>1, <2>2, <2>4
      <3>. QED
        BY <2>1, <2>2, <2>4, <3>1
    <2>. QED
      BY <2>3, <2>4
  <1>. HIDE DEF all
  <1>5. \A k \in DOMAIN all : all[k].tag = "catch" => Executed(all[k].saved) \subseteq Executed(s)
    BY <1>4 DEF Fits
  <1>6. Executed(b) \subseteq Executed(s)
    BY DEF Fits
  <1>. QED
    BY <1>3, <1>5, <1>6 DEF Fits, all

\* The calls after the first fit, if that is not for another contract.
LEMMA FitsAfter ==
    ASSUME NEW C, NEW b, NEW s \in StoreIn(C), NEW cs \in Seq(Item(C)), cs # <<>>,
           Fits(b, s, cs), ~(cs[1].tag = "call" /\ cs[1].call = ExternalCall)
    PROVE  Fits(b, s, After(cs, 1))
  <1>. DEFINE rest == After(cs, 1)
              new == <<cs[1]>>
  <1>1. /\ Len(cs) \in Nat \ {0} /\ cs[1] \in Item(C)
        /\ rest \in Seq(Item(C)) /\ cs = new \o rest
    <2>1. /\ Len(cs) \in Nat \ {0} /\ cs[1] \in Item(C) /\ Tail(cs) \in Seq(Item(C))
          /\ Tail(cs) = After(cs, 1) /\ cs = <<cs[1]>> \o Tail(cs)
      BY TailIsAfter
    <2>. QED
      BY <2>1
  <1>2. new \in Seq(Item(C))
    BY <1>1
  <1>3. \A id \in Polls : Mine(new, id) = {}
    BY DEF Mine
  <1>. HIDE DEF new, rest
  <1>4. s.effects \in Seq(Entry(C)) /\ new \in Seq(Entry(C)) /\ rest \in Seq(Entry(C))
    BY <1>1, <1>2, Entries
  <1>5. \A id \in Polls : Carried(id, s.poll[id], s.effects \o rest)
    BY <1>1, <1>3, <1>4, CarriedInserted DEF Fits
  <1>6. \A k \in DOMAIN rest : \E j \in DOMAIN cs : rest[k] = cs[j]
    <2>. DEFINE one == 1
    <2>1. one \in 0..Len(cs)
      BY <1>1
    <2>. HIDE DEF one
    <2>2. /\ Len(After(cs, one)) = Len(cs) - one
          /\ \A k \in 1..(Len(cs) - one) : After(cs, one)[k] = cs[one + k]
      BY <2>1, AfterProperties
    <2>3. \A k \in 1..(Len(cs) - 1) : rest[k] = cs[1 + k]
      BY <2>2 DEF one, rest
    <2>4. DOMAIN rest = 1..(Len(cs) - 1) /\ DOMAIN cs = 1..Len(cs)
      BY <1>1, <2>2, LenProperties DEF one, rest
    <2>5. \A k \in 1..(Len(cs) - 1) : 1 + k \in 1..Len(cs)
      BY <1>1
    <2>. QED
      BY <2>3, <2>4, <2>5
  <1>7. \A k \in DOMAIN rest :
           rest[k].tag = "catch" => Executed(rest[k].saved) \subseteq Executed(s)
    BY <1>6 DEF Fits
  <1>8. Executed(b) \subseteq Executed(s)
    BY DEF Fits
  <1>. QED
    BY <1>5, <1>7, <1>8 DEF Fits, rest

\* The calls to come fit the store, and those after each catch what it restores.
Kept ==
    /\ Fits(before, store, calls) /\ Fits(before, before, <<>>)
    /\ \A k \in DOMAIN calls :
          calls[k].tag = "catch" => Fits(before, calls[k].saved, After(calls, k))

LEMMA KeptFollows ==
    ASSUME NEW C, C \subseteq Request, TypeIn(C), Kept, before' = before,
           NEW new, NEW m, Follows(C, new, m), Fits(before, store', calls'),
           \A k \in DOMAIN new :
              new[k].tag = "catch" => Fits(before, new[k].saved, After(calls', k))
    PROVE  Kept'
  <1>1. \A k \in DOMAIN calls' :
           \/ k \in DOMAIN new /\ calls'[k] = new[k]
           \/ \E j \in DOMAIN calls :
                 j > 1 /\ calls'[k] = calls[j] /\ After(calls', k) = After(calls, j)
    BY FollowsProperties
  <1>2. \A k \in DOMAIN calls' :
           calls'[k].tag = "catch" => Fits(before, calls'[k].saved, After(calls', k))
    BY <1>1 DEF Kept
  <1>. QED
    BY <1>2 DEF Kept

\* Until its first call has been dealt with.
LEMMA KeptAfterFirst ==
    ASSUME NEW C, C \subseteq Request, TypeIn(C), Kept, calls # <<>>,
           ~(First.tag = "call" /\ First.call = ExternalCall)
    PROVE  Fits(before, store, After(calls, 1)) /\ After(calls, 1) \in Seq(Item(C))
  <1>1. First = calls[1] /\ calls \in Seq(Item(C)) /\ store \in StoreIn(C)
        /\ After(calls, 1) \in Seq(Item(C))
    BY FirstIs DEF TypeIn
  <1>. QED
    BY <1>1, FitsAfter DEF Kept

LEMMA KeptInit == Init => Kept
  <1>. SUFFICES ASSUME Init PROVE Kept
    OBVIOUS
  <1>1. /\ calls = <<>> /\ before = store /\ store.effects = <<>>
        /\ store.poll \in InitPolls
    BY DEF Init
  <1>2. \A id \in Polls : store.poll[id].status # "executed"
    BY <1>1, InitPollsAssumption
  <1>3. <<>> \o <<>> = <<>>
    BY EmptySeq, ConcatEmptySeq
  <1>4. \A id \in Polls : Carried(id, store.poll[id], <<>>)
    BY <1>2 DEF Carried, Mine
  <1>5. Fits(store, store, <<>>)
    BY <1>1, <1>3, <1>4 DEF Fits
  <1>. QED
    BY <1>1, <1>5 DEF Kept

LEMMA KeptNext ==
    ASSUME TypeIn(Request), Guarded, TypeIn(Quiet), MessagesRun, Kept, [Next]_vars
    PROVE  Kept'
  <1>. DEFINE C == Request
  <1>0. C \subseteq Request /\ TypeIn(C) /\ store \in StoreIn(C) /\ calls \in Seq(Item(C))
    BY DEF TypeIn
  <1>. HIDE DEF C
  <1>1. CASE UNCHANGED vars
    BY <1>1 DEF vars, Kept
  <1>2. ASSUME NEW user \in Users, NEW c \in OwnRequest, Begin(user, c)
        PROVE  Kept'
    <2>. DEFINE x == CallOf(user, c, NONE)
                new == <<x>>
    <2>1. /\ calls = <<>> /\ calls' = new /\ x \in Item(C) /\ x \in Sent
          /\ before' = store /\ store' = store
      BY <1>0, <1>2, BeginIs
    <2>2. x.tag = "call" /\ x.call # ExternalCall
      BY <2>1 DEF Sent, OwnRequest, ExternalCall
    <2>3. Fits(store, store, <<>>)
      <3>1. Fits(before, store, <<>>)
        BY <2>1 DEF Kept
      <3>. QED
        BY <3>1 DEF Fits
    <2>. HIDE DEF x
    <2>4. new \in Seq(Item(C)) /\ <<>> \in Seq(Item(C)) /\ new \o <<>> = new
      BY <2>1, EmptySeq, ConcatEmptySeq
    <2>5. \A k \in DOMAIN new : new[k].tag = "call" /\ new[k].call # ExternalCall
      BY <2>2
    <2>. HIDE DEF new
    <2>6. Fits(store, store, new \o <<>>)
      BY <1>0, <2>3, <2>4, <2>5, FitsInserted
    <2>. QED
      BY <2>1, <2>3, <2>4, <2>5, <2>6 DEF Kept
  <1>3. ASSUME NEW id \in Polls, TimelockExpires(id)
        PROVE  Kept'
    BY <1>3 DEF TimelockExpires, Kept
  <1>4. CASE ExecutePoll
    <2>1. PICK id \in Polls :
             /\ First.tag = "call" /\ First.call.op # "external" /\ calls # <<>>
             /\ store' = TmpStored(id) /\ TmpStored(id) \in StoreIn(C)
             /\ Follows(C, ExecutePollNew(id), 1)
      BY <1>0, <1>4, ExecutePollIs
    <2>. DEFINE new == ExecutePollNew(id)
                s == TmpStored(id)
                rest == After(calls, 1)
    <2>2. First.call # ExternalCall
      BY <2>1 DEF ExternalCall
    <2>3. Fits(before, store, rest) /\ rest \in Seq(Item(C))
      BY <1>0, <2>1, <2>2, KeptAfterFirst
    <2>4. s.poll = store.poll /\ s.effects = store.effects
      BY <1>0 DEF TmpStored, StoreIn
    <2>5. /\ Len(new) = 2 /\ DOMAIN new = {1, 2}
          /\ new[1].tag = "call" /\ new[1].call # ExternalCall
          /\ new[2].tag = "catch" /\ new[2].saved = s
      BY DEF ExecutePollNew, CallOf, CatchOf, ExecutePollMsgsCall, ExternalCall
    <2>. HIDE DEF s, rest, new
    <2>6. Fits(before, s, rest)
      BY <2>3, <2>4, FitsSame
    <2>7. new \in Seq(Item(C)) /\ calls' = new \o rest /\ s \in StoreIn(C)
      BY <2>1 DEF Follows, Replaced, new, rest, s
    <2>8. Fits(before, s, new \o rest)
      BY <2>3, <2>5, <2>6, <2>7, FitsInserted
    <2>9. After(calls', 2) = rest
      <3>1. Follows(C, new, 1)
        BY <2>1 DEF new
      <3>2. After(calls', Len(new)) = After(calls, 1)
        BY <1>0, <3>1, FollowsProperties
      <3>. QED
        BY <2>5, <3>2 DEF rest
    <2>10. \A k \in DOMAIN new :
              new[k].tag = "catch" => Fits(before, new[k].saved, After(calls', k))
      BY <2>5, <2>6, <2>9
    <2>11. store' = s /\ Follows(C, new, 1) /\ before' = before
      BY <1>4, <2>1 DEF ExecutePoll, s, new
    <2>. QED
      BY <1>0, <2>7, <2>8, <2>10, <2>11, KeptFollows
  <1>5. CASE ExecutePollMessages
    <2>1. PICK id \in Polls :
             /\ First = calls[1] /\ calls # <<>>
             /\ First.tag = "call" /\ First.call.op = "execute_poll_msgs"
             /\ First.sender = Gov /\ First.call.poll = id
             /\ store.poll[id] \in PollIn(C) /\ store' = MarkedExecuted(id)
             /\ Follows(C, CallsOf(id, store.poll[id]), 1)
      BY <1>0, <1>5, ExecutePollMessagesIs
    <2>. DEFINE p == store.poll[id]
                new == CallsOf(id, p)
                rest == After(calls, 1)
                s == MarkedExecuted(id)
    <2>2. First.call # ExternalCall /\ p.status = "passed"
      <3>1. 1 \in DOMAIN calls
        BY <1>0, <2>1, FirstIs
      <3>. QED
        BY <2>1, <3>1 DEF ExternalCall, MessagesRun, Status
    <2>3. Fits(before, store, rest) /\ rest \in Seq(Item(C))
      BY <1>0, <2>1, <2>2, KeptAfterFirst
    <2>4. /\ s.effects = store.effects /\ \A i \in Polls \ {id} : s.poll[i] = store.poll[i]
          /\ s.poll[id].status = "executed" /\ SameMessages(p, s.poll[id])
      <3>1. store.poll \in [Polls -> PollIn(C)]
        BY <1>0 DEF StoreIn
      <3>2. /\ s.effects = store.effects
            /\ s.poll = [store.poll EXCEPT ![id] = [p EXCEPT !.status = "executed"]]
        BY <1>0 DEF MarkedExecuted, StoreIn
      <3>3. p \in PollIn(C)
        BY <2>1
      <3>. HIDE DEF s, p
      <3>. QED
        BY <3>1, <3>2, <3>3 DEF SameMessages, PollIn, p
    <2>5. /\ new \in Seq(Asked(C))
          /\ \A k \in DOMAIN new : new[k].of.poll = id
      BY <2>1, CallsOfProperties
    <2>6. new \in Seq(Item(C)) /\ calls' = new \o rest
      BY <2>1 DEF Follows, Replaced
    <2>. HIDE DEF s, rest, new
    <2>7. \A k \in DOMAIN new : new[k].tag = "call" /\ new[k].tag # "catch"
      <3>1. \A k \in DOMAIN new : new[k] \in Asked(C)
        BY <2>5
      <3>. QED
        BY <3>1 DEF Asked
    <2>8. Executed(store) \subseteq Executed(s)
      BY <2>4 DEF Executed
    <2>9. /\ store.effects \in Seq(Entry(C)) /\ rest \in Seq(Entry(C)) /\ new \in Seq(Entry(C))
      BY <1>0, <2>3, <2>6, Entries
    <2>10. \A i \in Polls : Carried(i, store.poll[i], store.effects \o rest)
      BY <2>3 DEF Fits
    <2>11. ASSUME NEW i \in Polls
           PROVE  Carried(i, s.poll[i], s.effects \o (new \o rest))
      <3>1. CASE i = id
        <4>1. p.status # "executed" /\ p \in PollIn(C) /\ new = CallsOf(i, p)
          BY <2>1, <2>2, <3>1 DEF new
        <4>2. Carried(i, p, store.effects \o rest)
          BY <2>10, <3>1
        <4>3. s.poll[i].status = "executed" /\ SameMessages(p, s.poll[i])
          BY <2>4, <3>1
        <4>. HIDE DEF p
        <4>. QED
          BY <2>4, <2>9, <4>1, <4>2, <4>3, CarriedScheduled
      <3>2. CASE i # id
        <4>1. Mine(new, i) = {}
          BY <2>5, <3>2 DEF Mine
        <4>2. Carried(i, store.poll[i], store.effects \o (new \o rest))
          BY <2>9, <2>10, <4>1, CarriedInserted
        <4>. QED
          BY <2>4, <3>2, <4>2
      <3>. QED
        BY <3>1, <3>2
    <2>12. \A k \in DOMAIN (new \o rest) :
              (new \o rest)[k].tag = "catch" =>
                Executed((new \o rest)[k].saved) \subseteq Executed(s)
      <3>1. \A k \in DOMAIN calls' :
               \/ k \in DOMAIN new /\ calls'[k] = new[k]
               \/ \E j \in DOMAIN calls : calls'[k] = calls[j]
        BY <1>0, <2>1, FollowsProperties DEF new
      <3>2. \A j \in DOMAIN calls :
               calls[j].tag = "catch" => Executed(calls[j].saved) \subseteq Executed(store)
        BY DEF Kept, Fits
      <3>. QED
        BY <2>6, <2>7, <2>8, <3>1, <3>2
    <2>13. Fits(before, s, new \o rest)
      <3>1. Executed(before) \subseteq Executed(store)
        BY DEF Kept, Fits
      <3>. QED
        BY <2>8, <2>11, <2>12, <3>1 DEF Fits
    <2>14. store' = s /\ Follows(C, new, 1) /\ before' = before
      BY <1>5, <2>1 DEF ExecutePollMessages, s, new
    <2>. QED
      BY <1>0, <2>6, <2>7, <2>13, <2>14, KeptFollows
  <1>6. CASE ExternalSucceeds
    <2>1. /\ First = calls[1] /\ First \in Done /\ First \in Item(C) /\ calls # <<>>
          /\ store' = [store EXCEPT !.effects = Append(store.effects, First)]
          /\ calls' = Tail(calls) /\ Follows(C, <<>>, 1)
      BY <1>0, <1>6, ExternalSucceedsIs
    <2>. DEFINE es == store.effects
                rest == Tail(calls)
    <2>2. /\ rest \in Seq(Item(C)) /\ calls = <<First>> \o rest
      BY <1>0, <2>1, FirstIs
    <2>3. /\ store'.effects = Append(es, First) /\ store'.poll = store.poll
      BY <1>0, <2>1 DEF StoreIn
    <2>. HIDE DEF es, rest
    <2>4. /\ es \in Seq(Entry(C)) /\ First \in Entry(C) /\ <<First>> \in Seq(Entry(C))
          /\ rest \in Seq(Entry(C))
      <3>1. First \in Entry(C)
        BY <2>1 DEF Entry
      <3>. QED
        BY <1>0, <2>2, <3>1, Entries DEF es
    <2>5. Append(es, First) \o rest = es \o calls
      <3>1. Append(es, First) = es \o <<First>>
        BY <2>4, AppendIsConcat
      <3>2. (es \o <<First>>) \o rest = es \o (<<First>> \o rest)
        BY <2>4, ConcatAssociative
      <3>. QED
        BY <2>2, <3>1, <3>2
    <2>6. \A k \in DOMAIN calls' : \E j \in DOMAIN calls : calls'[k] = calls[j]
      <3>1. \A k \in DOMAIN calls' :
               \/ k \in DOMAIN <<>> /\ calls'[k] = <<>>[k]
               \/ \E j \in DOMAIN calls : calls'[k] = calls[j]
        BY <1>0, <2>1, FollowsProperties
      <3>. QED
        BY <3>1
    <2>7. Fits(before, store', calls')
      <3>1. Executed(store') = Executed(store)
        BY <2>3 DEF Executed
      <3>2. store'.effects \o calls' = es \o calls
        BY <2>1, <2>3, <2>5 DEF rest
      <3>3. Fits(before, store, calls)
        BY DEF Kept
      <3>. QED
        BY <2>3, <2>6, <3>1, <3>2, <3>3 DEF Fits, es
    <2>8. before' = before /\ \A k \in DOMAIN <<>> : FALSE
      BY <1>6 DEF ExternalSucceeds
    <2>. QED
      BY <1>0, <2>1, <2>7, <2>8, KeptFollows
  <1>7. CASE Caught
    <2>1. PICK k \in DOMAIN calls :
             /\ calls[k].tag = "catch"
             /\ store' = calls[k].saved /\ calls[k].saved \in StoreIn(C)
             /\ Follows(C, <<ReplyOf(calls[k].poll)>>, k)
      BY <1>0, <1>7, CaughtIs
    <2>. DEFINE new == <<ReplyOf(calls[k].poll)>>
                rest == After(calls, k)
    <2>2. Fits(before, calls[k].saved, rest)
      BY <2>1 DEF Kept
    <2>3. \A i \in DOMAIN new : new[i].tag # "call" /\ new[i].tag # "catch"
      BY DEF ReplyOf
    <2>. HIDE DEF new, rest
    <2>4. /\ new \in Seq(Item(C)) /\ calls' = new \o rest /\ Follows(C, new, k)
          /\ rest \in Seq(Item(C)) /\ before' = before
      BY <1>0, <1>7, <2>1, FollowsProperties DEF Follows, Replaced, Caught, new, rest
    <2>5. Fits(before, calls[k].saved, new \o rest)
      BY <2>1, <2>2, <2>3, <2>4, FitsInserted
    <2>. QED
      BY <1>0, <2>1, <2>3, <2>4, <2>5, KeptFollows
  <1>8. CASE Abort
    BY <1>8 DEF Abort, Kept
  <1>9. ASSUME calls # <<>>, ~(First.tag = "call" /\ First.call = ExternalCall),
               Follows(C, <<>>, 1), Executed(store') = Executed(store), before' = before,
               \A id \in Polls : \A w :
                  Carried(id, store.poll[id], store.effects \o w) =>
                    Carried(id, store'.poll[id], store'.effects \o w)
        PROVE  Kept'
    <2>1. Fits(before, store, After(calls, 1)) /\ After(calls, 1) \in Seq(Item(C))
      BY <1>0, <1>9, KeptAfterFirst
    <2>2. calls' = After(calls, 1)
      <3>1. calls' = <<>> \o After(calls, 1)
        BY <1>9 DEF Follows, Replaced
      <3>. QED
        BY <2>1, <3>1, ConcatEmptySeq
    <2>3. Fits(before, store', calls')
      BY <1>9, <2>1, <2>2 DEF Fits
    <2>4. \A k \in DOMAIN <<>> : FALSE
      OBVIOUS
    <2>. QED
      BY <1>0, <1>9, <2>3, <2>4, KeptFollows
  <1>10. CASE SubmessageSucceeds
    <2>1. /\ calls # <<>> /\ First.tag = "catch" /\ store' = store
          /\ Follows(C, <<>>, 1) /\ before' = before
      BY <1>0, <1>10, SubmessageSucceedsIs DEF SubmessageSucceeds
    <2>. QED
      BY <1>9, <2>1
  <1>11. CASE FailPoll
    <2>. DEFINE id == store.tmp_poll_id
    <2>1. /\ First = calls[1] /\ calls # <<>> /\ First.tag = "reply"
          /\ store' = [store EXCEPT !.poll[id].status = "failed"]
          /\ Follows(C, <<>>, 1) /\ before' = before
      BY <1>0, <1>11, FailPollIs DEF FailPoll
    <2>2. id \in Polls /\ store.poll[id].status = "passed"
      <3>1. 1 \in DOMAIN calls /\ First \in Item(C)
        BY <1>0, <2>1, FirstIs
      <3>2. ReadyToFail(store, First.poll)
        BY <2>1, <3>1 DEF Guarded
      <3>3. First.poll \in Polls
        BY <1>0, <2>1, <3>1, ItemByTag
      <3>. QED
        BY <3>2, <3>3 DEF ReadyToFail
    <2>. HIDE DEF id
    <2>3. store.poll \in [Polls -> PollIn(C)] /\ store.poll[id] \in PollIn(C)
      BY <1>0, <2>2 DEF StoreIn
    <2>4. /\ store'.effects = store.effects
          /\ store'.poll = [store.poll EXCEPT ![id] = [store.poll[id] EXCEPT !.status = "failed"]]
      BY <1>0, <2>1 DEF StoreIn
    <2>5. /\ \A i \in Polls \ {id} : store'.poll[i] = store.poll[i]
          /\ store'.poll[id].status = "failed" /\ SameMessages(store.poll[id], store'.poll[id])
      BY <2>2, <2>3, <2>4 DEF PollIn, SameMessages
    <2>6. Executed(store') = Executed(store)
      BY <2>2, <2>5 DEF Executed
    <2>7. \A i \in Polls : \A w :
             Carried(i, store.poll[i], store.effects \o w) =>
               Carried(i, store'.poll[i], store'.effects \o w)
      BY <2>2, <2>4, <2>5, SameMessagesCarried
    <2>. QED
      BY <1>9, <2>1, <2>6, <2>7
  <1>. QED
    BY <1>1, <1>2, <1>3, <1>4, <1>5, <1>6, <1>7, <1>8, <1>10, <1>11, OwnRequests
       DEF Next, Step, Uncaught, OutOfGas

-----------------------------------------------------------------------------
(* The theorems of polls that leave the Yourself entry point alone *)

IInv == TypeIn(Request) /\ Guarded /\ TypeIn(Quiet) /\ MessagesRun /\ Kept

THEOREM Inductive == ASSUME NoYourself PROVE Spec => []IInv
  <1>1. Quiet \subseteq Request
    BY DEF Quiet
  <1>2. Init => IInv
    <2>. SUFFICES ASSUME Init PROVE IInv
      OBVIOUS
    <2>1. TypeIn(Request) /\ TypeIn(Quiet)
      BY AllRequests, TypeInit DEF NoYourself
    <2>2. Guarded /\ MessagesRun
      BY DEF Init, Guarded, MessagesRun
    <2>. QED
      BY <2>1, <2>2, KeptInit DEF IInv
  <1>3. IInv /\ [Next]_vars => IInv'
    <2>. SUFFICES ASSUME IInv, [Next]_vars PROVE IInv'
      OBVIOUS
    <2>1. TypeIn(Request)' /\ Guarded'
      BY TypeNext, GuardedNext DEF IInv
    <2>2. TypeIn(Quiet)' /\ MessagesRun'
      BY <1>1, TypeNext, MessagesRunNext DEF IInv
    <2>3. Kept'
      BY KeptNext DEF IInv
    <2>. QED
      BY <2>1, <2>2, <2>3 DEF IInv
  <1>. QED
    BY <1>2, <1>3, PTL DEF Spec

\* Between transactions an executed poll has had all its messages carried out,
\* each once and in their order, and no other poll has had any: wherever an
\* execution failed, and however executions were nested.
THEOREM ExecutionIsAtomic == ASSUME NoYourself PROVE Spec => []AtomicExecution
  <1>1. IInv => AtomicExecution
    <2>. SUFFICES ASSUME IInv, calls = <<>>, NEW id \in Polls
                  PROVE  LET done == EffectsOf(id)
                         IN  /\ {done[k].of : k \in DOMAIN done} =
                                   IF Status(id) = "executed"
                                   THEN Externals(id, store.poll[id]) ELSE {}
                             /\ \A j, k \in DOMAIN done :
                                   j < k => Precedes(store.poll[id], done[j].of, done[k].of)
      BY DEF AtomicExecution, Idle
    <2>1. store.effects \in Seq(Done)
      BY DEF IInv, TypeIn, StoreIn
    <2>2. store.effects \o <<>> = store.effects
      BY <2>1, ConcatEmptySeq
    <2>3. Carried(id, store.poll[id], store.effects)
      BY <2>2 DEF IInv, Kept, Fits
    <2>. QED
      BY <2>1, <2>3, CarriedFiltered DEF EffectsOf, Status
  <1>. QED
    BY <1>1, Inductive, PTL

\* A step makes a poll executed only if it was passed, or was executed already.
PassedRuns ==
    \A id \in Polls :
        store'.poll[id].status = "executed" => Status(id) \in {"passed", "executed"}

LEMMA PassedRunsNext == ASSUME IInv, [Next]_vars PROVE PassedRuns
  <1>. DEFINE C == Request
  <1>0. /\ C \subseteq Request /\ TypeIn(C) /\ store \in StoreIn(C) /\ Guarded
        /\ MessagesRun /\ Kept
    BY DEF TypeIn, IInv
  <1>. HIDE DEF C
  <1>1. SUFFICES ASSUME NEW id \in Polls, store'.poll[id].status = "executed"
                 PROVE  Status(id) \in {"passed", "executed"}
    BY DEF PassedRuns
  <1>2. CASE store' = store
    BY <1>1, <1>2 DEF Status
  <1>3. CASE ExecutePoll
    <2>1. PICK i \in Polls : store' = TmpStored(i)
      BY <1>0, <1>3, ExecutePollIs
    <2>2. store'.poll = store.poll
      BY <1>0, <2>1 DEF TmpStored, StoreIn
    <2>. QED
      BY <1>1, <2>2 DEF Status
  <1>4. CASE ExecutePollMessages
    <2>1. PICK i \in Polls :
             /\ First = calls[1] /\ calls # <<>>
             /\ First.tag = "call" /\ First.call.op = "execute_poll_msgs"
             /\ First.sender = Gov /\ First.call.poll = i
             /\ store' = MarkedExecuted(i)
      BY <1>0, <1>4, ExecutePollMessagesIs
    <2>2. 1 \in DOMAIN calls
      BY <1>0, <2>1, FirstIs
    <2>3. Status(i) = "passed"
      BY <1>0, <2>1, <2>2 DEF MessagesRun
    <2>4. id # i => store'.poll[id] = store.poll[id]
      BY <1>0, <2>1 DEF MarkedExecuted, StoreIn
    <2>. QED
      BY <1>1, <2>3, <2>4 DEF Status
  <1>5. CASE ExternalSucceeds
    <2>1. store' = [store EXCEPT !.effects = Append(store.effects, First)]
      BY <1>0, <1>5, ExternalSucceedsIs
    <2>2. store'.poll = store.poll
      BY <1>0, <2>1 DEF StoreIn
    <2>. QED
      BY <1>1, <2>2 DEF Status
  <1>6. CASE Caught
    <2>1. PICK k \in DOMAIN calls : calls[k].tag = "catch" /\ store' = calls[k].saved
      BY <1>0, <1>6, CaughtIs
    <2>2. Executed(store') \subseteq Executed(store)
      BY <1>0, <2>1 DEF Kept, Fits
    <2>. QED
      BY <1>1, <2>2 DEF Executed, Status
  <1>7. CASE Abort
    <2>1. Executed(store') \subseteq Executed(store)
      BY <1>0, <1>7 DEF Abort, Kept, Fits
    <2>. QED
      BY <1>1, <2>1 DEF Executed, Status
  <1>8. CASE FailPoll
    <2>1. store' = [store EXCEPT !.poll[store.tmp_poll_id].status = "failed"]
      BY <1>0, <1>8, FailPollIs
    <2>2. store'.poll[id].status \in {"failed", store.poll[id].status}
      BY <1>0, <2>1 DEF StoreIn, PollIn
    <2>. QED
      BY <1>1, <2>2 DEF Status
  <1>9. CASE SubmessageSucceeds
    BY <1>2, <1>9 DEF SubmessageSucceeds
  <1>10. ASSUME NEW user \in Users, NEW c, Begin(user, c)
         PROVE  Status(id) \in {"passed", "executed"}
    BY <1>2, <1>10 DEF Begin
  <1>11. ASSUME NEW i \in Polls, TimelockExpires(i)
         PROVE  Status(id) \in {"passed", "executed"}
    BY <1>2, <1>11 DEF TimelockExpires
  <1>12. CASE UNCHANGED vars
    BY <1>2, <1>12 DEF vars
  <1>. QED
    BY <1>3, <1>4, <1>5, <1>6, <1>7, <1>8, <1>9, <1>10, <1>11, <1>12
       DEF Next, Step, Uncaught, OutOfGas

\* Nothing but a passed poll has its messages run.
THEOREM PassedPollsRun == ASSUME NoYourself PROVE Spec => OnlyPassedPollsRun
  <1>1. IInv /\ [Next]_vars =>
           [\A id \in Polls :
              store'.poll[id].status = "executed" => Status(id) \in {"passed", "executed"}]_vars
    BY PassedRunsNext DEF PassedRuns
  <1>. QED
    BY <1>1, Inductive, PTL DEF Spec, OnlyPassedPollsRun

=============================================================================

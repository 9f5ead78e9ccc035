------------------------------- MODULE CosmMath -------------------------------
(***************************************************************************)
(* The integer arithmetic of cosmwasm_std and the iterators of Rust that   *)
(* the contracts are built from.  The libraries are not part of the        *)
(* repository: these operators say what the contracts rely on.  The        *)
(* arithmetic aborts the transaction on a zero denominator or a negative   *)
(* difference, so a handler that uses it carries the corresponding guard.  *)
(***************************************************************************)
EXTENDS Integers, FiniteSets

\* Uint128::multiply_ratio: a * n / d, rounded down (256 bit intermediate).
MultiplyRatio(a, n, d) == (a * n) \div d

\* Decimal::from_ratio, the Decimal being its integer of `fractional` ths.
FromRatio(fractional, n, d) == (n * fractional) \div d

\* Uint128 * Decimal, rounded down.
TimesDecimal(fractional, a, decimal) == MultiplyRatio(a, decimal, fractional)

\* Ord::min, Ord::max, and Iterator::max().unwrap_or_default() over a set of naturals.
MinOf(a, b) == IF a <= b THEN a ELSE b
MaxOf(a, b) == IF a >= b THEN a ELSE b
MaxOrZero(S) == IF S = {} THEN 0 ELSE CHOOSE m \in S : \A n \in S : n <= m

\* A finite set in the order of `before`, the pairs of a strict total order.
Rank(S, before, x) == Cardinality({y \in S : <<y, x>> \in before})
Arranged(S, before) ==
    [r \in 1..Cardinality(S) |-> CHOOSE x \in S : Rank(S, before, x) = r - 1]

\* Iterator::filter and Vec::retain: the entries at the indices `kept`.
Filtered(list, kept) ==
    LET order == Arranged(kept, {p \in kept \X kept : p[1] < p[2]})
    IN  [r \in DOMAIN order |-> list[order[r]]]

=============================================================================

----------------------------- MODULE MCRangeQueries -----------------------------
(* Small instances of RangeQueries.                                          *)
EXTENDS RangeQueries

\* Two limits within MAX_LIMIT, the default, and one above MAX_LIMIT.
MCLimits == {0, 1, NONE, 5}

\* Both orders with all limits, the default order with the default limit; polls
\* of any status, of two statuses; voters of the first poll.
MCRequests ==
    {r \in Request : /\ r.order_by = NONE => r.limit = NONE
                     /\ r.list = "polls" => r.filter \in {NONE, "in_progress", "passed"}
                     /\ r.list = "voters" => r.poll = 1}

=============================================================================

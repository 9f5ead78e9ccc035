------------------------------ MODULE RangeQueries ------------------------------
(***************************************************************************)
(* The paged queries: query_polls and query_voters of governance, and      *)
(* query_vesting_accounts of vesting.  Each answers with one page of a     *)
(* range of storage keys, and its callers walk through the range by asking *)
(* for what comes after the last key they got, while messages go on        *)
(* changing the storage between two pages.                                 *)
(*                                                                         *)
(* Poll ids are big-endian in their keys and addresses compare byte by     *)
(* byte: a key is a natural.  The caller is not part of the repository,    *)
(* and one walk is looked at; only the keys it asks for change here, as no *)
(* others can be seen in its pages.  Mut_X is X with a plausible mistake.  *)
(***************************************************************************)
EXTENDS CosmMath, FiniteSetsExt, SequencesExt

CONSTANTS
    MaxPolls,        \* bound on the number of polls
    Accounts,        \* addresses that vote or are registered
    NONE,            \* Option::None
    Limits,          \* the limits callers ask for
    Requests,        \* what callers ask for
    DEFAULT_LIMIT,   \* 10 in the code
    MAX_LIMIT        \* 30 in the code

PollStatus == {"in_progress", "passed", "rejected", "executed", "failed"}

\* QueryMsg::Polls, QueryMsg::Voters and vesting's QueryMsg::VestingAccounts.
Request ==
    [list: {"polls"}, filter: PollStatus \cup {NONE}, limit: Limits, order_by: {"asc", "desc", NONE}]
      \cup [list: {"voters"}, poll: 1..MaxPolls, limit: Limits, order_by: {"asc", "desc", NONE}]
      \cup [list: {"vesting_accounts"}, limit: Limits, order_by: {"asc", "desc", NONE}]

ASSUME RequestsAssumption == Requests \subseteq Request
ASSUME AccountsAssumption == Accounts \subseteq Nat /\ IsFiniteSet(Accounts)
ASSUME LimitsAssumption ==
    /\ Limits \subseteq Nat \cup {NONE} /\ NONE \notin Nat
    /\ MaxPolls \in Nat /\ DEFAULT_LIMIT \in Nat \ {0} /\ MAX_LIMIT \in Nat \ {0}

VARIABLES
    request,   \* what the caller asks for, page after page
    status,    \* POLL: the status of the polls, by id; POLL_INDEXER has them under it
    left,      \* POLL_INDEXER: what it still has under the filter from earlier
    keyed,     \* POLL_VOTER of the poll asked for, or PREFIX_KEY_VESTING_INFO
    cursor,    \* the caller's start_after
    met,       \* how often the pages so far had a key: 0, 1, or 2 for more
    done,      \* the caller got an empty page
    stayed     \* history: what was in the range ever since the walk began

vars == <<request, status, left, keyed, cursor, met, done, stayed>>

\* Everything but OrderBy::Asc is read downwards, the default included.
Ascending(order_by) == order_by = "asc"
Before(order_by, k, l) == IF Ascending(order_by) THEN k < l ELSE k > l

AnyKey == 1..MaxPolls \cup Accounts

\* Every variable has its type, and the cursor is the furthest key that was met.
TypeOK ==
    /\ request \in Requests
    /\ status \in Seq(PollStatus) /\ Len(status) <= MaxPolls
    /\ left \subseteq DOMAIN status
    /\ keyed \subseteq Accounts
    /\ met \in [AnyKey -> 0..2]
    /\ IF cursor = NONE
       THEN \A k \in AnyKey : met[k] = 0
       ELSE cursor \in AnyKey /\ met[cursor] > 0 /\ \A k \in AnyKey :
                met[k] > 0 => ~Before(request.order_by, cursor, k)
    /\ done \in BOOLEAN
    /\ stayed \subseteq AnyKey

-----------------------------------------------------------------------------
(* read_polls, read_poll_voters, read_vesting_infos *)

EffectiveLimit(limit) == MinOf(IF limit = NONE THEN DEFAULT_LIMIT ELSE limit, MAX_LIMIT)

\* calc_range_start and calc_range_end, with exclusive bounds.
Mut_Inclusive(keys, start_after, order_by) ==
    {k \in keys : \/ start_after = NONE
                  \/ IF Ascending(order_by) THEN k >= start_after ELSE k <= start_after}
Mut_StartOneLater(keys, start_after, order_by) ==
    {k \in keys : \/ start_after = NONE
                  \/ IF Ascending(order_by) THEN k > start_after + 1 ELSE k < start_after}
InRange(keys, start_after, order_by) ==
    {k \in keys : \/ start_after = NONE
                  \/ IF Ascending(order_by) THEN k > start_after ELSE k < start_after}

\* range(start, end, order).take(limit)
Sorted(keys, order_by) ==
    Arranged(keys, {p \in keys \X keys : Before(order_by, p[1], p[2])})
Taken(list, limit) == SubSeq(list, 1, MinOf(limit, Len(list)))

Mut_AllKeys(keys, start_after, limit, order_by) ==
    Taken(Sorted(keys, order_by), EffectiveLimit(limit))
Page(keys, start_after, limit, order_by) ==
    Taken(Sorted(InRange(keys, start_after, order_by), order_by), EffectiveLimit(limit))

-----------------------------------------------------------------------------
(* query_polls, query_voters, query_vesting_accounts *)

Exists(id) == id \in DOMAIN status

\* The keys a query ranges over.  POLL_INDEXER has each poll under its status,
\* and some that another poll ran under an earlier one
\* (Governance!IndexMatchesStatus); a poll that is over shows no voters.
PollKeys(filter) == {id \in DOMAIN status : filter \in {NONE, status[id]}} \cup left
VoterKeys(id) == IF Exists(id) /\ status[id] = "in_progress" THEN keyed ELSE {}
VestingAccountKeys == keyed

Keys(r) ==
    CASE r.list = "polls" -> PollKeys(r.filter)
      [] r.list = "voters" -> VoterKeys(r.poll)
      [] r.list = "vesting_accounts" -> VestingAccountKeys

\* "Poll does not exist" is the only error.
Answers(r) == r.list = "voters" => Exists(r.poll)

Answer(r, start_after) == Page(Keys(r), start_after, r.limit, r.order_by)

-----------------------------------------------------------------------------
(* The caller *)

Mut_FirstOfPage(page) == Head(page)
NextCursor(page) == Last(page)

NextPage ==
    /\ ~done
    /\ Answers(request)
    /\ \E page \in {Answer(request, cursor)} :
           IF page = <<>>
           THEN done' = TRUE /\ UNCHANGED <<cursor, met>>
           ELSE /\ met' = [k \in AnyKey |-> IF k \in Range(page) THEN MinOf(met[k] + 1, 2) ELSE met[k]]
                /\ cursor' = NextCursor(page)
                /\ UNCHANGED done
    /\ UNCHANGED <<request, status, left, keyed, stayed>>

-----------------------------------------------------------------------------
(* The messages that change what is listed *)

\* The polls that matter to the request are 1..Listed.
Listed ==
    CASE request.list = "polls" -> MaxPolls
      [] request.list = "voters" -> request.poll
      [] OTHER -> 0

Stays == stayed' = stayed \cap Keys(request)'

\* create_poll
CreatePoll ==
    /\ Len(status) < Listed
    /\ status' = Append(status, "in_progress")
    /\ UNCHANGED <<request, left, keyed, cursor, met, done>>
    /\ Stays

\* end_poll, and execute_poll with its reply.
MayBecome(from) ==
    CASE from = "in_progress" -> {"passed", "rejected"}
      [] from = "passed" -> {"executed", "failed"}
      [] OTHER -> {}
MovePoll(id) ==
    /\ \E to \in MayBecome(status[id]) : status' = [status EXCEPT ![id] = to]
    /\ UNCHANGED <<request, left, keyed, cursor, met, done>>
    /\ Stays

\* execute_poll_messages, by the message of another poll: it removes nothing but
\* "passed" from the index.
RunPoll(id) ==
    /\ status[id] # "executed"
    /\ status' = [status EXCEPT ![id] = "executed"]
    /\ left' = IF /\ request.list = "polls" /\ request.filter = status[id]
                  /\ status[id] # "passed"
               THEN left \cup {id} ELSE left
    /\ UNCHANGED <<request, keyed, cursor, met, done>>
    /\ Stays

\* cast_vote in the poll asked for, or register_vesting_accounts.  A ballot is
\* only removed after its poll, a vesting account never.
AddAccount(a) ==
    /\ request.list = "voters" => Exists(request.poll) /\ status[request.poll] = "in_progress"
    /\ request.list # "polls"
    /\ keyed' = keyed \cup {a}
    /\ UNCHANGED <<request, status, left, cursor, met, done>>
    /\ Stays

\* withdraw_voting_tokens forgets the ballots of polls that are over.
RemoveVoter(a) ==
    /\ request.list = "voters" /\ a \in keyed
    /\ status[request.poll] # "in_progress"
    /\ keyed' = keyed \ {a}
    /\ UNCHANGED <<request, status, left, cursor, met, done>>
    /\ Stays

\* The walk may begin in any state of the storage: only polls that exist have
\* voters.
Init ==
    /\ request \in Requests
    /\ status \in UNION {[1..n -> PollStatus] : n \in 0..Listed}
    /\ left \in IF /\ request.list = "polls"
                   /\ request.filter \in {"in_progress", "rejected", "failed"}
                THEN SUBSET {id \in DOMAIN status : status[id] = "executed"} ELSE {{}}
    /\ keyed \in IF \/ request.list = "vesting_accounts"
                    \/ request.list = "voters" /\ Exists(request.poll)
                 THEN SUBSET Accounts ELSE {{}}
    /\ cursor = NONE /\ met = [k \in AnyKey |-> 0] /\ done = FALSE
    /\ stayed = Keys(request)

Next ==
    \/ NextPage
    \/ CreatePoll
    \/ \E id \in DOMAIN status : MovePoll(id) \/ RunPoll(id)
    \/ \E a \in Accounts : AddAccount(a) \/ RemoveVoter(a)

\* The caller goes on asking.
Spec == Init /\ [][Next]_vars /\ WF_vars(NextPage)

-----------------------------------------------------------------------------
(* Properties *)

\* A walk meets each key at most once, however polls change their status and
\* accounts are added between two pages.
NoDuplicates == \A k \in AnyKey : met[k] <= 1

\* When the walk is over it has met all that was listed from its first page to
\* its last, whatever came, left or was cut by the limit in the meantime.
CompleteWalk ==
    done /\ EffectiveLimit(request.limit) > 0 => \A k \in stayed : met[k] > 0

\* Every walk of an existing list comes to an empty page, although the list may
\* grow behind and in front of the cursor.
WalkEnds == Answers(request) ~> done

=============================================================================

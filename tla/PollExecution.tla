---------------------------- MODULE PollExecution ----------------------------
(***************************************************************************)
(* contracts/governance: how a passed poll is executed, call by call.      *)
(*                                                                         *)
(* Governance.tla takes execute_poll as one step.  Here that step is the   *)
(* transaction it really is: execute_poll answers with a submessage to the *)
(* contract itself, that one answers with the messages of the poll, each   *)
(* of which may call the contract again to execute another poll, and any   *)
(* of which may fail.  A failure takes back everything since the nearest   *)
(* submessage that asked for a reply, then `reply` fails the poll that     *)
(* TMP_POLL_ID names; if there is none, the whole transaction is undone.   *)
(*                                                                         *)
(* `calls` is what the virtual machine (external) still has to do, first   *)
(* things first: calls run depth first, the ones a handler answers with    *)
(* before whatever was pending.                                            *)
(*                                                                         *)
(* As in Governance.tla, Mut_X is X with a plausible mistake.              *)
(***************************************************************************)
EXTENDS CosmMath, Sequences

CONSTANTS
    Polls,      \* ids of the polls
    Users,      \* accounts that send messages
    Gov,        \* the governance contract's own address
    NONE,       \* no poll
    InitPolls,  \* the polls, with their messages and statuses, to start from
    MaxCalls    \* bound on the calls pending at once

\* What a call asks for: something of another contract, or of this one.
Request ==
    [op: {"external"}, poll: {NONE}]
      \cup [op: {"execute_poll", "execute_poll_msgs"}, poll: Polls]

\* ExecuteData and MigrateData: an order, and the call to make.
MessageType == [order: Nat, call: Request]
PollType ==
    [status: {"in_progress", "passed", "rejected", "executed", "failed"},
     execute_data: Seq(MessageType), migrate_data: Seq(MessageType)]

ASSUME GovIsNoUser == Gov \notin Users
ASSUME NoneIsNoPoll == NONE \notin Polls
\* `effects` start empty, so no poll has been executed yet.
ASSUME InitPollsAssumption ==
    \A ps \in InitPolls :
        ps \in [Polls -> PollType] /\ \A id \in Polls : ps[id].status # "executed"

VARIABLES
    store,      \* what a rollback takes back: this contract's storage and
                \* `effects`, the calls that other contracts carried out
    expired,    \* the polls whose timelock has expired
    calls,      \* the calls, catches and replies to come in the transaction
    before      \* store before the transaction

vars == <<store, expired, calls, before>>

-----------------------------------------------------------------------------
(* Messages, and the items of `calls` *)

ExternalCall == [op |-> "external", poll |-> NONE]
ExecutePollCall(id) == [op |-> "execute_poll", poll |-> id]
ExecutePollMsgsCall(id) == [op |-> "execute_poll_msgs", poll |-> id]

\* `of` is the message that asks for the call, if any: its poll, list and place.
MessageAt(id, list, place) == [poll |-> id, list |-> list, place |-> place]
CallOf(sender, call, of) ==
    [tag |-> "call", sender |-> sender, call |-> call, of |-> of]

\* A submessage that asks for a reply if it fails, which restores `saved`.
CatchOf(id, saved) == [tag |-> "catch", poll |-> id, saved |-> saved]
ReplyOf(id) == [tag |-> "reply", poll |-> id]

Status(id) == store.poll[id].status

Idle == calls = <<>>
Running == calls # <<>> /\ Len(calls) <= MaxCalls   \* bound of the model
First == Head(calls)
Calling(op) == Running /\ First.tag = "call" /\ First.call.op = op

-----------------------------------------------------------------------------
(* execute_poll *)

\* contain_messages
HasMessages(id) ==
    store.poll[id].execute_data # <<>> \/ store.poll[id].migrate_data # <<>>

Mut_AnyStatus(id) == HasMessages(id) /\ id \in expired
MayExecute(id) == HasMessages(id) /\ Status(id) = "passed" /\ id \in expired

Mut_TmpKept(id) == store
TmpStored(id) == [store EXCEPT !.tmp_poll_id = id]

ExecutePoll ==
    /\ Calling("execute_poll")
    /\ LET id == First.call.poll
       IN  /\ MayExecute(id)
           /\ store' = TmpStored(id)
           /\ calls' = << CallOf(Gov, ExecutePollMsgsCall(id), NONE),
                          CatchOf(id, TmpStored(id)) >> \o Tail(calls)
    /\ UNCHANGED <<expired, before>>

-----------------------------------------------------------------------------
(* execute_poll_messages *)

\* sort() is stable, by `order` alone.
SortsBefore(msgs) ==
    {p \in (DOMAIN msgs) \X (DOMAIN msgs) :
        \/ msgs[p[1]].order < msgs[p[2]].order
        \/ msgs[p[1]].order = msgs[p[2]].order /\ p[1] < p[2]}
Sorted(msgs) == Arranged(DOMAIN msgs, SortsBefore(msgs))
CallsFor(id, list, msgs) ==
    LET place == Sorted(msgs)
    IN  [k \in DOMAIN place |->
            CallOf(Gov, msgs[place[k]].call, MessageAt(id, list, place[k]))]

\* The executions in their order, then the migrations in theirs.
CallsOf(id, p) ==
    CallsFor(id, "execute", p.execute_data) \o CallsFor(id, "migrate", p.migrate_data)

Mut_StatusKept(id) == store
MarkedExecuted(id) == [store EXCEPT !.poll[id].status = "executed"]

\* Only the contract itself may send this one; it looks at no status.
Mut_AnySender(sender) == TRUE
MayExecuteMessages(sender) == sender = Gov

ExecutePollMessages ==
    /\ Calling("execute_poll_msgs")
    /\ MayExecuteMessages(First.sender)
    /\ LET id == First.call.poll
       IN  /\ store' = MarkedExecuted(id)
           /\ calls' = CallsOf(id, store.poll[id]) \o Tail(calls)
    /\ UNCHANGED <<expired, before>>

-----------------------------------------------------------------------------
(* External contracts, failures and the reply *)

\* A contract the poll calls does what it is told.
ExternalSucceeds ==
    /\ Calling("external")
    /\ store' = [store EXCEPT !.effects = Append(@, First)]
    /\ calls' = Tail(calls)
    /\ UNCHANGED <<expired, before>>

\* The call at hand answers with an error.
CallFails ==
    \/ Calling("external")
    \/ Calling("execute_poll") /\ ~MayExecute(First.call.poll)
    \/ Calling("execute_poll_msgs") /\ ~MayExecuteMessages(First.sender)

Catches == {k \in 1..Len(calls) : calls[k].tag = "catch"}
NearestCatch == CHOOSE k \in Catches : \A j \in Catches : k <= j

\* An error is caught by the innermost submessage with a reply.
Restored(k) == calls[k].saved

Caught ==
    /\ CallFails /\ Catches # {}
    /\ store' = Restored(NearestCatch)
    /\ calls' = <<ReplyOf(calls[NearestCatch].poll)>>
                   \o SubSeq(calls, NearestCatch + 1, Len(calls))
    /\ UNCHANGED <<expired, before>>

Abort ==
    /\ store' = before
    /\ calls' = <<>>
    /\ UNCHANGED <<expired, before>>

Uncaught == CallFails /\ Catches = {} /\ Abort

\* No reply after a submessage that succeeds.
SubmessageSucceeds ==
    /\ Running /\ First.tag = "catch"
    /\ calls' = Tail(calls)
    /\ UNCHANGED <<store, expired, before>>

\* reply -> fail_poll of the poll in TMP_POLL_ID.
FailPoll ==
    /\ Running /\ First.tag = "reply"
    /\ store' = [store EXCEPT !.poll[store.tmp_poll_id].status = "failed"]
    /\ calls' = Tail(calls)
    /\ UNCHANGED <<expired, before>>

\* The gas of the transaction may run out at any point: no reply gets it back.
OutOfGas == calls # <<>> /\ Abort

-----------------------------------------------------------------------------
(* Transactions *)

Init ==
    /\ store \in [poll: InitPolls, tmp_poll_id: {NONE}, effects: {<<>>}]
    /\ expired = {}
    /\ calls = <<>>
    /\ before = store

\* A user sends a message to the contract.
Begin(user, call) ==
    /\ Idle
    /\ before' = store
    /\ calls' = <<CallOf(user, call, NONE)>>
    /\ UNCHANGED <<store, expired>>

\* Time passes between transactions.
TimelockExpires(id) ==
    /\ Idle /\ id \notin expired /\ Status(id) = "passed"
    /\ expired' = expired \cup {id}
    /\ UNCHANGED <<store, calls, before>>

Step ==
    \/ ExecutePoll
    \/ ExecutePollMessages
    \/ ExternalSucceeds
    \/ Caught
    \/ Uncaught
    \/ SubmessageSucceeds
    \/ FailPoll

Next ==
    \/ \E user \in Users, id \in Polls :
          Begin(user, ExecutePollCall(id)) \/ Begin(user, ExecutePollMsgsCall(id))
    \/ \E id \in Polls : TimelockExpires(id)
    \/ Step
    \/ OutOfGas

\* The virtual machine runs a transaction to its end.
Spec == Init /\ [][Next]_vars /\ WF_vars(Step)

-----------------------------------------------------------------------------
(* Properties *)

\* What the contracts called by poll `id` have been told.
EffectsOf(id) ==
    Filtered(store.effects, {k \in DOMAIN store.effects : store.effects[k].of.poll = id})

\* The messages of a poll that call other contracts.
ExternalsIn(id, list, msgs) ==
    {MessageAt(id, list, place) : place \in {i \in DOMAIN msgs : msgs[i].call = ExternalCall}}
Externals(id, p) ==
    ExternalsIn(id, "execute", p.execute_data) \cup ExternalsIn(id, "migrate", p.migrate_data)

\* Which of two messages of a poll is to be carried out first.
Sooner(msgs, i, j) ==
    \/ msgs[i].order < msgs[j].order
    \/ msgs[i].order = msgs[j].order /\ i < j
Precedes(p, a, b) ==
    \/ a.list = "execute" /\ b.list = "migrate"
    \/ a.list = "execute" /\ b.list = "execute" /\ Sooner(p.execute_data, a.place, b.place)
    \/ a.list = "migrate" /\ b.list = "migrate" /\ Sooner(p.migrate_data, a.place, b.place)

\* Between transactions, an executed poll has had each of its messages carried
\* out once, in their order and the migrations last; a poll in any other status
\* has left no trace, however far a failed execution of it got, on its own or
\* inside that of another poll.
AtomicExecution ==
    Idle => \A id \in Polls :
        LET done == EffectsOf(id)
        IN  /\ {done[k].of : k \in DOMAIN done} =
                  IF Status(id) = "executed" THEN Externals(id, store.poll[id]) ELSE {}
            /\ \A j, k \in DOMAIN done :
                  j < k => Precedes(store.poll[id], done[j].of, done[k].of)

\* The reply fails the poll whose submessage has failed, although TMP_POLL_ID is
\* one slot that the execution of a poll inside another overwrites.
ReplyFailsTheRightPoll ==
    calls # <<>> /\ First.tag = "reply" =>
        store.tmp_poll_id = First.poll /\ Status(First.poll) = "passed"

\* "Execute a msgs of passed poll", commands.rs:296: nothing but a passed poll
\* has its messages run.
OnlyPassedPollsRun ==
    [][\A id \in Polls :
         store'.poll[id].status = "executed" => Status(id) \in {"passed", "executed"}]_vars

\* Polls that execute each other do not go round for ever: each transaction ends.
TransactionsEnd == (calls # <<>>) ~> Idle

=============================================================================

----------------------------- MODULE PollLifecycle -----------------------------
(***************************************************************************)
(* What the governance contract promises about its polls, whatever their   *)
(* deposits, voters and prices are: a poll is created in progress, takes   *)
(* ballots until its end, keeps the first snapshot it is given, ends once, *)
(* and - if it passed and carries messages - is executed once, not before  *)
(* its timelock, to end executed or failed.  Once ended, its ballots and   *)
(* its snapshot never change again.                                        *)
(***************************************************************************)
EXTENDS Integers

CONSTANT NONE

VARIABLES
    polls,      \* id -> [status, yes, no, end_time, snapshot, executable]
    timelock,   \* the delay between the end of a poll and its execution
    now

lvars == <<polls, timelock, now>>

Status == {"in_progress", "passed", "rejected", "executed", "failed"}

LInit == polls = [i \in {} |-> NONE] /\ timelock \in Nat /\ now = 0

\* Poll `id` changes to p, the others stay.
Becomes(id, p) == polls' = [i \in DOMAIN polls \cup {id} |->
                               IF i = id THEN p ELSE polls[i]]

Create(id, end_time, executable) ==
    /\ id \notin DOMAIN polls /\ id > 0
    /\ id > 1 => id - 1 \in DOMAIN polls
    /\ end_time >= now
    /\ Becomes(id, [status |-> "in_progress", yes |-> 0, no |-> 0,
                    end_time |-> end_time, snapshot |-> NONE,
                    executable |-> executable])
    /\ UNCHANGED <<timelock, now>>

\* A ballot for or against, with or without the poll's first snapshot; or
\* the snapshot alone.
Vote(id, yes, no, snapshot) ==
    /\ polls[id].status = "in_progress"
    /\ now <= polls[id].end_time
    /\ yes >= polls[id].yes /\ no >= polls[id].no
    /\ yes = polls[id].yes \/ no = polls[id].no
    /\ polls[id].snapshot \in {NONE, snapshot}
    /\ Becomes(id, [status |-> "in_progress", yes |-> yes, no |-> no,
                    end_time |-> polls[id].end_time, snapshot |-> snapshot,
                    executable |-> polls[id].executable])
    /\ UNCHANGED <<timelock, now>>

\* A poll passes only with somebody for it.
End(id, status) ==
    /\ polls[id].status = "in_progress"
    /\ polls[id].end_time <= now
    /\ \/ status = "passed" /\ polls[id].yes > 0
       \/ status = "rejected"
    /\ Becomes(id, [polls[id] EXCEPT !.status = status])
    /\ UNCHANGED <<timelock, now>>

\* The messages of the poll may set the timelock of the next ones.
Execute(id, status) ==
    /\ polls[id].status = "passed" /\ polls[id].executable
    /\ polls[id].end_time + timelock <= now
    /\ status \in {"executed", "failed"}
    /\ Becomes(id, [polls[id] EXCEPT !.status = status])
    /\ timelock' \in Nat
    /\ status = "failed" => timelock' = timelock
    /\ UNCHANGED now

Configure == timelock' \in Nat /\ UNCHANGED <<polls, now>>

Advance == now' > now /\ UNCHANGED <<polls, timelock>>

\* One poll becomes what it is in the next state, or none does.
Change(id, p) ==
    \/ Create(id, p.end_time, p.executable)
    \/ /\ id \in DOMAIN polls
       /\ Vote(id, p.yes, p.no, p.snapshot) \/ End(id, p.status) \/ Execute(id, p.status)

LNext ==
    \/ \E id \in DOMAIN polls' : Change(id, polls'[id])
    \/ Configure
    \/ Advance

LSpec == LInit /\ [][LNext]_lvars

=============================================================================

--------------------------- MODULE MCPollExecution ---------------------------
(* Small instances of PollExecution.                                       *)
EXTENDS PollExecution

MCPolls == {1, 2, 3}

External(order) == [order |-> order, call |-> ExternalCall]
Executing(id, order) == [order |-> order, call |-> ExecutePollCall(id)]
Yourself(id, order) == [order |-> order, call |-> ExecutePollMsgsCall(id)]

Body(execute_data, migrate_data) ==
    [execute_data |-> execute_data, migrate_data |-> migrate_data]

PollOf(status, body) ==
    [status |-> status, execute_data |-> body.execute_data,
     migrate_data |-> body.migrate_data]

\* Lists out of order, with two messages that are the same, and a migration.
Plain == Body(<<External(2), External(1), External(1)>>, <<External(0)>>)
\* A poll - another or the same - executed before or after another contract is called.
Before(id) == Body(<<Executing(id, 1), External(2)>>, <<>>)
After(id) == Body(<<External(1), Executing(id, 2)>>, <<>>)
Bodies == {Plain} \cup {Before(id) : id \in MCPolls} \cup {After(id) : id \in MCPolls}

NestedPolls ==
    {[id \in MCPolls |->
        CASE id = 1 -> PollOf("passed", b1)
          [] id = 2 -> PollOf("passed", b2)
          [] id = 3 -> PollOf(status, b3)] :
        b1 \in Bodies, b2 \in Bodies, b3 \in {Plain, Before(1)},
        status \in {"in_progress", "passed"}}

\* A poll that has the contract run the messages of another one.
YourselfPolls ==
    {[id \in {1, 2} |->
        IF id = 1
        THEN PollOf("passed", Body(<<Yourself(2, 1)>>, <<>>))
        ELSE PollOf("in_progress", Body(<<External(1)>>, <<>>))]}

=============================================================================

---------------------------- MODULE MCProcessing ----------------------------
EXTENDS Processing

CONSTANTS alice, bob, task

MCGenesis == [a \in Accounts |-> [free |-> 4, reserved |-> 0]]
MCTerms == {new(task, 2, alice, bob)}

=============================================================================

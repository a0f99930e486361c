------------------------- MODULE MCGuildLogOperator -------------------------
(* The run with an operator is four instances in one, each with its own    *)
(* bounds on what the operator asks for, on events and on lost disks.      *)
EXTENDS MCGuildLog

VARIABLE instance

Bounds ==
    [administration |->
        [kinds |-> {"RemoveMember", "SetQuorum", "RevokeKey"}, events |-> 4, losses |-> 0],
     majority |->
        [kinds |-> {"RotateKey", "SetQuorum"}, events |-> 2, losses |-> 0],
     lostDisk |->
        [kinds |-> {"RemoveMember"}, events |-> 3, losses |-> 1],
     lostDisks |->
        [kinds |-> {"RemoveMember"}, events |-> 2, losses |-> 2]]

Within(b) ==
    /\ losses <= b.losses
    /\ \A n \in Nodes : \A t \in tasks[n] :
          /\ EventSequence(t.event) <= b.events
          /\ t.caller = "operator" => t.event.kind.type \in b.kinds

OperatorSpec ==
    /\ Init /\ instance \in DOMAIN Bounds
    /\ [][Next /\ UNCHANGED instance /\ Within(Bounds[instance])']_<<vars, instance>>

=============================================================================

--------------------------- MODULE MCParityVolumes ---------------------------
(***************************************************************************)
(* The circumstances a parity volume's node is checked in.                 *)
(***************************************************************************)
EXTENDS ParityVolumes

Circumstances(e, r, c) == [emergency |-> e, rot |-> r, cuts |-> c]
Holder == {Circumstances(FALSE, FALSE, TRUE)}
Nodes == Holder \cup {Circumstances(e, r, c) : <<e, r, c>> \in
    {<<FALSE, TRUE, TRUE>>, <<FALSE, TRUE, FALSE>>, <<FALSE, FALSE, FALSE>>, <<TRUE, FALSE, FALSE>>}}

=============================================================================

---------------------- MODULE MCParityVolumesInstances ----------------------
(***************************************************************************)
(* Instances of ParityVolumes: a behaviour belongs to one of them from its *)
(* first state and stays within its bounds.  Volumes beyond the instance's *)
(* are retired.                                                            *)
(***************************************************************************)
EXTENDS MCParityVolumes

VARIABLE instance

Of(vols, coding, repairs, draining, e, r, c) ==
    [vols |-> vols, coding |-> coding, repairs |-> repairs, draining |-> draining,
     setting |-> Circumstances(e, r, c)]
Bounds ==
    [repair     |-> Of(2, 1, 1, 1, FALSE, FALSE, TRUE),
     rot        |-> Of(2, 1, 1, 1, FALSE, TRUE, FALSE),
     cutRot     |-> Of(2, 1, 0, 0, FALSE, TRUE, TRUE),
     evacuation |-> Of(3, 1, 0, 1, FALSE, FALSE, FALSE),
     detachment |-> Of(3, 1, 1, 0, FALSE, FALSE, FALSE),
     successor  |-> Of(2, 2, 1, 0, FALSE, FALSE, FALSE),
     inherited  |-> Of(2, 2, 0, 1, FALSE, FALSE, FALSE),
     cutShort   |-> Of(1, 2, 0, 0, FALSE, FALSE, TRUE),
     emergency  |-> Of(2, 1, 2, 1, TRUE, FALSE, FALSE)]

\* A second attempt is followed until its group is in service; where rows rot,
\* one volume at a time is away, quarantined or damaged.
Within(b) ==
    /\ \A v \in Volumes : v > b.vols => disk.state[v] = "Retired"
    /\ \A x \in Coding : x > b.coding => life[x] = "none"
    /\ \A x \in Coding \ {1} : life[x] \notin {"retired", "forgotten"}
    /\ used \subseteq NCoding + 1 .. NCoding + b.repairs
    /\ Cardinality({v \in Volumes : disk.state[v] = "Draining"}) <= b.draining
    /\ b.setting.rot =>
         Cardinality({v \in 1 .. b.vols : \/ v \notin open
                                         \/ disk.state[v] = "Failed"
                                         \/ ~disk.obj[v].sound}) <= 1

VolumesInit ==
    /\ instance \in DOMAIN Bounds
    /\ Init
    /\ setting = Bounds[instance].setting
    /\ open = 1 .. Bounds[instance].vols
VolumesNext == Next /\ UNCHANGED instance /\ Within(Bounds[instance])'
VolumesSpec == VolumesInit /\ [][VolumesNext]_<<vars, instance>>

=============================================================================

---------------------------- MODULE MCApprovals ----------------------------
(* The instances of Approvals that TLC checks.                             *)
EXTENDS Approvals, TLC

CONSTANTS local, media, disk, cloud, alice

(* Two stores; the default is media, which is not the local one.           *)
MCStores ==
    [readable |-> TRUE, order |-> <<media>>, root |-> disk, default |-> Blank,
     config |-> (media :> cloud @@ local :> disk)]

(* After a change the default is the local store.                          *)
MCMoved == [MCStores EXCEPT !.default = local]

MCEnvironments == {MCStores, MCMoved}

=============================================================================

-------------------------- MODULE MCStoreRegistry --------------------------
(* The instances of StoreRegistry that TLC checks.                         *)
EXTENDS StoreRegistry, TLC

CONSTANTS local, media, backup, disk, cloud, other, alice, bob, eve, stdio

(* Two stores besides the implicit one; the first configured is media.     *)
TwoStores ==
    [readable |-> TRUE, order |-> <<media, backup>>, root |-> disk, default |-> Blank,
     config |-> (media :> cloud @@ backup :> other @@ local :> disk)]

(* The same after a change: backup is gone, the local store is configured  *)
(* first and the media store moved.                                        *)
Moved ==
    [TwoStores EXCEPT !.order = <<local, media>>,
                      !.config = (media :> other @@ backup :> other @@ local :> cloud)]

(* Explicit defaults, one of them no store; an unreadable registry.        *)
Explicit == [TwoStores EXCEPT !.default = backup]
Dangling == [Moved EXCEPT !.default = backup]
Unreadable == [TwoStores EXCEPT !.readable = FALSE]

MCEnvironments == {TwoStores, Moved, Explicit, Dangling, Unreadable}

MemberSymmetry == Permutations({alice, bob})

=============================================================================

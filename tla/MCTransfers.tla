---------------------------- MODULE MCTransfers ----------------------------
(* The instances of Transfers that TLC checks.                             *)
EXTENDS Transfers, TLC

CONSTANTS e, p

(* No bytes, or two.                                                       *)
MCSize == e :> 0 @@ p :> 2

(* The keys 2 and 3 have one target, like "a/x" and "a//x" under "a".      *)
MCTargetFor == [k \in Under |-> Lesser(k, 2)]

MCKeyFor == [f \in Below |-> f + 1]

(* A transfer may carry one payload of two bytes, in batches of two.       *)
Even == [max_get_bytes |-> 2, max_put_bytes |-> 2, max_transfer_bytes |-> 2,
         max_batch_keys |-> 2, max_list_keys |-> 3,
         allow_object_delete |-> Blank, allow_bucket_delete |-> Blank]

(* The governor's caps are below the transfer cap, and batches of one.     *)
Narrow == [Even EXCEPT !.max_get_bytes = 1, !.max_put_bytes = 1, !.max_batch_keys = 1]

(* One that load_limits rejects.                                           *)
Unreadable == [Even EXCEPT !.max_get_bytes = Malformed]

NarrowOnly == {Narrow}
AllEnvironments == {Even, Narrow, Unreadable}

=============================================================================

--------------------------- MODULE MCObjectTools ---------------------------
(* The instances of ObjectTools that TLC checks.                           *)
EXTENDS ObjectTools, TLC

CONSTANTS s1, s2, b1, b2, d1, d2, tmp, all

MCUnder == tmp :> {k \in Keys : k <= 3} @@ all :> Keys

MCSize == [v \in Payloads |-> IF v = d1 THEN 1 ELSE 2]

(* An environment in which everything is allowed and every cap is wide.    *)
Open == [max_get_bytes |-> 2, max_put_bytes |-> 2, max_transfer_bytes |-> 2,
         max_batch_keys |-> 2, max_list_keys |-> 3,
         allow_object_delete |-> Blank, allow_bucket_delete |-> "on"]

(* One with deletes off and a put cap that d2 is over.                     *)
Careful == [Open EXCEPT !.max_put_bytes = 1, !.allow_object_delete = "off",
                        !.allow_bucket_delete = Blank]

(* One that load_limits rejects.                                           *)
Broken == [Open EXCEPT !.max_get_bytes = Malformed]

(* One whose batches are of one key.                                       *)
Single == [Open EXCEPT !.max_batch_keys = 1]

(* One whose batches have no cap, and whose listings are of one key.       *)
Unbatched == [Open EXCEPT !.max_batch_keys = 0, !.max_list_keys = 1]

OpenOnly == {Open}
OpenOrCapped == {Open, Single, Unbatched}
AllEnvironments == {Open, Careful, Broken}

(* Neither servers nor buckets are told apart.                             *)
Symmetric == Permutations(Servers) \cup Permutations(Buckets)

=============================================================================

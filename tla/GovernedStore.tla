--------------------------- MODULE GovernedStore ---------------------------
(***************************************************************************)
(* What the safety governor promises about the store, whatever tools are   *)
(* called, in whatever order, by however many server processes: the        *)
(* abstract specification ObjectTools is shown to implement.               *)
(*                                                                         *)
(* A step writes one object, removes one object, makes or removes one      *)
(* bucket, or changes the settings. An object is removed only while some   *)
(* server has object deletes on, and never one whose key holds a wildcard  *)
(* character; a bucket is removed only when empty and while some server    *)
(* has bucket deletes on; an object lives only in a bucket that exists;    *)
(* and data that was not in the store comes in only if some server's put   *)
(* cap admits it.                                                          *)
(***************************************************************************)
CONSTANTS
    Buckets, Keys,
    WildKeys,   \* the keys holding a wildcard character
    Payloads,   \* what an object may contain
    Absent      \* the content of a location that holds no object

VARIABLES
    objects,         \* location -> payload or Absent
    buckets,         \* the buckets that exist
    objectDeletes,   \* some server may remove objects
    bucketDeletes,   \* some server may remove buckets
    admitted         \* the payloads some server's put cap lets in

vars == <<objects, buckets, objectDeletes, bucketDeletes, admitted>>

Locations == Buckets \X Keys

Housed == \A l \in Locations : objects[l] # Absent => l[1] \in buckets

Settings ==
    /\ objectDeletes \in BOOLEAN
    /\ bucketDeletes \in BOOLEAN
    /\ admitted \subseteq Payloads

Init ==
    /\ objects \in [Locations -> Payloads \cup {Absent}]
    /\ buckets \subseteq Buckets
    /\ Housed
    /\ Settings

Unset == <<objectDeletes, bucketDeletes, admitted>>

Write(l, v) ==
    /\ l[1] \in buckets
    /\ v \in admitted \cup {objects[m] : m \in Locations}
    /\ v # Absent
    /\ objects' = [objects EXCEPT ![l] = v]
    /\ UNCHANGED <<buckets, Unset>>

Remove(l) ==
    /\ objectDeletes
    /\ l[2] \notin WildKeys
    /\ objects' = [objects EXCEPT ![l] = Absent]
    /\ UNCHANGED <<buckets, Unset>>

AddBucket(b) ==
    /\ buckets' = buckets \cup {b}
    /\ UNCHANGED <<objects, Unset>>

RemoveBucket(b) ==
    /\ bucketDeletes
    /\ \A k \in Keys : objects[<<b, k>>] = Absent
    /\ buckets' = buckets \ {b}
    /\ UNCHANGED <<objects, Unset>>

(* The settings change in any way; the store does not change with them.    *)
Reset == UNCHANGED <<objects, buckets>>

Next ==
    \/ Reset
    \/ \E l \in Locations : Remove(l) \/ \E v \in Payloads : Write(l, v)
    \/ \E b \in Buckets : AddBucket(b) \/ RemoveBucket(b)

Spec == Init /\ [][Next]_vars

=============================================================================

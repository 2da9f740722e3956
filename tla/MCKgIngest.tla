----------------------------- MODULE MCKgIngest -----------------------------
(* The instances of KgIngest that TLC checks.                              *)
EXTENDS KgIngest

CONSTANTS a1, a2

Object(store, bucket, key) ==
    [kind |-> "Object", store |-> store, bucket |-> <<bucket>>, key |-> key]

(* Two objects of one bucket, one of another bucket under the same key as  *)
(* the first, and one of a store with a slash in its name that has the     *)
(* identifier of the second.                                               *)
MCObjects ==
    {Object(<<"m">>, "b", <<"k">>), Object(<<"m">>, "b", <<"b", "k">>),
     Object(<<"m">>, "c", <<"k">>), Object(<<"m", "b">>, "b", <<"k">>)}

(* In a bucket the shorter key is listed last.                             *)
MCRank == [o \in MCObjects |-> 2 - Len(o.key)]

(* Those of the store without a slash.                                     *)
MCPlain == {o \in MCObjects : Len(o.store) = 1}

MCPlainRank == [o \in MCPlain |-> MCRank[o]]

=============================================================================

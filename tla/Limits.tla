------------------------------- MODULE Limits -------------------------------
(***************************************************************************)
(* The safety settings of the server and the caps computed from them       *)
(* (objectstore_mcp/config.py and the clamps of guard.py and               *)
(* mcp_objectstore.py).                                                    *)
(*                                                                         *)
(* A setting is what the process environment holds, before parsing: a cap  *)
(* is Blank (unset or white space), a number, or Malformed (text that      *)
(* int() rejects); a flag is Blank, "on" (a word of _TRUE) or "off" (any   *)
(* other word).                                                            *)
(***************************************************************************)
EXTENDS Integers, FiniteSets

CONSTANTS
    Blank,      \* an environment variable that is unset or white space
    Malformed,  \* a cap that int() cannot read
    None        \* an optional argument the caller left out

(* The three stand for no number: an unset or unreadable cap or an omitted *)
(* argument is never mistaken for one.                                     *)
ASSUME MarkersAssumption == {Blank, Malformed, None} \cap Nat = {}

RawCap == Nat \cup {Blank, Malformed}
RawFlag == {Blank, "on", "off"}

(* The variables load_limits reads: one environment of a server process.   *)
Setting == [max_get_bytes       : RawCap,
            max_put_bytes       : RawCap,
            max_transfer_bytes  : RawCap,
            max_batch_keys      : RawCap,
            max_list_keys       : RawCap,
            allow_object_delete : RawFlag,
            allow_bucket_delete : RawFlag]

AsInt(raw, default) == IF raw = Blank THEN default ELSE raw

AsBool(raw, default) == IF raw = Blank THEN default ELSE raw = "on"

(* load_limits returns; on a Malformed cap it raises instead, and so does  *)
(* every operation that loads the limits.                                  *)
Loads(e) ==
    Malformed \notin {e.max_get_bytes, e.max_put_bytes, e.max_transfer_bytes,
                      e.max_batch_keys, e.max_list_keys}

LoadLimits(e) ==
    [max_get_bytes       |-> AsInt(e.max_get_bytes, 10 * 1024 * 1024),
     max_put_bytes       |-> AsInt(e.max_put_bytes, 10 * 1024 * 1024),
     max_transfer_bytes  |-> AsInt(e.max_transfer_bytes, 100 * 1024 * 1024),
     max_batch_keys      |-> AsInt(e.max_batch_keys, 100),
     max_list_keys       |-> AsInt(e.max_list_keys, 1000),
     allow_object_delete |-> AsBool(e.allow_object_delete, TRUE),
     allow_bucket_delete |-> AsBool(e.allow_bucket_delete, FALSE)]

Lesser(a, b) == IF a <= b THEN a ELSE b

(* A faulty KeyCap: an omitted argument counts as zero.                    *)
KeyCapOmittedIsZero(asked, cap) == Lesser(IF asked = None THEN 0 ELSE asked, cap)

(* min(asked or cap, cap): Python's "or" takes the cap for None and for 0. *)
KeyCap(asked, cap) == Lesser(IF asked \in {None, 0} THEN cap ELSE asked, cap)

(* min(cap if asked is None else asked, cap): here 0 stays 0.              *)
ByteCap(asked, cap) == Lesser(IF asked = None THEN cap ELSE asked, cap)

(* The pages of at most n keys a store may return of a listing that        *)
(* matches S: the first n in key order.                                    *)
Pages(S, n) ==
    {P \in SUBSET S : /\ \A k \in P, j \in S : j < k => j \in P
                      /\ Cardinality(P) = Lesser(n, Cardinality(S))}

=============================================================================

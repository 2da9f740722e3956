--------------------------- MODULE MCS3Management ---------------------------
(* The instances of S3Management that TLC checks.                          *)
EXTENDS S3Management

CONSTANTS a1, a2, b1, b2, k1, t1, t2, logs, temp, all, cold

NoActs == [k \in Kinds |-> None]

(* A rule that expires; one, switched off, that moves; one that names a    *)
(* class and no days; one with days and no class; one that does nothing.   *)
Expiry == [id |-> logs, prefix |-> logs, enabled |-> TRUE,
           acts |-> [NoActs EXCEPT !["expiration"] = 1], days |-> None, class |-> None]
Moving == [id |-> temp, prefix |-> logs, enabled |-> FALSE,
           acts |-> NoActs, days |-> 0, class |-> cold]
MCRules == {Expiry, Moving, [Expiry EXCEPT !.class = cold],
            [Moving EXCEPT !.class = None], [Expiry EXCEPT !.acts = NoActs]}

(* Of others: a narrow one, one that moves twice, one with a date.         *)
MCForeign == {[RuleToS3(Expiry) EXCEPT !.id = temp, !.narrow = TRUE],
              [RuleToS3(Moving) EXCEPT !.transitions =
                  <<[days |-> 0, class |-> cold], [days |-> 1, class |-> cold]>>],
              [RuleToS3(Expiry) EXCEPT !.acts = NoActs, !.other = TRUE]}

=============================================================================

------------------------- MODULE S3ManagementProofs -------------------------
(* Theorems about the S3 management tools, for any agents, buckets, keys,  *)
(* rules and tags.                                                         *)
EXTENDS S3Management, TLAPS

LEMMA FirstOfSequence ==
    ASSUME NEW S, NEW s \in Seq(S), s # <<>>
    PROVE  /\ Len(s) \in Nat /\ Len(s) >= 1
           /\ s[1] \in S
<1>1. Len(s) \in Nat /\ DOMAIN s = 1 .. Len(s) /\ Len(s) # 0
  OBVIOUS
<1>2. s[1] \in S
  BY <1>1
<1> QED BY <1>1, <1>2

LEMMA DocumentKinds ==
    /\ \A b \in Buckets : Lifecycle(b) \in Documents /\ Lifecycle(b)[1] = "lifecycle"
    /\ \A b \in Buckets : Versioning(b) \in Documents /\ Versioning(b)[1] = "versioning"
    /\ \A b \in Buckets, k \in Keys :
          ObjectTags(b, k) \in Documents /\ ObjectTags(b, k)[1] = "tags"
    /\ \A doc \in Documents : doc[1] \in {"lifecycle", "versioning", "tags"}
BY DEF Documents, Lifecycle, Versioning, ObjectTags

(* What is put of an accepted rule is a document that does something.      *)
LEMMA PutIsDocument ==
    ASSUME NEW r \in Rule, Accepted(r)
    PROVE  RuleToS3(r) \in Document /\ Acts(RuleToS3(r))
<1>1. CASE r.days = None
  BY <1>1 DEF Rule, Accepted, RuleToS3, Document, Acts, Kinds
<1>2. CASE r.days # None
  <2>1. <<[days |-> r.days, class |-> r.class]>>
          \in Seq([days : Periods \cup {None}, class : Classes])
    BY <1>2 DEF Rule, Accepted
  <2>2. <<[days |-> r.days, class |-> r.class]>> # <<>>
    OBVIOUS
  <2> QED BY <1>2, <2>1, <2>2 DEF Rule, RuleToS3, Document, Acts
<1> QED BY <1>1, <1>2

(* What is shown of a document is a rule.                                  *)
LEMMA ShownIsRule ==
    ASSUME NEW d \in Document PROVE RuleFromS3(d) \in Rule
<1>1. FirstTransition(d).days \in Periods \cup {None}
      /\ FirstTransition(d).class \in Classes \cup {None}
  <2>1. CASE d.transitions = <<>>
    BY <2>1 DEF FirstTransition
  <2>2. CASE d.transitions # <<>>
    <3> DEFINE Transition == [days : Periods \cup {None}, class : Classes]
    <3>0. d.transitions \in Seq(Transition)
      BY DEF Document
    <3>1. d.transitions[1] \in Transition
      <4> HIDE DEF Transition
      <4> QED BY <2>2, <3>0, FirstOfSequence
    <3> QED BY <2>2, <3>1 DEF FirstTransition
  <2> QED BY <2>1, <2>2
<1>2. (IF d.narrow THEN EmptyPrefix ELSE d.prefix) \in Prefixes
  BY S3Assumption DEF Document
<1> QED BY <1>1, <1>2 DEF RuleFromS3, Rule, Document

(* A rule that is read and put back says all that the tools can say of it. *)
LEMMA PutBackKeeps ==
    ASSUME NEW d \in Document
    PROVE  Keeps(RuleToS3(RuleFromS3(d)), d)
<1> DEFINE r == RuleFromS3(d)
<1>1. /\ r.id = d.id /\ r.enabled = d.enabled /\ r.acts = d.acts
      /\ d.narrow \/ r.prefix = d.prefix
      /\ r.days = FirstTransition(d).days /\ r.class = FirstTransition(d).class
  BY DEF RuleFromS3
<1>2. ASSUME d.transitions # <<>>, d.transitions[1].days # None
      PROVE  r.days # None /\ d.transitions[1] = [days |-> r.days, class |-> r.class]
  <2> DEFINE Transition == [days : Periods \cup {None}, class : Classes]
  <2>1. d.transitions \in Seq(Transition)
    BY DEF Document
  <2>2. d.transitions[1] \in Transition
    <3> HIDE DEF Transition
    <3> QED BY <1>2, <2>1, FirstOfSequence
  <2>3. d.transitions[1] = [days |-> d.transitions[1].days, class |-> d.transitions[1].class]
    BY <2>2
  <2> HIDE DEF r, Transition
  <2> QED BY <1>1, <1>2, <2>3 DEF FirstTransition
<1> HIDE DEF r
<1>3. /\ RuleToS3(r).id = r.id /\ RuleToS3(r).enabled = r.enabled
      /\ RuleToS3(r).acts = r.acts /\ RuleToS3(r).prefix = r.prefix
      /\ r.days # None =>
           RuleToS3(r).transitions = <<[days |-> r.days, class |-> r.class]>>
  BY DEF RuleToS3
<1>4. Keeps(RuleToS3(r), d)
  BY <1>1, <1>2, <1>3 DEF Keeps
<1> QED BY <1>4 DEF r

(* A rule whose class goes with days reads back as it was put.             *)
LEMMA ReadBackIsSame ==
    ASSUME NEW r \in Rule, Paired(r)
    PROVE  RuleFromS3(RuleToS3(r)) = r
<1> DEFINE d == RuleToS3(r)
<1>1. /\ d.id = r.id /\ d.prefix = r.prefix /\ d.enabled = r.enabled /\ d.acts = r.acts
      /\ d.narrow = FALSE
      /\ d.transitions = IF r.days = None THEN <<>>
                         ELSE <<[days |-> r.days, class |-> r.class]>>
  BY DEF RuleToS3
<1>2. FirstTransition(d).days = r.days /\ FirstTransition(d).class = r.class
  <2>1. CASE r.days = None
    BY <1>1, <2>1 DEF FirstTransition, Paired
  <2>2. CASE r.days # None
    <3>1. d.transitions[1] = [days |-> r.days, class |-> r.class] /\ d.transitions # <<>>
      BY <1>1, <2>2
    <3> HIDE DEF d
    <3> QED BY <3>1 DEF FirstTransition
  <2> QED BY <2>1, <2>2
<1>3. r = [id |-> r.id, prefix |-> r.prefix, enabled |-> r.enabled, acts |-> r.acts,
           days |-> r.days, class |-> r.class]
  BY DEF Rule
<1> HIDE DEF d
<1>4. RuleFromS3(d) = r
  BY <1>1, <1>2, <1>3 DEF RuleFromS3
<1> QED BY <1>4 DEF d

-----------------------------------------------------------------------------
(* The three kinds of step.                                                *)

(* What a put tool lets through.                                           *)
Askable(doc, asked) == MayShow(doc, asked) /\ MayHold(doc, ToPut(doc, asked))

(* Others change the documents docs.                                       *)
OthersChange(docs) ==
    /\ there' \subseteq Documents
    /\ held' = [doc \in Documents |-> held'[doc]]
    /\ \A doc \in Documents : MayHold(doc, held'[doc])
    /\ \A doc \in Documents \ docs : held'[doc] = held[doc]
    /\ agent' = [x \in Agents |-> Outdated(x, docs)]

ReadStep == \E a \in Agents, doc \in Documents :
    \E absent \in SUBSET {"NoSuchLifecycleConfiguration", "NoSuchTagSet"} :
        Read(a, doc, absent)

ReplaceStep == \E a \in Agents, doc \in Documents : \E asked :
    Askable(doc, asked) /\ Replace(a, doc, asked)

OthersStep == \E docs \in SUBSET Documents : OthersChange(docs)

LEMMA RulesAskable ==
    ASSUME NEW b \in Buckets, NEW rules, rules \subseteq Rule,
           \A r \in rules : Accepted(r)
    PROVE  Askable(Lifecycle(b), rules)
<1>1. \A r \in rules : RuleToS3(r) \in Document /\ Acts(RuleToS3(r))
  BY PutIsDocument
<1> QED BY <1>1, DocumentKinds DEF Askable, MayShow, MayHold, ToPut, Acts

LEMMA ThinkableAreRules ==
    ASSUME TypeOK, NEW a \in Agents, NEW b \in Buckets
    PROVE  Thinkable(a, Lifecycle(b)) \subseteq Rule
BY S3Assumption, DocumentKinds DEF Thinkable, TypeOK, MayShow, NewAgent

LEMMA StepKinds ==
    ASSUME TypeOK, Next PROVE ReadStep \/ ReplaceStep \/ OthersStep
<1>1. ASSUME NEW a \in Agents, NEW b \in Buckets,
             GetBucketLifecycle(a, b) \/ GetBucketVersioning(a, b)
               \/ \E k \in Keys : GetObjectTags(a, b, k)
      PROVE  ReadStep
  BY <1>1, DocumentKinds
     DEF ReadStep, GetBucketLifecycle, GetBucketVersioning, GetObjectTags
<1>2. ASSUME NEW a \in Agents, NEW b \in Buckets,
             NEW rules \in SUBSET Thinkable(a, Lifecycle(b)),
             PutBucketLifecycle(a, b, rules)
      PROVE  ReplaceStep
  <2>1. Askable(Lifecycle(b), rules)
    BY <1>2, ThinkableAreRules, RulesAskable DEF PutBucketLifecycle
  <2> QED BY <1>2, <2>1, DocumentKinds DEF ReplaceStep, PutBucketLifecycle
<1>3. ASSUME NEW a \in Agents, NEW b \in Buckets, DeleteBucketLifecycle(a, b)
      PROVE  ReplaceStep
  <2>1. Askable(Lifecycle(b), {})
    BY RulesAskable
  <2> QED BY <1>3, <2>1, DocumentKinds DEF ReplaceStep, DeleteBucketLifecycle
<1>4. ASSUME NEW a \in Agents, NEW b \in Buckets, NEW status \in Statuses,
             PutBucketVersioning(a, b, status)
      PROVE  ReplaceStep
  <2>1. Askable(Versioning(b), {status})
    BY DocumentKinds DEF Askable, MayShow, MayHold, ToPut
  <2> QED BY <1>4, <2>1, DocumentKinds DEF ReplaceStep, PutBucketVersioning
<1>5. ASSUME NEW a \in Agents, NEW b \in Buckets, NEW k \in Keys,
             NEW tags \in SUBSET Tags,
             PutObjectTags(a, b, k, tags) \/ DeleteObjectTags(a, b, k)
      PROVE  ReplaceStep
  <2>1. Askable(ObjectTags(b, k), tags) /\ Askable(ObjectTags(b, k), {})
    BY DocumentKinds DEF Askable, MayShow, MayHold, ToPut
  <2> QED BY <1>5, <2>1, DocumentKinds DEF ReplaceStep, PutObjectTags, DeleteObjectTags
<1>6. ASSUME NEW doc \in Documents, NEW content, MayHold(doc, content),
             OthersReplace(doc, content)
      PROVE  OthersStep
  <2>1. OthersChange({doc})
    BY <1>6 DEF OthersReplace, OthersChange, TypeOK
  <2> QED BY <2>1 DEF OthersStep
<1>7. ASSUME NEW b \in Buckets, OthersRecreate(b) PROVE OthersStep
  <2> DEFINE docs == {doc \in Documents : doc[2] = b}
  <2>1. \A doc \in Documents : MayHold(doc, {})
    BY DocumentKinds DEF MayHold
  <2>2. OthersChange(docs)
    BY <1>7, <2>1 DEF OthersRecreate, OthersChange, TypeOK
  <2> QED BY <2>2 DEF OthersStep
<1>8. CASE OthersPut
  <2>1. \A b \in Buckets, rules \in SUBSET Foreign : MayHold(Lifecycle(b), rules)
    BY DocumentKinds, S3Assumption DEF MayHold
  <2>2. \A b \in Buckets, status \in Statuses : MayHold(Versioning(b), {status})
    BY DocumentKinds DEF MayHold
  <2>3. \A b \in Buckets, k \in Keys, tags \in SUBSET Tags : MayHold(ObjectTags(b, k), tags)
    BY DocumentKinds DEF MayHold
  <2> QED BY <1>6, <1>8, <2>1, <2>2, <2>3, DocumentKinds DEF OthersPut
<1> QED BY <1>1, <1>2, <1>3, <1>4, <1>5, <1>7, <1>8 DEF Next

-----------------------------------------------------------------------------
(* The invariant.                                                          *)

(* A well-typed entry of agent.                                            *)
EntryOK(e) == e = NewAgent \/
    /\ e = [did |-> e.did, of |-> e.of, stale |-> e.stale, value |-> e.value]
    /\ e.did \in {"read", "put", "tried"}
    /\ e.of \in Documents
    /\ e.stale \in BOOLEAN
    /\ MayShow(e.of, e.value)

LEMMA TypeByEntry ==
    TypeOK <=> /\ there \subseteq Documents
               /\ held = [doc \in Documents |-> held[doc]]
               /\ \A doc \in Documents : MayHold(doc, held[doc])
               /\ agent = [a \in Agents |-> agent[a]]
               /\ \A a \in Agents : EntryOK(agent[a])
BY DEF TypeOK, EntryOK

LEMMA ShownIsShowable ==
    ASSUME TypeOK, NEW doc \in Documents
    PROVE  MayShow(doc, Shown(doc, held[doc])) /\ MayShow(doc, {})
<1>1. MayHold(doc, held[doc])
  BY DEF TypeOK
<1>2. CASE doc[1] = "lifecycle"
  <2>1. Shown(doc, held[doc]) = {RuleFromS3(d) : d \in held[doc]}
    BY <1>2 DEF Shown
  <2>2. \A d \in held[doc] : RuleFromS3(d) \in Rule
    BY <1>1, <1>2, ShownIsRule DEF MayHold
  <2> QED BY <1>2, <2>1, <2>2 DEF MayShow
<1>3. CASE doc[1] # "lifecycle"
  <2>1. Shown(doc, held[doc]) = held[doc] /\ MayHold(doc, {})
    BY <1>3, DocumentKinds DEF Shown, MayHold
  <2> QED BY <1>1, <1>3, <2>1 DEF MayShow
<1> QED BY <1>2, <1>3

(* An entry that outdates is well typed, and of what changed it is stale.  *)
LEMMA OutdatedEntry ==
    ASSUME NEW x \in Agents, EntryOK(agent[x]), NEW docs
    PROVE  /\ EntryOK(Outdated(x, docs))
           /\ Outdated(x, docs).did = agent[x].did
           /\ agent[x] # NewAgent => Outdated(x, docs).of = agent[x].of
           /\ agent[x] # NewAgent => Outdated(x, docs).value = agent[x].value
           /\ agent[x] = NewAgent => Outdated(x, docs) = NewAgent
           /\ agent[x] # NewAgent /\ ~Outdated(x, docs).stale =>
                 ~agent[x].stale /\ agent[x].of \notin docs
<1>1. CASE agent[x] = NewAgent
  BY <1>1 DEF Outdated, NewAgent
<1>2. CASE agent[x] # NewAgent
  BY <1>2 DEF Outdated, EntryOK, NewAgent
<1> QED BY <1>1, <1>2

(* What an entry says of a content it is not out of date of.               *)
EntryKnows(e, content) ==
    e # NewAgent /\ ~e.stale =>
        /\ e.did = "read" => e.value = Shown(e.of, content[e.of])
        /\ e.did = "put" => content[e.of] = ToPut(e.of, e.value)

LEMMA InformedByEntry ==
    Informed <=> \A a \in Agents : EntryKnows(agent[a], held)
BY DEF Informed, EntryKnows, Knows, NewAgent

LEMMA ReadKeeps ==
    ASSUME IInv, ReadStep PROVE IInv'
<1> PICK a \in Agents, doc \in Documents,
         absent \in SUBSET {"NoSuchLifecycleConfiguration", "NoSuchTagSet"} :
         Read(a, doc, absent)
  BY DEF ReadStep
<1>0. /\ TypeOK /\ Informed /\ UNCHANGED <<there, held>>
      /\ \A x \in Agents : EntryOK(agent[x]) /\ EntryKnows(agent[x], held)
  BY TypeByEntry, InformedByEntry DEF IInv, Read
<1>1. PICK code \in ReadCodes(doc) :
        agent' = [agent EXCEPT ![a] =
             IF S3Call(code, absent) \in {"ok", "none"}
             THEN [did |-> "read", of |-> doc, stale |-> FALSE,
                   value |-> IF S3Call(code, absent) = "ok"
                             THEN Shown(doc, held[doc]) ELSE {}]
             ELSE NewAgent]
  BY DEF Read
<1>2. S3Call(code, absent) = "none" => held[doc] = {}
  BY DEF S3Call, ReadCodes
<1>3. EntryOK(agent'[a]) /\ EntryKnows(agent'[a], held)
  <2>1. CASE S3Call(code, absent) \in {"ok", "none"}
    <3>1. agent'[a] = [did |-> "read", of |-> doc, stale |-> FALSE,
                       value |-> Shown(doc, held[doc])]
      BY <1>0, <1>1, <1>2, <2>1 DEF TypeOK, Shown
    <3> QED BY <1>0, <3>1, ShownIsShowable DEF EntryOK, EntryKnows
  <2>2. CASE S3Call(code, absent) \notin {"ok", "none"}
    BY <1>0, <1>1, <2>2 DEF TypeOK, EntryOK, EntryKnows
  <2> QED BY <2>1, <2>2
<1>4. \A x \in Agents : EntryOK(agent'[x]) /\ EntryKnows(agent'[x], held)
  BY <1>0, <1>1, <1>3 DEF TypeOK
<1>5. agent' = [x \in Agents |-> agent'[x]]
  BY <1>0, <1>1 DEF TypeOK
<1>6. TypeOK'
  BY <1>0, <1>4, <1>5 DEF TypeOK, EntryOK
<1>7. Informed'
  BY <1>0, <1>4 DEF Informed, EntryKnows, Knows, NewAgent
<1> QED BY <1>6, <1>7 DEF IInv

(* A step that outdates what the others know of docs, and no more.         *)
LEMMA OutdatingKeeps ==
    ASSUME IInv, NEW docs, NEW x \in Agents,
           \A doc \in Documents \ docs : held'[doc] = held[doc],
           agent'[x] = Outdated(x, docs)
    PROVE  EntryOK(agent'[x]) /\ EntryKnows(agent'[x], held')
<1>1. EntryOK(agent[x]) /\ EntryKnows(agent[x], held)
  BY TypeByEntry, InformedByEntry DEF IInv
<1>2. CASE agent[x] = NewAgent
  BY <1>1, <1>2, OutdatedEntry DEF EntryKnows
<1>3. CASE agent[x] # NewAgent
  <2>1. agent[x].of \in Documents
    BY <1>1, <1>3 DEF EntryOK
  <2> QED BY <1>1, <1>3, <2>1, OutdatedEntry DEF EntryKnows
<1> QED BY <1>2, <1>3

LEMMA ReplaceKeeps ==
    ASSUME IInv, ReplaceStep PROVE IInv'
<1> PICK a \in Agents, doc \in Documents :
         \E asked : Askable(doc, asked) /\ Replace(a, doc, asked)
  BY DEF ReplaceStep
<1> PICK asked : Askable(doc, asked) /\ Replace(a, doc, asked)
  OBVIOUS
<1>0. /\ TypeOK /\ Informed /\ UNCHANGED there
      /\ \A x \in Agents : EntryOK(agent[x]) /\ EntryKnows(agent[x], held)
  BY TypeByEntry, InformedByEntry DEF IInv, Replace
<1> PICK did \in {"put", "tried"} :
     \/ /\ held' = [held EXCEPT ![doc] = ToPut(doc, asked)]
        /\ agent' = [x \in Agents |->
             IF x = a THEN [did |-> did, of |-> doc, stale |-> FALSE, value |-> asked]
             ELSE Outdated(x, {doc})]
     \/ /\ did = "tried"
        /\ agent' = [agent EXCEPT ![a] =
             [did |-> did, of |-> doc, stale |-> FALSE, value |-> asked]]
        /\ UNCHANGED held
  BY DEF Replace
<1> DEFINE entry == [did |-> did, of |-> doc, stale |-> FALSE, value |-> asked]
<1>1. EntryOK(entry) /\ entry # NewAgent
  BY DEF EntryOK, Askable, NewAgent
<1>2. CASE /\ held' = [held EXCEPT ![doc] = ToPut(doc, asked)]
           /\ agent' = [x \in Agents |-> IF x = a THEN entry ELSE Outdated(x, {doc})]
  <2>1. held'[doc] = ToPut(doc, asked) /\ held' = [d \in Documents |-> held'[d]]
        /\ \A d \in Documents \ {doc} : held'[d] = held[d]
    BY <1>0, <1>2 DEF TypeOK
  <2>2. EntryKnows(entry, held')
    BY <2>1 DEF EntryKnows
  <2>3. \A x \in Agents : EntryOK(agent'[x]) /\ EntryKnows(agent'[x], held')
    <3> HIDE DEF entry
    <3> QED BY <1>1, <1>2, <2>1, <2>2, OutdatingKeeps
  <2>4. \A d \in Documents : MayHold(d, held'[d])
    BY <1>0, <2>1 DEF TypeOK, Askable
  <2>5. agent' = [x \in Agents |-> agent'[x]]
    BY <1>2
  <2>6. TypeOK'
    BY <1>0, <2>1, <2>3, <2>4, <2>5 DEF TypeOK, EntryOK
  <2>7. Informed'
    BY <2>3 DEF Informed, EntryKnows, Knows, NewAgent
  <2> QED BY <2>6, <2>7 DEF IInv
<1>3. CASE did = "tried" /\ agent' = [agent EXCEPT ![a] = entry] /\ UNCHANGED held
  <2>1. EntryKnows(entry, held')
    BY <1>3 DEF EntryKnows
  <2>2. \A x \in Agents : EntryOK(agent'[x]) /\ EntryKnows(agent'[x], held')
    <3> HIDE DEF entry
    <3> QED BY <1>0, <1>1, <1>3, <2>1 DEF TypeOK
  <2>3. agent' = [x \in Agents |-> agent'[x]]
    BY <1>0, <1>3 DEF TypeOK
  <2>4. TypeOK'
    BY <1>0, <1>3, <2>2, <2>3 DEF TypeOK, EntryOK
  <2>5. Informed'
    BY <2>2 DEF Informed, EntryKnows, Knows, NewAgent
  <2> QED BY <2>4, <2>5 DEF IInv
<1> QED BY <1>2, <1>3

LEMMA OthersKeep ==
    ASSUME IInv, OthersStep PROVE IInv'
<1> PICK docs \in SUBSET Documents : OthersChange(docs)
  BY DEF OthersStep
<1>1. \A x \in Agents : EntryOK(agent'[x]) /\ EntryKnows(agent'[x], held')
  BY OutdatingKeeps DEF OthersChange
<1>2. TypeOK'
  BY <1>1 DEF OthersChange, TypeOK, EntryOK
<1>3. Informed'
  BY <1>1 DEF Informed, EntryKnows, Knows, NewAgent
<1> QED BY <1>2, <1>3 DEF IInv

(* What an agent knows and nobody changed is what the store holds.         *)
THEOREM S3Invariance == Spec => []IInv
<1>1. Init => IInv
  <2> SUFFICES ASSUME Init PROVE IInv
    OBVIOUS
  <2>1. \A doc \in Documents : MayHold(doc, {}) /\ held[doc] = {}
    BY DocumentKinds DEF Init, MayHold
  <2>2. \A a \in Agents : agent[a] = NewAgent /\ NewAgent.did = "none"
    BY DEF Init, NewAgent
  <2>3. TypeOK
    BY <2>1, <2>2 DEF Init, TypeOK
  <2>4. Informed
    BY <2>2 DEF Informed, Knows
  <2> QED BY <2>3, <2>4 DEF IInv
<1>2. IInv /\ [Next]_vars => IInv'
  <2> SUFFICES ASSUME IInv, [Next]_vars PROVE IInv'
    OBVIOUS
  <2>1. CASE Next
    BY <2>1, StepKinds, ReadKeeps, ReplaceKeeps, OthersKeep DEF IInv
  <2>2. CASE UNCHANGED vars
    BY <2>2 DEF vars, IInv, TypeOK, Informed, Knows
  <2> QED BY <2>1, <2>2
<1> QED BY <1>1, <1>2, PTL DEF Spec

(* The types, and that no rule without an action is ever put.              *)
THEOREM S3TypeCorrect == Spec => []TypeOK
BY S3Invariance, PTL DEF IInv

-----------------------------------------------------------------------------
(* The action properties.                                                  *)

(* Only its own put makes an agent that has read one that has put.         *)
LEMMA PutIsOwn ==
    ASSUME IInv, Next, NEW a \in Agents,
           agent[a].did = "read", agent'[a].did \in {"put", "tried"}
    PROVE  \E doc \in Documents : \E asked :
              /\ agent'[a].of = doc /\ agent'[a].value = asked
              /\ held' = held \/ held'[doc] = ToPut(doc, asked)
<1>0. TypeOK /\ \A x \in Agents : EntryOK(agent[x])
  BY TypeByEntry DEF IInv
<1>1. \A docs : Outdated(a, docs).did = "read"
  BY <1>0, OutdatedEntry
<1>2. CASE ReadStep
  BY <1>0, <1>2 DEF ReadStep, Read, TypeOK, NewAgent
<1>3. CASE OthersStep
  BY <1>1, <1>3 DEF OthersStep, OthersChange
<1>4. CASE ReplaceStep
  <2> PICK b \in Agents, doc \in Documents : \E asked : Replace(b, doc, asked)
    BY <1>4 DEF ReplaceStep
  <2> PICK asked : Replace(b, doc, asked)
    OBVIOUS
  <2>1. b = a
    BY <1>0, <1>1 DEF Replace, TypeOK
  <2>2. /\ agent'[a].of = doc /\ agent'[a].value = asked
        /\ held' = held \/ held'[doc] = ToPut(doc, asked)
    BY <1>0, <2>1 DEF Replace, TypeOK
  <2> QED BY <2>2
<1> QED BY <1>0, <1>2, <1>3, <1>4, StepKinds

(* Between a read and the replacement that follows it only what the agent  *)
(* saw and left out is lost, and of the rest what the tools can say stays, *)
(* unless others came in between: for every rule of whatever client.       *)
THEOREM DroppedKnowingly == Spec => OnlyKnowinglyDropped
<1> DEFINE Dropped(a) ==
      LET doc == agent[a].of IN
         \A d \in held[doc] \ held'[doc] :
            \/ Shown(doc, {d}) \subseteq agent[a].value \ agent'[a].value
            \/ doc[1] = "lifecycle" /\ \E e \in held'[doc] : Keeps(e, d)
<1>1. ASSUME IInv, [Next]_vars, NEW a \in Agents, Knows(a, "read"),
             agent'[a].did \in {"put", "tried"}, agent'[a].of = agent[a].of
      PROVE  Dropped(a)
  <2>0. Next /\ agent[a].did = "read"
    BY <1>1 DEF Knows, vars
  <2>9. PICK doc \in Documents : \E asked :
           /\ agent'[a].of = doc /\ agent'[a].value = asked
           /\ held' = held \/ held'[doc] = ToPut(doc, asked)
    BY <1>1, <2>0, PutIsOwn
  <2>1. PICK asked :
           /\ agent'[a].of = doc /\ agent'[a].value = asked
           /\ held' = held \/ held'[doc] = ToPut(doc, asked)
    BY <2>9
  <2>2. agent[a].of = doc /\ agent[a].value = Shown(doc, held[doc])
        /\ MayHold(doc, held[doc])
    BY <1>1, <2>1 DEF IInv, Informed, TypeOK
  <2> SUFFICES ASSUME NEW d \in held[doc], d \notin held'[doc]
               PROVE  \/ Shown(doc, {d}) \subseteq Shown(doc, held[doc]) \ asked
                      \/ doc[1] = "lifecycle" /\ \E e \in held'[doc] : Keeps(e, d)
    BY <2>1, <2>2
  <2>3. held'[doc] = ToPut(doc, asked) /\ d \notin ToPut(doc, asked)
    BY <2>1
  <2>4. CASE doc[1] = "lifecycle"
    <3>1. d \in Document
      BY <2>2, <2>4 DEF MayHold
    <3>2. RuleFromS3(d) \in asked => RuleToS3(RuleFromS3(d)) \in held'[doc]
      BY <2>3, <2>4 DEF ToPut
    <3> QED BY <2>4, <3>1, <3>2, PutBackKeeps DEF Shown
  <2>5. CASE doc[1] # "lifecycle"
    BY <2>3, <2>5 DEF Shown, ToPut
  <2> QED BY <2>4, <2>5
<1>2. IInv /\ [Next]_vars =>
        [\A a \in Agents : Knows(a, "read") /\ agent'[a].did \in {"put", "tried"}
            /\ agent'[a].of = agent[a].of => Dropped(a)]_vars
  <2> HIDE DEF Dropped
  <2> QED BY <1>1
<1> QED BY <1>2, S3Invariance, PTL DEF Spec, OnlyKnowinglyDropped

(* What an agent put and nobody changed, it reads back as it put it.       *)
THEOREM PutsReadBack == Spec => ReadsBack
<1> DEFINE Same(a) ==
      \/ agent'[a].value = agent[a].value
      \/ agent[a].of[1] = "lifecycle" /\ \E r \in agent[a].value : ~Paired(r)
<1>1. ASSUME IInv, [Next]_vars, NEW a \in Agents, Knows(a, "put"),
             agent'[a].did = "read", agent'[a].of = agent[a].of
      PROVE  Same(a)
  <2>0. /\ Next /\ agent[a].did = "put" /\ TypeOK
        /\ \A x \in Agents : EntryOK(agent[x])
        /\ agent[a].of \in Documents /\ MayShow(agent[a].of, agent[a].value)
        /\ held[agent[a].of] = ToPut(agent[a].of, agent[a].value)
    <3>1. Next /\ agent[a].did = "put"
      BY <1>1 DEF Knows, vars
    <3>2. TypeOK /\ EntryOK(agent[a]) /\ \A x \in Agents : EntryOK(agent[x])
      BY <1>1, TypeByEntry DEF IInv
    <3>3. agent[a] # NewAgent
      BY <3>1 DEF NewAgent
    <3> QED BY <1>1, <3>1, <3>2, <3>3 DEF EntryOK, IInv, Informed
  <2>1. ~OthersStep
    BY <1>1, <2>0, OutdatedEntry DEF OthersStep, OthersChange
  <2>2. ~ReplaceStep
    <3> SUFFICES ASSUME NEW b \in Agents, NEW doc \in Documents, NEW asked,
                        Replace(b, doc, asked)
                 PROVE  FALSE
      BY DEF ReplaceStep
    <3>1. agent'[b].did \in {"put", "tried"} \/ b \notin DOMAIN agent
      BY DEF Replace
    <3>2. b # a
      BY <1>1, <2>0, <3>1 DEF TypeOK
    <3>3. agent'[a] = agent[a] \/ agent'[a] = Outdated(a, {doc})
      BY <2>0, <3>2 DEF Replace, TypeOK
    <3>4. agent'[a].did = agent[a].did
      BY <2>0, <3>3, OutdatedEntry
    <3> QED BY <1>1, <2>0, <3>4
  <2>3. ReadStep
    BY <2>0, <2>1, <2>2, StepKinds
  <2> PICK b \in Agents, doc \in Documents,
           absent \in SUBSET {"NoSuchLifecycleConfiguration", "NoSuchTagSet"} :
           Read(b, doc, absent)
    BY <2>3 DEF ReadStep
  <2>4. b = a /\ doc = agent[a].of /\ agent'[a].value = Shown(doc, held[doc])
    <3> PICK code \in ReadCodes(doc) :
        agent' = [agent EXCEPT ![b] =
             IF S3Call(code, absent) \in {"ok", "none"}
             THEN [did |-> "read", of |-> doc, stale |-> FALSE,
                   value |-> IF S3Call(code, absent) = "ok"
                             THEN Shown(doc, held[doc]) ELSE {}]
             ELSE NewAgent]
      BY DEF Read
    <3>1. b = a
      BY <1>1, <2>0 DEF TypeOK
    <3>2. S3Call(code, absent) \in {"ok", "none"}
      BY <1>1, <2>0, <3>1 DEF TypeOK, NewAgent
    <3>3. S3Call(code, absent) = "none" => held[doc] = {}
      BY DEF S3Call, ReadCodes
    <3>4. held[doc] = {} => Shown(doc, held[doc]) = {}
      BY DEF Shown
    <3> QED BY <1>1, <2>0, <3>1, <3>2, <3>3, <3>4 DEF TypeOK
  <2>5. agent'[a].value = Shown(doc, ToPut(doc, agent[a].value))
    BY <2>0, <2>4
  <2>6. CASE doc[1] # "lifecycle"
    BY <2>5, <2>6 DEF Shown, ToPut
  <2>7. CASE doc[1] = "lifecycle" /\ \A r \in agent[a].value : Paired(r)
    <3>1. \A r \in agent[a].value : RuleFromS3(RuleToS3(r)) = r
      BY <2>0, <2>4, <2>7, ReadBackIsSame DEF MayShow
    <3> QED BY <2>5, <2>7, <3>1 DEF Shown, ToPut
  <2> QED BY <2>4, <2>6, <2>7
<1>2. IInv /\ [Next]_vars =>
        [\A a \in Agents : Knows(a, "put") /\ agent'[a].did = "read"
            /\ agent'[a].of = agent[a].of => Same(a)]_vars
  <2> HIDE DEF Same
  <2> QED BY <1>1
<1> QED BY <1>2, S3Invariance, PTL DEF Spec, ReadsBack

-----------------------------------------------------------------------------
(* When the prefix of a rule that is read is right.                        *)

(* No lifecycle holds two rules of one name.                               *)
Unambiguous == \A b \in Buckets : DistinctIds(held[Lifecycle(b)])

LEMMA UnambiguousPut ==
    ASSUME NEW rules, DistinctIds(rules) PROVE DistinctIds({RuleToS3(r) : r \in rules})
<1> SUFFICES ASSUME NEW r \in rules, NEW s \in rules, RuleToS3(r).id = RuleToS3(s).id
             PROVE  RuleToS3(r) = RuleToS3(s)
  BY DEF DistinctIds
<1>1. r.id = s.id
  BY DEF RuleToS3
<1> QED BY <1>1 DEF DistinctIds

(* A document that is replaced, for whatever reason, is unambiguous again. *)
LEMMA UnambiguousReplaced ==
    ASSUME TypeOK, Unambiguous, NEW doc \in Documents, NEW content,
           held' \in {held, [held EXCEPT ![doc] = content]},
           doc[1] = "lifecycle" => DistinctIds(content)
    PROVE  Unambiguous'
<1> SUFFICES ASSUME NEW b \in Buckets PROVE DistinctIds(held'[Lifecycle(b)])
  BY DEF Unambiguous
<1>1. held'[Lifecycle(b)] = held[Lifecycle(b)]
        \/ (Lifecycle(b) = doc /\ held'[Lifecycle(b)] = content)
  <2>1. held = [d \in Documents |-> held[d]] /\ Lifecycle(b) \in Documents
    BY DocumentKinds DEF TypeOK
  <2> QED BY <2>1
<1>2. Lifecycle(b)[1] = "lifecycle"
  BY DEF Lifecycle
<1> QED BY <1>1, <1>2 DEF Unambiguous

LEMMA NextUnambiguous ==
    ASSUME TypeOK, Unambiguous, [Next]_vars PROVE Unambiguous'
<1>1. CASE held' = held
  BY <1>1 DEF Unambiguous
<1>2. ASSUME NEW a \in Agents, NEW doc \in Documents, NEW asked, Replace(a, doc, asked),
             doc[1] = "lifecycle" => DistinctIds(asked)
      PROVE  Unambiguous'
  <2>1. held' \in {held, [held EXCEPT ![doc] = ToPut(doc, asked)]}
    BY <1>2 DEF Replace
  <2>2. doc[1] = "lifecycle" => DistinctIds(ToPut(doc, asked))
    BY <1>2, UnambiguousPut DEF ToPut
  <2> QED BY <2>1, <2>2, UnambiguousReplaced
<1>3. ASSUME NEW doc \in Documents, NEW content, OthersReplace(doc, content),
             doc[1] = "lifecycle" => DistinctIds(content)
      PROVE  Unambiguous'
  <2>1. held' \in {held, [held EXCEPT ![doc] = content]}
    BY <1>3 DEF OthersReplace
  <2> QED BY <1>3, <2>1, UnambiguousReplaced
<1>4. ASSUME NEW b \in Buckets, OthersRecreate(b) PROVE Unambiguous'
  <2> SUFFICES ASSUME NEW c \in Buckets PROVE DistinctIds(held'[Lifecycle(c)])
    BY DEF Unambiguous
  <2>1. Lifecycle(c) \in Documents
    BY DocumentKinds
  <2>2. held'[Lifecycle(c)] \in {{}, held[Lifecycle(c)]}
    BY <1>4, <2>1 DEF OthersRecreate
  <2>3. DistinctIds({})
    BY DEF DistinctIds
  <2> QED BY <2>2, <2>3 DEF Unambiguous
<1>5. ASSUME NEW a \in Agents, NEW b \in Buckets, NEW rules, PutBucketLifecycle(a, b, rules)
      PROVE  Unambiguous'
  BY <1>2, <1>5, DocumentKinds DEF PutBucketLifecycle
<1>6. ASSUME NEW a \in Agents, NEW b \in Buckets, DeleteBucketLifecycle(a, b)
      PROVE  Unambiguous'
  BY <1>2, <1>6, DocumentKinds DEF DeleteBucketLifecycle, DistinctIds
<1>7. ASSUME NEW a \in Agents, NEW b \in Buckets, NEW k \in Keys, NEW tags,
             PutObjectTags(a, b, k, tags) \/ DeleteObjectTags(a, b, k)
      PROVE  Unambiguous'
  BY <1>2, <1>7, DocumentKinds DEF PutObjectTags, DeleteObjectTags
<1>8. ASSUME NEW a \in Agents, NEW b \in Buckets, NEW status, PutBucketVersioning(a, b, status)
      PROVE  Unambiguous'
  BY <1>2, <1>8, DocumentKinds DEF PutBucketVersioning
<1>9. CASE OthersPut
  BY <1>3, <1>9, DocumentKinds DEF OthersPut
<1>10. ASSUME NEW a \in Agents, NEW b \in Buckets,
              GetBucketLifecycle(a, b) \/ GetBucketVersioning(a, b)
                \/ \E k \in Keys : GetObjectTags(a, b, k)
       PROVE  held' = held
  BY <1>10 DEF GetBucketLifecycle, GetBucketVersioning, GetObjectTags, Read
<1> QED BY <1>1, <1>4, <1>5, <1>6, <1>7, <1>8, <1>9, <1>10 DEF Next, vars

(* A rule that is read has the prefix of the rule of that name, whatever   *)
(* other clients write and however the two calls interleave, unless that   *)
(* rule has conditions beside its prefix (mcp_objectstore.py:50, "Key      *)
(* prefix the rule applies to", against Filter.And in _rule_from_s3).      *)
THEOREM PrefixesRightUnlessNarrow ==
    Spec => [](\A a \in Agents : Knows(a, "read") /\ agent[a].of[1] = "lifecycle" =>
                 \A r \in agent[a].value : \A d \in held[agent[a].of] :
                     d.id = r.id /\ ~d.narrow => r.prefix = d.prefix)
<1> DEFINE Right ==
      \A a \in Agents : Knows(a, "read") /\ agent[a].of[1] = "lifecycle" =>
          \A r \in agent[a].value : \A d \in held[agent[a].of] :
              d.id = r.id /\ ~d.narrow => r.prefix = d.prefix
<1>1. Init => Unambiguous
  BY DocumentKinds DEF Init, Unambiguous, DistinctIds
<1>2. TypeOK /\ Unambiguous /\ [Next]_vars => Unambiguous'
  BY NextUnambiguous
<1>3. Spec => []Unambiguous
  BY <1>1, <1>2, S3TypeCorrect, PTL DEF Spec
<1>4. IInv /\ Unambiguous => Right
  <2> SUFFICES ASSUME IInv, Unambiguous,
                      NEW a \in Agents, Knows(a, "read"), agent[a].of[1] = "lifecycle",
                      NEW r \in agent[a].value, NEW d \in held[agent[a].of],
                      d.id = r.id, ~d.narrow
               PROVE  r.prefix = d.prefix
    OBVIOUS
  <2>1. agent[a].value = {RuleFromS3(e) : e \in held[agent[a].of]}
    BY DEF IInv, Informed, Shown
  <2>2. PICK e \in held[agent[a].of] : r = RuleFromS3(e)
    BY <2>1
  <2>3. PICK b \in Buckets : agent[a].of = Lifecycle(b)
    <3>1. agent[a].of \in Documents
      BY DEF IInv, TypeOK, Knows, NewAgent
    <3> QED BY <3>1 DEF Documents, Versioning, ObjectTags
  <2>4. e = d
    BY <2>2, <2>3 DEF Unambiguous, DistinctIds, RuleFromS3
  <2> QED BY <2>2, <2>4 DEF RuleFromS3
<1> HIDE DEF Right
<1>5. Spec => []Right
  BY <1>3, <1>4, S3Invariance, PTL
<1> QED BY <1>5 DEF Right

=============================================================================

------------------------- MODULE ObjectToolsProofs -------------------------
(***************************************************************************)
(* Proofs about ObjectTools, for any number of servers, buckets, keys and  *)
(* payloads and any settings.                                              *)
(***************************************************************************)
EXTENDS ObjectTools, FiniteSetTheorems, TLAPS

-----------------------------------------------------------------------------
(* Facts about the operators.                                              *)

Contents == [Locations -> Payloads \cup {Absent}]

Outcomes == {"ok", "refused", "not_found", "failed"}

(* What the governed put, copy and delete may do to the contents.          *)
LEMMA GuardedDeleteFacts ==
    ASSUME NEW s \in Servers, NEW b \in Buckets, NEW k \in ArgKeys,
           objects \in Contents,
           NEW r \in GuardedDelete(s, b, k)
    PROVE  /\ r.objects \in Contents
           /\ r.outcome \in Outcomes
           /\ r.objects # objects \/ r.outcome = "ok" =>
                /\ DeletesAllowed(s) /\ k \in Keys /\ k \notin WildKeys
                /\ objects[<<b, k>>] # Absent
                /\ r.objects = [objects EXCEPT ![<<b, k>>] = Absent]
  <1>1. CASE DeletesAllowed(s) /\ k # EmptyKey /\ k \notin WildKeys
    <2>1. k \in Keys /\ <<b, k>> \in Locations
      BY <1>1 DEF ArgKeys, Locations
    <2> DEFINE emptied == [objects EXCEPT ![<<b, k>>] = Absent]
    <2>2. emptied \in Contents
      BY DEF Contents
    <2>3. r \in StoreResults(objects[<<b, k>>] # Absent, emptied)
      BY <1>1 DEF GuardedDelete, StoreDelete
    <2> HIDE DEF emptied
    <2>4. /\ r.objects = objects \/ (objects[<<b, k>>] # Absent /\ r.objects = emptied)
          /\ r.outcome = "ok" => objects[<<b, k>>] # Absent /\ r.objects = emptied
          /\ r.outcome \in Outcomes
      BY <2>3 DEF StoreResults, Result, Outcomes
    <2> QED
      BY <1>1, <2>1, <2>2, <2>4 DEF emptied
  <1>2. CASE ~(DeletesAllowed(s) /\ k # EmptyKey /\ k \notin WildKeys)
    <2>1. r = Result(objects, "refused")
      BY <1>2 DEF GuardedDelete
    <2> QED
      BY <2>1 DEF Result, Outcomes
  <1> QED
    BY <1>1, <1>2

LEMMA GuardedPutFacts ==
    ASSUME NEW s \in Servers, NEW l \in Locations, NEW v \in Payloads,
           objects \in Contents,
           NEW r \in GuardedPut(s, l, v)
    PROVE  /\ r.objects \in Contents
           /\ r.objects # objects =>
                /\ Loads(env[s]) /\ Size[v] <= LoadLimits(env[s]).max_put_bytes
                /\ l[1] \in buckets
                /\ r.objects = [objects EXCEPT ![l] = v]
  <1>1. CASE Loads(env[s]) /\ Size[v] <= LoadLimits(env[s]).max_put_bytes
    <2> DEFINE written == [objects EXCEPT ![l] = v]
    <2>1. written \in Contents
      BY DEF Contents
    <2>2. r \in StoreResults(l[1] \in buckets, written)
      BY <1>1 DEF GuardedPut, StorePut
    <2> HIDE DEF written
    <2>3. r.objects = objects \/ (l[1] \in buckets /\ r.objects = written)
      BY <2>2 DEF StoreResults, Result
    <2> QED
      BY <1>1, <2>1, <2>3 DEF written
  <1>2. CASE ~(Loads(env[s]) /\ Size[v] <= LoadLimits(env[s]).max_put_bytes)
    BY <1>2 DEF GuardedPut, Result
  <1> QED
    BY <1>1, <1>2

LEMMA StoreCopyFacts ==
    ASSUME NEW src \in Locations, NEW dst \in Locations,
           objects \in Contents,
           NEW r \in StoreCopy(src, dst)
    PROVE  /\ r.objects \in Contents
           /\ r.outcome \in {"ok", "not_found", "failed"}
           /\ r.objects # objects \/ r.outcome = "ok" =>
                /\ objects[src] \in Payloads
                /\ dst[1] \in buckets
                /\ r.objects = [objects EXCEPT ![dst] = objects[src]]
  <1> DEFINE copied == [objects EXCEPT ![dst] = objects[src]]
  <1> DEFINE possible == objects[src] # Absent /\ dst[1] \in buckets
  <1>1. copied \in Contents
    BY DEF Contents
  <1>2. objects[src] # Absent => objects[src] \in Payloads
    BY DEF Contents
  <1>3. r \in StoreResults(possible, copied)
    BY DEF StoreCopy
  <1> HIDE DEF copied
  <1>4. /\ r.objects = objects \/ (possible /\ r.objects = copied)
        /\ r.outcome = "ok" => possible /\ r.objects = copied
        /\ r.outcome \in {"ok", "not_found", "failed"}
    BY <1>3 DEF StoreResults, Result
  <1> QED
    BY <1>1, <1>2, <1>4 DEF copied

LEMMA ObserveFacts ==
    ASSUME NEW s \in Servers, NEW before \in SUBSET Locations, TypeOK,
           Observe(s, before)
    PROVE  /\ removed' \in [Servers -> SUBSET Locations]
           /\ touched' \in [Servers -> SUBSET Locations]
           /\ removed'[s] = before \cup
                {l \in Locations : objects[l] # Absent /\ objects'[l] = Absent}
           /\ touched'[s] = IF call'[s].tool = "idle" THEN {} ELSE touched[s]
           /\ \A t \in Servers \ {s} :
                /\ removed'[t] = removed[t]
                /\ touched'[t] = IF call'[t].tool = "idle" THEN {} ELSE
                     touched[t] \cup {l \in Locations : objects'[l] # objects[l]}
  BY DEF Observe, TypeOK

(* The caps are numbers once the settings load, and clamping to a cap that *)
(* is not zero stays at or below it and above zero.                        *)
LEMMA LimitsType ==
    ASSUME NEW s \in Servers, TypeOK, Loads(env[s])
    PROVE  /\ LoadLimits(env[s]).max_batch_keys \in Nat
           /\ LoadLimits(env[s]).max_list_keys \in Nat
           /\ LoadLimits(env[s]).max_put_bytes \in Nat
  <1>1. env[s] \in Setting
    BY EnvironmentsAssumption DEF TypeOK
  <1>2. /\ env[s].max_batch_keys \in RawCap /\ env[s].max_list_keys \in RawCap
        /\ env[s].max_put_bytes \in RawCap
    BY <1>1 DEF Setting
  <1> QED
    BY <1>2 DEF LoadLimits, Loads, AsInt, RawCap

LEMMA KeyCapFacts ==
    ASSUME NEW asked \in Nat \cup {None}, NEW cap \in Nat
    PROVE  /\ KeyCap(asked, cap) \in Nat
           /\ KeyCap(asked, cap) <= cap
           /\ cap > 0 => KeyCap(asked, cap) > 0
  BY DEF KeyCap, Lesser

(* A call that removes less keeps the caps that it keeps.                  *)
LEMMA WithinCapsBelow ==
    ASSUME TypeOK, NEW s \in Servers, Loads(env[s]),
           NEW n \in Nat, NEW m \in Nat, m <= n, WithinCaps(s, n)
    PROVE  WithinCaps(s, m)
  BY LimitsType DEF WithinCaps

LEMMA NothingIsWithinCaps ==
    ASSUME TypeOK, NEW s \in Servers, Loads(env[s])
    PROVE  WithinCaps(s, 0)
  BY LimitsType DEF WithinCaps

-----------------------------------------------------------------------------
(* Type correctness.                                                       *)

LEMMA NoReplyType == NoReply \in Replies
  BY DEF NoReply, Replies

LEMMA InitTypeOK == Init => TypeOK
  BY DEF Init, TypeOK, NoReply, Replies

(* What the tools that make a single call keep.                            *)
LEMMA SingleCallType ==
    ASSUME TypeOK, NEW s \in Servers, NEW results, SingleCall(s, results),
           \A r \in results : r.objects \in Contents
    PROVE  TypeOK'
  <1>1. /\ objects' \in Contents
        /\ reply' \in [Servers -> Replies]
    BY NoReplyType DEF SingleCall, TypeOK
  <1>2. Observe(s, {}) /\ UNCHANGED <<buckets, env, call>>
    BY DEF SingleCall
  <1> QED
    BY <1>1, <1>2, ObserveFacts DEF TypeOK, Contents

LEMMA AnswerType ==
    ASSUME TypeOK, NEW s \in Servers,
           NEW tool \in {"move", "delete_by_prefix"}, NEW outcome \in Outcomes,
           NEW n \in Nat, NEW trunc \in BOOLEAN,
           Answer(s, tool, outcome, n, trunc)
    PROVE  /\ call' \in [Servers -> {Idle} \cup MoveCalls \cup PrefixDeleteCalls]
           /\ reply' \in [Servers -> Replies]
           /\ call'[s] = Idle
           /\ reply'[s] = [tool |-> tool, outcome |-> outcome,
                           deleted |-> n, truncated |-> trunc]
           /\ \A t \in Servers \ {s} : call'[t] = call[t] /\ reply'[t] = reply[t]
  BY DEF Answer, TypeOK, Outcomes, Replies

LEMMA NextTypeOK == TypeOK /\ [Next]_vars => TypeOK'
  <1> SUFFICES ASSUME TypeOK, [Next]_vars PROVE TypeOK'
    OBVIOUS
  <1>1. CASE UNCHANGED vars
    BY <1>1 DEF vars, TypeOK
  <1>2. ASSUME NEW s \in Servers, SingleTools(s) PROVE TypeOK'
    <2> USE TypeOK
    <2>0. objects \in Contents
      BY DEF TypeOK, Contents
    <2>1. ASSUME NEW l \in Locations, NEW v \in Payloads, PutObject(s, l, v) PROVE TypeOK'
      BY <2>0, <2>1, GuardedPutFacts, SingleCallType DEF PutObject
    <2>2. ASSUME NEW src \in Locations, NEW dst \in Locations, CopyObject(s, src, dst)
          PROVE TypeOK'
      BY <2>0, <2>2, StoreCopyFacts, SingleCallType DEF CopyObject
    <2>3. ASSUME NEW b \in Buckets, NEW k \in ArgKeys, DeleteObject(s, b, k) PROVE TypeOK'
      BY <2>0, <2>3, GuardedDeleteFacts, SingleCallType DEF DeleteObject
    <2>4. ASSUME NEW b \in Buckets, CreateBucket(s, b) \/ DeleteBucket(s, b) PROVE TypeOK'
      <3>1. /\ reply' \in [Servers -> Replies]
            /\ buckets' \subseteq Buckets
            /\ UNCHANGED <<objects, env, call>>
            /\ Observe(s, {})
        BY <2>4, NoReplyType DEF CreateBucket, DeleteBucket, TypeOK
      <3> QED
        BY <3>1, ObserveFacts DEF TypeOK
    <2> QED
      BY <1>2, <2>1, <2>2, <2>3, <2>4 DEF SingleTools
  <1>3. ASSUME NEW s \in Servers, MoveTool(s) PROVE TypeOK'
    <2> USE TypeOK
    <2>0. objects \in Contents
      BY DEF TypeOK, Contents
    <2>1. ASSUME NEW src \in ArgLocations, NEW dst \in ArgLocations, MoveRefuse(s, src, dst)
          PROVE TypeOK'
      <3>1. /\ Answer(s, "move", "refused", 0, FALSE)
            /\ UNCHANGED <<objects, buckets, env>>
            /\ Observe(s, {})
        BY <2>1 DEF MoveRefuse
      <3> QED
        BY <3>1, AnswerType, ObserveFacts DEF TypeOK, Outcomes
    <2>2. ASSUME NEW src \in ArgLocations, NEW dst \in ArgLocations, MoveCopy(s, src, dst)
          PROVE TypeOK'
      <3>1. src \in Locations /\ dst \in Locations
        BY <2>2 DEF MoveCopy, MayMove, ArgLocations, ArgKeys, Locations
      <3>2. PICK r \in StoreCopy(src, dst) :
              /\ objects' = r.objects
              /\ \/ /\ r.outcome = "ok"
                    /\ call' = [call EXCEPT ![s] = [tool |-> "move", src |-> src,
                                                    dst |-> dst, data |-> objects[src]]]
                    /\ reply' = [reply EXCEPT ![s] = NoReply]
                 \/ /\ r.outcome # "ok"
                    /\ Answer(s, "move", r.outcome, 0, FALSE)
        BY <2>2 DEF MoveCopy
      <3>3. /\ call' \in [Servers -> {Idle} \cup MoveCalls \cup PrefixDeleteCalls]
            /\ reply' \in [Servers -> Replies]
        <4>1. CASE r.outcome = "ok"
          <5>1. [tool |-> "move", src |-> src, dst |-> dst, data |-> objects[src]] \in MoveCalls
            BY <4>1, <3>1, <2>0, StoreCopyFacts DEF MoveCalls
          <5> QED
            BY <4>1, <5>1, <3>2, NoReplyType DEF TypeOK
        <4>2. CASE r.outcome # "ok"
          <5>1. r.outcome \in Outcomes
            BY <3>1, <2>0, StoreCopyFacts DEF Outcomes
          <5> QED
            BY <4>2, <5>1, <3>2, AnswerType
        <4> QED
          BY <4>1, <4>2
      <3>4. objects' \in Contents /\ Observe(s, {}) /\ UNCHANGED <<buckets, env>>
        BY <3>1, <3>2, <2>0, <2>2, StoreCopyFacts DEF MoveCopy
      <3> QED
        BY <3>3, <3>4, ObserveFacts DEF TypeOK, Contents
    <2>3. CASE MoveDelete(s)
      <3>0. call[s].tool = "move"
        BY <2>3 DEF MoveDelete
      <3>1. call[s] \in MoveCalls
        BY <3>0 DEF TypeOK, Idle, PrefixDeleteCalls
      <3>2. call[s].src[1] \in Buckets /\ call[s].src[2] \in ArgKeys
        BY <3>1 DEF MoveCalls, Locations, ArgKeys
      <3>3. PICK r \in GuardedDelete(s, call[s].src[1], call[s].src[2]) :
              /\ objects' = r.objects
              /\ Answer(s, "move", r.outcome, IF r.outcome = "ok" THEN 1 ELSE 0, FALSE)
        BY <2>3 DEF MoveDelete
      <3>4. objects' \in Contents /\ r.outcome \in Outcomes
        BY <3>2, <3>3, <2>0, GuardedDeleteFacts
      <3>5. /\ call' \in [Servers -> {Idle} \cup MoveCalls \cup PrefixDeleteCalls]
            /\ reply' \in [Servers -> Replies]
        BY <3>3, <3>4, AnswerType
      <3>6. UNCHANGED <<buckets, env>> /\ Observe(s, removed[s]) /\ removed[s] \in SUBSET Locations
        BY <2>3 DEF MoveDelete, TypeOK
      <3> QED
        BY <3>4, <3>5, <3>6, ObserveFacts DEF TypeOK, Contents
    <2> QED
      BY <1>3, <2>1, <2>2, <2>3 DEF MoveTool
  <1>4. ASSUME NEW s \in Servers, PrefixDeleteTool(s) PROVE TypeOK'
    <2> USE TypeOK
    <2>0. objects \in Contents
      BY DEF TypeOK, Contents
    <2>1. ASSUME NEW p \in Prefixes, PrefixDeleteRefuse(s, p) PROVE TypeOK'
      <3>1. /\ Answer(s, "delete_by_prefix", "refused", 0, FALSE)
            /\ UNCHANGED <<objects, buckets, env>>
            /\ Observe(s, {})
        BY <2>1 DEF PrefixDeleteRefuse
      <3> QED
        BY <3>1, AnswerType, ObserveFacts DEF TypeOK, Outcomes
    <2>2. ASSUME NEW b \in Buckets, NEW p \in Prefixes, PrefixDeleteListFails(s, b, p)
          PROVE TypeOK'
      <3>1. PICK outcome \in Outcomes : Answer(s, "delete_by_prefix", outcome, 0, FALSE)
        BY <2>2 DEF PrefixDeleteListFails, Outcomes
      <3>2. UNCHANGED <<objects, buckets, env>> /\ Observe(s, {})
        BY <2>2 DEF PrefixDeleteListFails
      <3> QED
        BY <3>1, <3>2, AnswerType, ObserveFacts DEF TypeOK
    <2>3. ASSUME NEW b \in Buckets, NEW p \in Prefixes, NEW asked \in Asked,
                 NEW dry_run \in BOOLEAN, PrefixDeleteList(s, b, p, asked, dry_run)
          PROVE TypeOK'
      <3>1. PICK page \in GuardedPages(s, b, p, BatchCap(s, asked)) :
              \/ Answer(s, "delete_by_prefix", "ok", 0, page # Matches(b, p))
              \/ /\ call' = [call EXCEPT ![s] =
                       [tool |-> "delete_by_prefix", bucket |-> b, prefix |-> p,
                        cap |-> BatchCap(s, asked), page |-> page, todo |-> page,
                        truncated |-> page # Matches(b, p)]]
                 /\ reply' = [reply EXCEPT ![s] = NoReply]
        BY <2>3 DEF PrefixDeleteList
      <3>2. UNCHANGED <<objects, buckets, env>> /\ Observe(s, {})
        BY <2>3 DEF PrefixDeleteList
      <3>3. page \in SUBSET Keys
        BY <3>1, KeysAssumption DEF GuardedPages, Pages, Matches
      <3>4. BatchCap(s, asked) \in Nat
        <4>1. Loads(env[s])
          BY <2>3 DEF PrefixDeleteList, MayDeletePrefix, DeletesAllowed
        <4> QED
          BY <4>1, LimitsType, KeyCapFacts, KeysAssumption DEF BatchCap
      <3>5. /\ call' \in [Servers -> {Idle} \cup MoveCalls \cup PrefixDeleteCalls]
            /\ reply' \in [Servers -> Replies]
        <4>1. CASE Answer(s, "delete_by_prefix", "ok", 0, page # Matches(b, p))
          BY <4>1, AnswerType DEF Outcomes
        <4>2. CASE ~Answer(s, "delete_by_prefix", "ok", 0, page # Matches(b, p))
          <5>1. [tool |-> "delete_by_prefix", bucket |-> b, prefix |-> p,
                 cap |-> BatchCap(s, asked), page |-> page, todo |-> page,
                 truncated |-> page # Matches(b, p)] \in PrefixDeleteCalls
            BY <3>3, <3>4 DEF PrefixDeleteCalls
          <5> QED
            BY <4>2, <5>1, <3>1, NoReplyType DEF TypeOK
        <4> QED
          BY <4>1, <4>2
      <3> QED
        BY <3>2, <3>5, ObserveFacts DEF TypeOK
    <2>4. CASE PrefixDeleteNext(s)
      <3>1. call[s].tool = "delete_by_prefix"
        BY <2>4 DEF PrefixDeleteNext, AfterDelete
      <3>2. call[s] \in PrefixDeleteCalls
        BY <3>1 DEF TypeOK, Idle, MoveCalls
      <3>3. PICK k \in call[s].todo : \E r \in GuardedDelete(s, call[s].bucket, k) :
              /\ objects' = r.objects
              /\ \/ /\ call' = [call EXCEPT ![s].todo = @ \ {k}]
                    /\ UNCHANGED reply
                 \/ Answer(s, "delete_by_prefix", "ok",
                           Cardinality(call[s].page), call[s].truncated)
                 \/ Answer(s, "delete_by_prefix", r.outcome, 0, FALSE)
        BY <2>4 DEF PrefixDeleteNext, AfterDelete
      <3>4. PICK r \in GuardedDelete(s, call[s].bucket, k) :
              /\ objects' = r.objects
              /\ \/ /\ call' = [call EXCEPT ![s].todo = @ \ {k}]
                    /\ UNCHANGED reply
                 \/ Answer(s, "delete_by_prefix", "ok",
                           Cardinality(call[s].page), call[s].truncated)
                 \/ Answer(s, "delete_by_prefix", r.outcome, 0, FALSE)
        BY <3>3
      <3>5. call[s].bucket \in Buckets /\ k \in ArgKeys
        BY <3>2, <3>3 DEF PrefixDeleteCalls, ArgKeys
      <3>6. objects' \in Contents /\ r.outcome \in Outcomes
        BY <3>4, <3>5, <2>0, GuardedDeleteFacts
      <3>7. /\ call' \in [Servers -> {Idle} \cup MoveCalls \cup PrefixDeleteCalls]
            /\ reply' \in [Servers -> Replies]
        <4>1. CASE call' = [call EXCEPT ![s].todo = @ \ {k}] /\ UNCHANGED reply
          <5>1. [call[s] EXCEPT !.todo = @ \ {k}] \in PrefixDeleteCalls
            BY <3>2 DEF PrefixDeleteCalls
          <5> QED
            BY <4>1, <5>1 DEF TypeOK
        <4>2. CASE Answer(s, "delete_by_prefix", "ok",
                          Cardinality(call[s].page), call[s].truncated)
          <5>1. call[s].page \subseteq Keys /\ call[s].truncated \in BOOLEAN
            BY <3>2 DEF PrefixDeleteCalls
          <5>2. Cardinality(call[s].page) \in Nat
            BY <5>1, KeysAssumption, FS_Subset, FS_CardinalityType
          <5> QED
            BY <4>2, <5>1, <5>2, AnswerType DEF Outcomes
        <4>3. CASE Answer(s, "delete_by_prefix", r.outcome, 0, FALSE)
          BY <4>3, <3>6, AnswerType
        <4> QED
          BY <3>4, <4>1, <4>2, <4>3
      <3>8. UNCHANGED <<buckets, env>> /\ Observe(s, removed[s]) /\ removed[s] \in SUBSET Locations
        BY <2>4 DEF PrefixDeleteNext, AfterDelete, TypeOK
      <3> QED
        BY <3>6, <3>7, <3>8, ObserveFacts DEF TypeOK, Contents
    <2> QED
      BY <1>4, <2>1, <2>2, <2>3, <2>4 DEF PrefixDeleteTool
  <1>5. ASSUME NEW s \in Servers, NEW e \in Environments, Restart(s, e) PROVE TypeOK'
    <2>1. /\ call' \in [Servers -> {Idle} \cup MoveCalls \cup PrefixDeleteCalls]
          /\ reply' \in [Servers -> Replies]
          /\ env' \in [Servers -> Environments]
          /\ UNCHANGED <<objects, buckets>> /\ Observe(s, {})
      BY <1>5, NoReplyType DEF Restart, TypeOK
    <2> QED
      BY <2>1, ObserveFacts DEF TypeOK
  <1> QED
    BY <1>1, <1>2, <1>3, <1>4, <1>5 DEF Next

(* Every variable keeps its type, in every reachable state.                *)
THEOREM TypeCorrect == Spec => []TypeOK
  BY InitTypeOK, NextTypeOK, PTL DEF Spec

-----------------------------------------------------------------------------
(* The servers that do not act.                                            *)

Acts(s) ==
    \/ SingleTools(s)
    \/ MoveTool(s)
    \/ PrefixDeleteTool(s)
    \/ \E e \in Environments : Restart(s, e)

(* What a step of another server does to s.                                *)
Bystander(s) ==
    /\ call'[s] = call[s] /\ reply'[s] = reply[s] /\ env'[s] = env[s]
    /\ removed'[s] = removed[s]
    /\ touched'[s] = IF call[s].tool = "idle" THEN {} ELSE
         touched[s] \cup {l \in Locations : objects'[l] # objects[l]}

LEMMA OthersStandBy ==
    ASSUME TypeOK, NEW s \in Servers, Acts(s), NEW t \in Servers \ {s}
    PROVE  Bystander(t)
  <1>1. /\ call'[t] = call[t] /\ reply'[t] = reply[t] /\ env'[t] = env[t]
        /\ \E before \in SUBSET Locations : Observe(s, before)
    <2>0. removed[s] \in SUBSET Locations /\ {} \in SUBSET Locations
      BY DEF TypeOK
    <2>1. CASE SingleTools(s)
      BY <2>0, <2>1 DEF SingleTools, PutObject, CopyObject, DeleteObject, CreateBucket,
                        DeleteBucket, SingleCall, TypeOK
    <2>2. CASE MoveTool(s)
      <3>1. CASE \E src, dst \in ArgLocations : MoveRefuse(s, src, dst)
        BY <2>0, <3>1 DEF MoveRefuse, Answer, TypeOK
      <3>2. CASE \E src, dst \in ArgLocations : MoveCopy(s, src, dst)
        BY <2>0, <3>2 DEF MoveCopy, Answer, TypeOK
      <3>3. CASE MoveDelete(s)
        BY <2>0, <3>3 DEF MoveDelete, Answer, TypeOK
      <3> QED
        BY <2>2, <3>1, <3>2, <3>3 DEF MoveTool
    <2>3. CASE PrefixDeleteTool(s)
      <3>1. CASE \E p \in Prefixes : PrefixDeleteRefuse(s, p)
        BY <2>0, <3>1 DEF PrefixDeleteRefuse, Answer, TypeOK
      <3>2. CASE \E b \in Buckets, p \in Prefixes : PrefixDeleteListFails(s, b, p)
        BY <2>0, <3>2 DEF PrefixDeleteListFails, Answer, TypeOK
      <3>3. CASE \E b \in Buckets, p \in Prefixes, asked \in Asked, dry_run \in BOOLEAN :
                   PrefixDeleteList(s, b, p, asked, dry_run)
        BY <2>0, <3>3 DEF PrefixDeleteList, Answer, TypeOK
      <3>4. CASE PrefixDeleteNext(s)
        BY <2>0, <3>4 DEF PrefixDeleteNext, AfterDelete, Answer, TypeOK
      <3> QED
        BY <2>3, <3>1, <3>2, <3>3, <3>4 DEF PrefixDeleteTool
    <2>4. CASE \E e \in Environments : Restart(s, e)
      BY <2>0, <2>4 DEF Restart, TypeOK
    <2> QED
      BY <2>1, <2>2, <2>3, <2>4 DEF Acts
  <1> QED
    BY <1>1, ObserveFacts DEF Bystander

(* A server's invariant survives the steps of the others.                  *)
LEMMA BystanderKeepsInv ==
    ASSUME TypeOK, NEW s \in Servers, ServerInv(s), Bystander(s)
    PROVE  ServerInv(s)'
  <1> USE DEF Bystander
  <1>1. /\ DeletesAllowed(s)' <=> DeletesAllowed(s)
        /\ \A n : WithinCaps(s, n)' <=> WithinCaps(s, n)
    BY DEF DeletesAllowed, WithinCaps
  <1>2. MoveInv(s)'
    <2> SUFFICES ASSUME call[s].tool = "move" PROVE MoveInv(s)'
      BY DEF MoveInv
    <2>1. call[s] \in MoveCalls
      BY DEF TypeOK, Idle, PrefixDeleteCalls
    <2>2. call[s].src \in Locations /\ call[s].dst \in Locations
      BY <2>1 DEF MoveCalls
    <2> QED
      BY <2>2 DEF MoveInv, ServerInv
  <1>3. PrefixDeleteInv(s)'
    <2> SUFFICES ASSUME call[s].tool = "delete_by_prefix" PROVE PrefixDeleteInv(s)'
      BY DEF PrefixDeleteInv
    <2>1. call[s] \in PrefixDeleteCalls
      BY DEF TypeOK, Idle, MoveCalls
    <2>2. \A k \in Under[call[s].prefix] : <<call[s].bucket, k>> \in Locations
      BY <2>1, KeysAssumption DEF PrefixDeleteCalls, Locations
    <2> QED
      BY <1>1, <2>2 DEF PrefixDeleteInv, ServerInv
  <1>4. ReplyInv(s)' /\ GovernedRemoval(s)'
    BY <1>1 DEF ReplyInv, GovernedRemoval, ServerInv
  <1> QED
    BY <1>2, <1>3, <1>4 DEF ServerInv

-----------------------------------------------------------------------------
(* The server that acts.                                                   *)

(* What the governed delete takes away: nothing, or the one object that    *)
(* it may remove.                                                          *)
Emptied == {l \in Locations : objects[l] # Absent /\ objects'[l] = Absent}

LEMMA DeleteEmpties ==
    ASSUME NEW s \in Servers, NEW b \in Buckets, NEW k \in ArgKeys,
           objects \in Contents,
           NEW r \in GuardedDelete(s, b, k), objects' = r.objects
    PROVE  /\ Emptied \subseteq {<<b, k>>}
           /\ Emptied # {} => DeletesAllowed(s) /\ k \in Keys \ WildKeys
           /\ r.outcome = "ok" => k \in Keys /\ Emptied = {<<b, k>>}
  <1>1. CASE r.objects # objects \/ r.outcome = "ok"
    <2>1. /\ DeletesAllowed(s) /\ k \in Keys /\ k \notin WildKeys
          /\ objects[<<b, k>>] # Absent
          /\ objects' = [objects EXCEPT ![<<b, k>>] = Absent]
      BY <1>1, GuardedDeleteFacts
    <2>2. <<b, k>> \in Locations
      BY <2>1 DEF Locations
    <2>3. Emptied = {<<b, k>>}
      BY <2>1, <2>2 DEF Emptied, Contents
    <2> QED
      BY <2>1, <2>3
  <1>2. CASE r.objects = objects /\ r.outcome # "ok"
    BY <1>2 DEF Emptied
  <1> QED
    BY <1>1, <1>2

(* Idle servers need only the governed removal.                            *)
LEMMA IdleInv ==
    ASSUME NEW s \in Servers, call'[s] = Idle, reply'[s] = NoReply, GovernedRemoval(s)'
    PROVE  ServerInv(s)'
  BY DEF ServerInv, MoveInv, PrefixDeleteInv, ReplyInv, Idle, NoReply

LEMMA SingleToolsKeepInv ==
    ASSUME TypeOK, TypeOK', NEW s \in Servers, SingleTools(s)
    PROVE  ServerInv(s)'
  <1>0. objects \in Contents
    BY DEF TypeOK, Contents
  <1>1. /\ call'[s] = Idle /\ reply'[s] = NoReply /\ env'[s] = env[s]
        /\ Observe(s, {})
    BY DEF SingleTools, PutObject, CopyObject, DeleteObject, CreateBucket,
           DeleteBucket, SingleCall, TypeOK
  <1>2. removed'[s] = Emptied
    BY <1>1, ObserveFacts DEF Emptied
  <1>3. Emptied # {} => DeletesAllowed(s) /\ \A l \in Emptied : l[2] \notin WildKeys
    <2>1. ASSUME NEW l \in Locations, NEW v \in Payloads, PutObject(s, l, v)
          PROVE Emptied = {}
      <3>1. PICK r \in GuardedPut(s, l, v) : objects' = r.objects
        BY <2>1 DEF PutObject, SingleCall
      <3>2. objects' = objects \/ objects' = [objects EXCEPT ![l] = v]
        BY <1>0, <3>1, GuardedPutFacts
      <3> QED
        BY <1>0, <3>2, PayloadsAssumption DEF Emptied, Contents
    <2>2. ASSUME NEW src \in Locations, NEW dst \in Locations, CopyObject(s, src, dst)
          PROVE Emptied = {}
      <3>1. PICK r \in StoreCopy(src, dst) : objects' = r.objects
        BY <2>2 DEF CopyObject, SingleCall
      <3>2. \/ objects' = objects
            \/ objects[src] \in Payloads /\ objects' = [objects EXCEPT ![dst] = objects[src]]
        BY <1>0, <3>1, StoreCopyFacts
      <3> QED
        BY <1>0, <3>2, PayloadsAssumption DEF Emptied, Contents
    <2>3. ASSUME NEW b \in Buckets, NEW k \in ArgKeys, DeleteObject(s, b, k)
          PROVE Emptied # {} => DeletesAllowed(s) /\ \A l \in Emptied : l[2] \notin WildKeys
      <3>1. PICK r \in GuardedDelete(s, b, k) : objects' = r.objects
        BY <2>3 DEF DeleteObject, SingleCall
      <3> QED
        BY <1>0, <3>1, DeleteEmpties
    <2>4. ASSUME NEW b \in Buckets, CreateBucket(s, b) \/ DeleteBucket(s, b)
          PROVE Emptied = {}
      BY <2>4 DEF CreateBucket, DeleteBucket, Emptied
    <2> QED
      BY <2>1, <2>2, <2>3, <2>4 DEF SingleTools
  <1>4. GovernedRemoval(s)'
    BY <1>1, <1>2, <1>3 DEF GovernedRemoval, DeletesAllowed
  <1> QED
    BY <1>1, <1>4, IdleInv

LEMMA RestartKeepsInv ==
    ASSUME TypeOK, NEW s \in Servers, NEW e \in Environments, Restart(s, e)
    PROVE  ServerInv(s)'
  <1>1. call'[s] = Idle /\ reply'[s] = NoReply /\ Observe(s, {}) /\ objects' = objects
    BY DEF Restart, TypeOK
  <1>2. removed'[s] = {}
    BY <1>1, ObserveFacts
  <1> QED
    BY <1>1, <1>2, IdleInv DEF GovernedRemoval

(* A composite tool that answers without having listed or copied.          *)
LEMMA EmptyHandedInv ==
    ASSUME TypeOK, NEW s \in Servers,
           NEW tool \in {"move", "delete_by_prefix"}, NEW outcome \in Outcomes,
           NEW trunc \in BOOLEAN,
           Answer(s, tool, outcome, 0, trunc),
           env' = env, removed'[s] = {}
    PROVE  ServerInv(s)'
  <1>1. /\ call'[s] = Idle
        /\ reply'[s] = [tool |-> tool, outcome |-> outcome,
                        deleted |-> 0, truncated |-> trunc]
    BY AnswerType
  <1>2. Cardinality({}) = 0
    BY FS_EmptySet
  <1>3. MoveInv(s)' /\ PrefixDeleteInv(s)' /\ GovernedRemoval(s)'
    BY <1>1 DEF MoveInv, PrefixDeleteInv, GovernedRemoval, Idle
  <1>4. ReplyInv(s)'
    <2>1. Loads(env'[s]) => WithinCaps(s, 0)'
      BY NothingIsWithinCaps DEF WithinCaps
    <2> QED
      BY <1>1, <1>2, <2>1 DEF ReplyInv, Idle
  <1> QED
    BY <1>3, <1>4 DEF ServerInv

LEMMA MoveToolKeepsInv ==
    ASSUME IInv, TypeOK', NEW s \in Servers, MoveTool(s)
    PROVE  ServerInv(s)'
  <1> USE DEF IInv
  <1>0. objects \in Contents
    BY DEF TypeOK, Contents
  <1>1. ASSUME NEW src \in ArgLocations, NEW dst \in ArgLocations, MoveRefuse(s, src, dst)
        PROVE ServerInv(s)'
    <2>1. /\ Answer(s, "move", "refused", 0, FALSE)
          /\ objects' = objects /\ env' = env /\ Observe(s, {})
      BY <1>1 DEF MoveRefuse
    <2>2. removed'[s] = {}
      BY <2>1, ObserveFacts
    <2> QED
      BY <2>1, <2>2, EmptyHandedInv DEF Outcomes
  <1>2. ASSUME NEW src \in ArgLocations, NEW dst \in ArgLocations, MoveCopy(s, src, dst)
        PROVE ServerInv(s)'
    <2>1. src \in Locations /\ dst \in Locations
      BY <1>2 DEF MoveCopy, MayMove, ArgLocations, ArgKeys, Locations
    <2>2. PICK r \in StoreCopy(src, dst) :
            /\ objects' = r.objects
            /\ \/ /\ r.outcome = "ok"
                  /\ call' = [call EXCEPT ![s] = [tool |-> "move", src |-> src,
                                                  dst |-> dst, data |-> objects[src]]]
                  /\ reply' = [reply EXCEPT ![s] = NoReply]
               \/ /\ r.outcome # "ok"
                  /\ Answer(s, "move", r.outcome, 0, FALSE)
      BY <1>2 DEF MoveCopy
    <2>3. env' = env /\ Observe(s, {})
      BY <1>2 DEF MoveCopy
    <2>4. /\ r.outcome \in Outcomes
          /\ \/ objects' = objects
             \/ objects[src] \in Payloads /\ objects' = [objects EXCEPT ![dst] = objects[src]]
          /\ r.outcome = "ok" => objects' = [objects EXCEPT ![dst] = objects[src]]
      BY <1>0, <2>1, <2>2, StoreCopyFacts DEF Outcomes
    <2>5. removed'[s] = {}
      <3>1. Emptied = {}
        BY <1>0, <2>4, PayloadsAssumption DEF Emptied, Contents
      <3> QED
        BY <2>3, <3>1, ObserveFacts DEF Emptied
    <2>6. CASE r.outcome = "ok"
      <3>1. /\ call'[s] = [tool |-> "move", src |-> src, dst |-> dst, data |-> objects[src]]
            /\ reply'[s] = NoReply
        BY <2>2, <2>6 DEF TypeOK
      <3>2. objects'[src] = objects[src] /\ objects'[dst] = objects[src]
        BY <1>0, <2>1, <2>4, <2>6 DEF Contents
      <3>3. MoveInv(s)'
        BY <2>5, <3>1, <3>2 DEF MoveInv
      <3> QED
        BY <2>5, <3>1, <3>3 DEF ServerInv, PrefixDeleteInv, ReplyInv, GovernedRemoval, NoReply
    <2>7. CASE r.outcome # "ok"
      BY <2>2, <2>3, <2>4, <2>5, <2>7, EmptyHandedInv
    <2> QED
      BY <2>6, <2>7
  <1>3. CASE MoveDelete(s)
    <2>1. call[s].tool = "move"
      BY <1>3 DEF MoveDelete
    <2>2. call[s] \in MoveCalls
      BY <2>1 DEF TypeOK, Idle, PrefixDeleteCalls
    <2>3. call[s].src[1] \in Buckets /\ call[s].src[2] \in ArgKeys
      BY <2>2 DEF MoveCalls, Locations, ArgKeys
    <2>4. PICK r \in GuardedDelete(s, call[s].src[1], call[s].src[2]) :
            /\ objects' = r.objects
            /\ Answer(s, "move", r.outcome, IF r.outcome = "ok" THEN 1 ELSE 0, FALSE)
      BY <1>3 DEF MoveDelete
    <2>5. r.outcome \in Outcomes
      BY <1>0, <2>3, <2>4, GuardedDeleteFacts
    <2>6. call'[s] = Idle /\ reply'[s].tool = "move"
      BY <2>4 DEF Answer, TypeOK
    <2>7. env' = env /\ Observe(s, removed[s]) /\ removed[s] \in SUBSET Locations
      BY <1>3 DEF MoveDelete, TypeOK
    <2>8. removed'[s] = removed[s] \cup Emptied
      BY <2>7, ObserveFacts DEF Emptied
    <2>9. removed[s] = {}
      BY <2>1 DEF MoveInv, ServerInv
    <2>10. Emptied # {} => DeletesAllowed(s) /\ \A l \in Emptied : l[2] \notin WildKeys
      BY <1>0, <2>3, <2>4, DeleteEmpties
    <2>11. GovernedRemoval(s)'
      BY <2>7, <2>8, <2>9, <2>10 DEF GovernedRemoval, DeletesAllowed
    <2> QED
      BY <2>6, <2>11 DEF ServerInv, MoveInv, PrefixDeleteInv, ReplyInv, Idle
  <1> QED
    BY <1>1, <1>2, <1>3 DEF MoveTool

(* A set of locations of one bucket is as large as the set of its keys.    *)
LEMMA FullPageCount ==
    ASSUME NEW b, NEW page \in SUBSET Keys
    PROVE  Cardinality({b} \X page) = Cardinality(page)
  <1>1. IsFiniteSet(page)
    BY KeysAssumption, FS_Subset
  <1>2. IsFiniteSet({b}) /\ Cardinality({b}) = 1
    BY FS_Singleton
  <1>3. Cardinality({b} \X page) = 1 * Cardinality(page)
    BY <1>1, <1>2, FS_Product
  <1>4. Cardinality(page) \in Nat
    BY <1>1, FS_CardinalityType
  <1> QED
    BY <1>3, <1>4

LEMMA PageCount ==
    ASSUME NEW b, NEW page \in SUBSET Keys, NEW R \in SUBSET ({b} \X page)
    PROVE  /\ Cardinality(page) \in Nat
           /\ Cardinality(R) \in Nat
           /\ Cardinality(R) <= Cardinality(page)
  <1>1. IsFiniteSet(page) /\ IsFiniteSet({b})
    BY KeysAssumption, FS_Subset, FS_Singleton
  <1>2. IsFiniteSet({b} \X page)
    BY <1>1, FS_Product
  <1>3. IsFiniteSet(R) /\ Cardinality(R) <= Cardinality({b} \X page)
    BY <1>2, FS_Subset
  <1> QED
    BY <1>1, <1>3, FullPageCount, FS_CardinalityType

LEMMA PrefixDeleteListKeepsInv ==
    ASSUME TypeOK, NEW s \in Servers, NEW b \in Buckets, NEW p \in Prefixes,
           NEW asked \in Asked, NEW dry_run \in BOOLEAN,
           PrefixDeleteList(s, b, p, asked, dry_run)
    PROVE  ServerInv(s)'
  <1> DEFINE started(page) ==
        [tool |-> "delete_by_prefix", bucket |-> b, prefix |-> p,
         cap |-> BatchCap(s, asked), page |-> page, todo |-> page,
         truncated |-> page # Matches(b, p)]
  <1>1. PICK page \in GuardedPages(s, b, p, BatchCap(s, asked)) :
          \/ Answer(s, "delete_by_prefix", "ok", 0, page # Matches(b, p))
          \/ /\ call' = [call EXCEPT ![s] = started(page)]
             /\ reply' = [reply EXCEPT ![s] = NoReply]
    BY DEF PrefixDeleteList
  <1>2. DeletesAllowed(s) /\ objects' = objects /\ env' = env /\ Observe(s, {})
    BY DEF PrefixDeleteList, MayDeletePrefix
  <1>3. removed'[s] = {}
    BY <1>2, ObserveFacts
  <1>4. CASE Answer(s, "delete_by_prefix", "ok", 0, page # Matches(b, p))
    BY <1>2, <1>3, <1>4, EmptyHandedInv DEF Outcomes
  <1>5. CASE /\ call' = [call EXCEPT ![s] = started(page)]
             /\ reply' = [reply EXCEPT ![s] = NoReply]
    <2>1. call'[s] = started(page) /\ reply'[s] = NoReply
      BY <1>5 DEF TypeOK
    <2>2. page \subseteq Matches(b, p) /\ Matches(b, p) \subseteq Under[p]
      BY DEF GuardedPages, Pages, Matches
    <2>3. WithinCaps(s, Cardinality(page))
      <3> DEFINE cap == BatchCap(s, asked)
      <3> DEFINE list == LoadLimits(env[s]).max_list_keys
      <3> DEFINE batch == LoadLimits(env[s]).max_batch_keys
      <3> DEFINE n == KeyCap(cap, list)
      <3>1. batch \in Nat /\ list \in Nat
        BY <1>2, LimitsType DEF DeletesAllowed
      <3>2. cap \in Nat /\ cap <= batch /\ (batch > 0 => cap > 0)
        BY <3>1, KeyCapFacts, KeysAssumption DEF BatchCap
      <3>3. n \in Nat /\ n <= list /\ (cap > 0 => n <= cap)
        BY <3>1, <3>2, MarkersAssumption DEF KeyCap, Lesser
      <3>4. Cardinality(Matches(b, p)) \in Nat
        BY <2>2, KeysAssumption, FS_Subset, FS_CardinalityType
      <3>5. Cardinality(page) = Lesser(n, Cardinality(Matches(b, p)))
        BY DEF GuardedPages, Pages
      <3> HIDE DEF cap, n, batch, list
      <3>6. Cardinality(page) <= list /\ (batch > 0 => Cardinality(page) <= batch)
        BY <3>1, <3>2, <3>3, <3>4, <3>5 DEF Lesser
      <3> QED
        BY <3>6 DEF WithinCaps, list, batch
    <2>4. PrefixDeleteInv(s)'
      <3>1. \A k \in Under[p] : objects[<<b, k>>] # Absent =>
              k \in page \/ (page # Matches(b, p) /\ k \notin page)
        BY DEF Matches
      <3>2. {b} \X (page \ page) = {}
        OBVIOUS
      <3>3. DeletesAllowed(s)' /\ WithinCaps(s, Cardinality(page))'
        BY <1>2, <2>3 DEF DeletesAllowed, WithinCaps
      <3>4. /\ call'[s].bucket = b /\ call'[s].prefix = p
            /\ call'[s].page = page /\ call'[s].todo = page
            /\ call'[s].truncated = (page # Matches(b, p))
        BY <2>1
      <3> QED
        BY <1>2, <1>3, <2>2, <3>1, <3>2, <3>3, <3>4 DEF PrefixDeleteInv
    <2> QED
      BY <1>3, <2>1, <2>4 DEF ServerInv, MoveInv, ReplyInv, GovernedRemoval, NoReply
  <1> QED
    BY <1>1, <1>4, <1>5

LEMMA PrefixDeleteNextKeepsInv ==
    ASSUME IInv, TypeOK', NEW s \in Servers, PrefixDeleteNext(s)
    PROVE  ServerInv(s)'
  <1> USE DEF IInv
  <1>0. objects \in Contents
    BY DEF TypeOK, Contents
  <1>1. call[s].tool = "delete_by_prefix"
    BY DEF PrefixDeleteNext, AfterDelete
  <1>2. call[s] \in PrefixDeleteCalls
    BY <1>1 DEF TypeOK, Idle, MoveCalls
  <1> DEFINE c == call[s]
  <1>3. /\ c.bucket \in Buckets /\ c.page \in SUBSET Keys /\ c.todo \in SUBSET Keys
        /\ c.prefix \in Prefixes
    BY <1>2 DEF PrefixDeleteCalls
  <1>4. PICK k \in c.todo : \E r \in GuardedDelete(s, c.bucket, k) :
          /\ objects' = r.objects
          /\ \/ /\ r.outcome = "ok" /\ c.todo # {k}
                /\ call' = [call EXCEPT ![s].todo = @ \ {k}]
                /\ UNCHANGED reply
             \/ /\ r.outcome = "ok" /\ c.todo = {k}
                /\ Answer(s, "delete_by_prefix", "ok", Cardinality(c.page), c.truncated)
             \/ /\ r.outcome # "ok"
                /\ Answer(s, "delete_by_prefix", r.outcome, 0, FALSE)
    BY DEF PrefixDeleteNext, AfterDelete
  <1>5. PICK r \in GuardedDelete(s, c.bucket, k) :
          /\ objects' = r.objects
          /\ \/ /\ r.outcome = "ok" /\ c.todo # {k}
                /\ call' = [call EXCEPT ![s].todo = @ \ {k}]
                /\ UNCHANGED reply
             \/ /\ r.outcome = "ok" /\ c.todo = {k}
                /\ Answer(s, "delete_by_prefix", "ok", Cardinality(c.page), c.truncated)
             \/ /\ r.outcome # "ok"
                /\ Answer(s, "delete_by_prefix", r.outcome, 0, FALSE)
    BY <1>4
  <1>6. k \in Keys /\ k \in ArgKeys
    BY <1>3, <1>4 DEF ArgKeys
  <1>7. env' = env /\ Observe(s, removed[s]) /\ removed[s] \in SUBSET Locations
    BY DEF PrefixDeleteNext, AfterDelete, TypeOK
  <1>8. /\ removed'[s] = removed[s] \cup Emptied
        /\ touched'[s] = IF call'[s].tool = "idle" THEN {} ELSE touched[s]
    BY <1>7, ObserveFacts DEF Emptied
  <1>9. /\ Emptied \subseteq {<<c.bucket, k>>}
        /\ Emptied # {} => DeletesAllowed(s) /\ k \in Keys \ WildKeys
        /\ r.outcome = "ok" => Emptied = {<<c.bucket, k>>}
    BY <1>0, <1>3, <1>5, <1>6, DeleteEmpties
  <1>10. /\ c.todo \subseteq c.page /\ c.page \subseteq Under[c.prefix]
         /\ removed[s] = {c.bucket} \X (c.page \ c.todo)
         /\ DeletesAllowed(s)
    BY <1>1 DEF ServerInv, PrefixDeleteInv
  <1>11. GovernedRemoval(s)'
    <2>1. removed[s] # {} => DeletesAllowed(s) /\ \A l \in removed[s] : l[2] \notin WildKeys
      BY DEF ServerInv, GovernedRemoval
    <2>2. \A l \in Emptied : l[2] \notin WildKeys
      BY <1>9
    <2>3. DeletesAllowed(s)'
      BY <1>7, <1>10 DEF DeletesAllowed
    <2> QED
      BY <1>8, <2>1, <2>2, <2>3 DEF GovernedRemoval
  <1>12. /\ removed'[s] \in SUBSET ({c.bucket} \X c.page)
         /\ r.outcome = "ok" => removed'[s] = {c.bucket} \X (c.page \ (c.todo \ {k}))
    BY <1>4, <1>8, <1>9, <1>10
  <1>13. /\ WithinCaps(s, Cardinality(removed[s]))'
         /\ \A n : n = Cardinality(c.page) => WithinCaps(s, n)'
    <2>1. /\ Cardinality(removed'[s]) <= Cardinality(c.page)
          /\ Cardinality(removed'[s]) \in Nat /\ Cardinality(c.page) \in Nat
      BY <1>3, <1>12, PageCount
    <2>2. WithinCaps(s, Cardinality(c.page)) /\ Loads(env[s])
      BY <1>1 DEF ServerInv, PrefixDeleteInv, DeletesAllowed
    <2>3. WithinCaps(s, Cardinality(removed'[s]))
      BY <2>1, <2>2, WithinCapsBelow
    <2>4. \A n : WithinCaps(s, n)' <=> WithinCaps(s, n)
      BY <1>7 DEF WithinCaps
    <2>5. WithinCaps(s, Cardinality(removed[s]))'
      BY <1>7, <2>3 DEF WithinCaps
    <2> QED
      BY <2>2, <2>4, <2>5
  <1>14. CASE /\ r.outcome = "ok" /\ c.todo # {k}
              /\ call' = [call EXCEPT ![s].todo = @ \ {k}]
              /\ UNCHANGED reply
    <2>1. /\ call'[s].tool = "delete_by_prefix" /\ call'[s].todo = c.todo \ {k}
          /\ call'[s].page = c.page /\ call'[s].bucket = c.bucket
          /\ call'[s].prefix = c.prefix /\ call'[s].truncated = c.truncated
      BY <1>1, <1>2, <1>14 DEF TypeOK, PrefixDeleteCalls
    <2>2. \A j \in Under[c.prefix] : objects'[<<c.bucket, j>>] # Absent =>
            \/ j \in c.todo \ {k}
            \/ <<c.bucket, j>> \in touched'[s]
            \/ c.truncated /\ j \notin c.page
      <3> SUFFICES ASSUME NEW j \in Under[c.prefix], objects'[<<c.bucket, j>>] # Absent
                   PROVE  \/ j \in c.todo \ {k}
                          \/ <<c.bucket, j>> \in touched'[s]
                          \/ c.truncated /\ j \notin c.page
        OBVIOUS
      <3>1. j # k
        BY <1>9, <1>14 DEF Emptied
      <3>2. objects[<<c.bucket, j>>] # Absent
        <4>1. objects' = [objects EXCEPT ![<<c.bucket, k>>] = Absent]
          BY <1>0, <1>3, <1>5, <1>6, <1>14, GuardedDeleteFacts
        <4>2. <<c.bucket, j>> \in Locations
          BY <1>3, KeysAssumption DEF Locations
        <4> QED
          BY <1>0, <3>1, <4>1, <4>2 DEF Contents
      <3> QED
        BY <1>1, <1>8, <2>1, <3>1, <3>2 DEF ServerInv, PrefixDeleteInv
    <2>3. PrefixDeleteInv(s)'
      <3>1. DeletesAllowed(s)'
        BY <1>7, <1>10 DEF DeletesAllowed
      <3>2. c.todo \ {k} \subseteq c.page
        BY <1>10
      <3>3. removed'[s] = {c.bucket} \X (c.page \ (c.todo \ {k}))
        BY <1>12, <1>14
      <3> QED
        BY <1>10, <1>13, <2>1, <2>2, <3>1, <3>2, <3>3 DEF PrefixDeleteInv
    <2>4. ReplyInv(s)'
      <3>1. reply'[s] = NoReply
        BY <1>1, <1>14 DEF ServerInv, ReplyInv
      <3> QED
        BY <3>1 DEF ReplyInv, NoReply
    <2> QED
      BY <1>11, <2>1, <2>3, <2>4 DEF ServerInv, MoveInv
  <1>15. CASE /\ r.outcome = "ok" /\ c.todo = {k}
              /\ Answer(s, "delete_by_prefix", "ok", Cardinality(c.page), c.truncated)
    <2>1. call'[s] = Idle /\ reply'[s].deleted = Cardinality(c.page)
      BY <1>15 DEF Answer, TypeOK
    <2>2. removed'[s] = {c.bucket} \X c.page
      BY <1>12, <1>15
    <2>3. Cardinality(removed'[s]) = Cardinality(c.page)
      <3>1. Cardinality({c.bucket} \X c.page) = Cardinality(c.page)
        BY <1>3, FullPageCount
      <3> QED
        BY <2>2, <3>1, Zenon
    <2>4. ReplyInv(s)'
      BY <1>7, <1>13, <2>1, <2>3 DEF ReplyInv, Idle
    <2> QED
      BY <1>11, <2>1, <2>4 DEF ServerInv, MoveInv, PrefixDeleteInv, Idle
  <1>16. CASE /\ r.outcome # "ok"
              /\ Answer(s, "delete_by_prefix", r.outcome, 0, FALSE)
    <2>1. call'[s] = Idle /\ reply'[s].outcome # "ok"
      BY <1>16 DEF Answer, TypeOK
    <2>2. ReplyInv(s)'
      BY <1>7, <1>13, <2>1 DEF ReplyInv, Idle
    <2> QED
      BY <1>11, <2>1, <2>2 DEF ServerInv, MoveInv, PrefixDeleteInv, Idle
  <1> QED
    BY <1>5, <1>14, <1>15, <1>16

LEMMA PrefixDeleteToolKeepsInv ==
    ASSUME IInv, TypeOK', NEW s \in Servers, PrefixDeleteTool(s)
    PROVE  ServerInv(s)'
  <1> USE DEF IInv
  <1>1. ASSUME NEW p \in Prefixes, PrefixDeleteRefuse(s, p) PROVE ServerInv(s)'
    <2>1. /\ Answer(s, "delete_by_prefix", "refused", 0, FALSE)
          /\ objects' = objects /\ env' = env /\ Observe(s, {})
      BY <1>1 DEF PrefixDeleteRefuse
    <2>2. removed'[s] = {}
      BY <2>1, ObserveFacts
    <2> QED
      BY <2>1, <2>2, EmptyHandedInv DEF Outcomes
  <1>2. ASSUME NEW b \in Buckets, NEW p \in Prefixes, PrefixDeleteListFails(s, b, p)
        PROVE ServerInv(s)'
    <2>1. PICK outcome \in Outcomes : Answer(s, "delete_by_prefix", outcome, 0, FALSE)
      BY <1>2 DEF PrefixDeleteListFails, Outcomes
    <2>2. objects' = objects /\ env' = env /\ Observe(s, {})
      BY <1>2 DEF PrefixDeleteListFails
    <2>3. removed'[s] = {}
      BY <2>2, ObserveFacts
    <2> QED
      BY <2>1, <2>2, <2>3, EmptyHandedInv
  <1> QED
    BY <1>1, <1>2, PrefixDeleteListKeepsInv, PrefixDeleteNextKeepsInv DEF PrefixDeleteTool

-----------------------------------------------------------------------------
(* The invariant.                                                          *)

LEMMA InitIInv == Init => IInv
  <1> SUFFICES ASSUME Init, NEW s \in Servers PROVE ServerInv(s)
    BY InitTypeOK DEF IInv
  <1>1. call[s] = Idle /\ reply[s] = NoReply /\ removed[s] = {}
    BY DEF Init
  <1> QED
    BY <1>1 DEF ServerInv, MoveInv, PrefixDeleteInv, ReplyInv, GovernedRemoval, Idle, NoReply

LEMMA NextIInv == IInv /\ [Next]_vars => IInv'
  <1> SUFFICES ASSUME IInv, [Next]_vars PROVE IInv'
    OBVIOUS
  <1>1. TypeOK'
    BY NextTypeOK DEF IInv
  <1>2. ASSUME NEW s \in Servers, Acts(s) PROVE \A t \in Servers : ServerInv(t)'
    <2>1. ServerInv(s)'
      BY <1>1, <1>2, SingleToolsKeepInv, MoveToolKeepsInv, PrefixDeleteToolKeepsInv,
         RestartKeepsInv DEF Acts, IInv
    <2>2. ASSUME NEW t \in Servers \ {s} PROVE ServerInv(t)'
      BY <1>2, OthersStandBy, BystanderKeepsInv DEF IInv
    <2> QED
      BY <2>1, <2>2
  <1>3. CASE UNCHANGED vars
    BY <1>1, <1>3 DEF vars, IInv, ServerInv, MoveInv, PrefixDeleteInv, ReplyInv,
                      GovernedRemoval, DeletesAllowed, WithinCaps
  <1> QED
    BY <1>1, <1>2, <1>3 DEF IInv, Next, Acts

THEOREM Invariance == Spec => []IInv
  BY InitIInv, NextIInv, PTL DEF Spec

(* Nothing is removed through a server whose deletes are off, and never an *)
(* object whose key holds a wildcard character.                            *)
THEOREM RemovalGoverned == Spec => []RemovalIsGoverned
  <1>1. IInv => RemovalIsGoverned
    BY DEF IInv, ServerInv, RemovalIsGoverned
  <1> QED
    BY <1>1, Invariance, PTL

(* The count a prefix delete reports is what it removed itself.            *)
THEOREM PrefixDeleteReportsExactly == Spec => []PrefixDeleteExact
  <1>1. IInv => PrefixDeleteExact
    BY DEF IInv, ServerInv, PrefixDeleteInv, ReplyInv, PrefixDeleteExact
  <1> QED
    BY <1>1, Invariance, PTL

(* A prefix delete keeps to the list cap, and to a batch cap that is not   *)
(* zero.                                                                   *)
THEOREM BatchBounded == Spec => []BatchBound
  <1>1. IInv => BatchBound
    <2> SUFFICES ASSUME IInv, NEW s \in Servers,
                        "delete_by_prefix" \in {call[s].tool, reply[s].tool},
                        Loads(env[s])
                 PROVE  WithinCaps(s, Cardinality(removed[s]))
      BY DEF BatchBound
    <2>1. CASE call[s].tool = "delete_by_prefix"
      <3>1. call[s] \in PrefixDeleteCalls
        BY <2>1 DEF IInv, TypeOK, Idle, MoveCalls
      <3>2. /\ removed[s] = {call[s].bucket} \X (call[s].page \ call[s].todo)
            /\ WithinCaps(s, Cardinality(call[s].page))
        BY <2>1 DEF IInv, ServerInv, PrefixDeleteInv
      <3>3. call[s].page \in SUBSET Keys
        BY <3>1 DEF PrefixDeleteCalls
      <3>4. removed[s] \in SUBSET ({call[s].bucket} \X call[s].page)
        BY <3>2
      <3>5. /\ Cardinality(removed[s]) <= Cardinality(call[s].page)
            /\ Cardinality(removed[s]) \in Nat /\ Cardinality(call[s].page) \in Nat
        BY <3>3, <3>4, PageCount
      <3> QED
        BY <3>2, <3>5, WithinCapsBelow DEF IInv
    <2>2. CASE reply[s].tool = "delete_by_prefix"
      BY <2>2 DEF IInv, ServerInv, ReplyInv
    <2> QED
      BY <2>1, <2>2
  <1> QED
    BY <1>1, Invariance, PTL

-----------------------------------------------------------------------------
(* What one step may do.                                                   *)

(* A server whose move or prefix delete ends in a step has taken that      *)
(* step: it was the next one of its tool, or a restart.                    *)
LEMMA EndingStep ==
    ASSUME TypeOK, [Next]_vars, NEW s \in Servers,
           call[s].tool # "idle", call'[s] = Idle
    PROVE  \/ MoveDelete(s) \/ PrefixDeleteNext(s)
           \/ \E e \in Environments : Restart(s, e)
  <1>1. call[s] # Idle
    BY DEF Idle
  <1>2. PICK t \in Servers : Acts(t)
    BY <1>1 DEF Next, Acts, vars
  <1>3. t = s
    <2> SUFFICES ASSUME t # s PROVE FALSE
      OBVIOUS
    <2>1. Bystander(s)
      BY <1>2, OthersStandBy
    <2> QED
      BY <1>1, <2>1 DEF Bystander
  <1>4. ~SingleTools(s)
    BY <1>1 DEF SingleTools, PutObject, CopyObject, DeleteObject, SingleCall,
                CreateBucket, DeleteBucket
  <1>5. MoveTool(s) => MoveDelete(s)
    BY <1>1 DEF MoveTool, MoveRefuse, MoveCopy
  <1>6. PrefixDeleteTool(s) => PrefixDeleteNext(s)
    BY <1>1 DEF PrefixDeleteTool, PrefixDeleteRefuse, PrefixDeleteListFails, PrefixDeleteList
  <1> QED
    BY <1>2, <1>3, <1>4, <1>5, <1>6 DEF Acts

(* However a move ends, its destination holds the object.                  *)
THEOREM MovesKeepObjects == Spec => MoveKeepsObject
  <1>1. ASSUME IInv, [Next]_vars, NEW s \in Servers, EndsMove(s),
               call[s].src # call[s].dst, Undisturbed(s)
        PROVE  objects[call[s].src] = objects'[call[s].dst]
    <2>0. objects \in Contents /\ TypeOK
      BY <1>1 DEF IInv, TypeOK, Contents
    <2>1. call[s].tool = "move" /\ call'[s] = Idle
      BY <1>1 DEF EndsMove
    <2>2. call[s] \in MoveCalls
      BY <2>0, <2>1 DEF TypeOK, Idle, PrefixDeleteCalls
    <2>3. /\ call[s].src \in Locations /\ call[s].dst \in Locations
          /\ call[s].src = <<call[s].src[1], call[s].src[2]>>
          /\ call[s].src[1] \in Buckets /\ call[s].src[2] \in ArgKeys
      BY <2>2 DEF MoveCalls, Locations, ArgKeys
    <2>4. objects[call[s].src] = call[s].data /\ objects[call[s].dst] = call[s].data
      BY <1>1, <2>1 DEF IInv, ServerInv, MoveInv, Undisturbed
    <2>5. objects'[call[s].dst] = objects[call[s].dst]
      <3>1. CASE MoveDelete(s)
        <4>1. PICK r \in GuardedDelete(s, call[s].src[1], call[s].src[2]) :
                objects' = r.objects
          BY <3>1 DEF MoveDelete
        <4>2. \/ objects' = objects
              \/ objects' = [objects EXCEPT ![call[s].src] = Absent]
          <5> SUFFICES ASSUME r.objects # objects
                       PROVE  objects' = [objects EXCEPT ![call[s].src] = Absent]
            BY <4>1
          <5>1. r.objects = [objects EXCEPT ![<<call[s].src[1], call[s].src[2]>>] = Absent]
            BY <2>0, <2>3, GuardedDeleteFacts
          <5> QED
            BY <2>3, <4>1, <5>1
        <4> QED
          BY <1>1, <2>0, <2>3, <4>2 DEF Contents
      <3>2. CASE \E e \in Environments : Restart(s, e)
        BY <3>2 DEF Restart
      <3>3. ~PrefixDeleteNext(s)
        BY <2>1 DEF PrefixDeleteNext, AfterDelete
      <3> QED
        BY <1>1, <2>0, <2>1, <3>1, <3>2, <3>3, EndingStep
    <2> QED
      BY <2>4, <2>5
  <1>2. IInv /\ [Next]_vars =>
          [\A s \in Servers :
             EndsMove(s) /\ call[s].src # call[s].dst /\ Undisturbed(s)
             => objects[call[s].src] = objects'[call[s].dst]]_vars
    BY <1>1
  <1> QED
    BY <1>2, Invariance, PTL DEF Spec, MoveKeepsObject

(* A move that answers success has moved: its source is empty, and its     *)
(* destination holds what it copied unless another client changed it since *)
(* ("moved", objectstore_move_object).                                     *)
THEOREM ReportedMovesHappened ==
    Spec => [][\A s \in Servers :
                 /\ call[s].tool = "move" /\ call'[s] = Idle
                 /\ reply'[s].outcome = "ok"
                 /\ call[s].src # call[s].dst
                 => /\ objects'[call[s].src] = Absent
                    /\ objects'[call[s].dst] = call[s].data
                         \/ call[s].dst \in touched[s]]_vars
  <1>1. ASSUME IInv, [Next]_vars, NEW s \in Servers,
               call[s].tool = "move", call'[s] = Idle, reply'[s].outcome = "ok",
               call[s].src # call[s].dst
        PROVE  /\ objects'[call[s].src] = Absent
               /\ objects'[call[s].dst] = call[s].data \/ call[s].dst \in touched[s]
    <2>0. objects \in Contents /\ TypeOK
      BY <1>1 DEF IInv, TypeOK, Contents
    <2>1. call[s] \in MoveCalls
      BY <1>1, <2>0 DEF TypeOK, Idle, PrefixDeleteCalls
    <2>2. MoveDelete(s)
      <3>1. ~PrefixDeleteNext(s)
        BY <1>1 DEF PrefixDeleteNext, AfterDelete
      <3>2. \A e \in Environments : ~Restart(s, e)
        BY <1>1, <2>0 DEF Restart, NoReply, TypeOK
      <3> QED
        BY <1>1, <2>0, <3>1, <3>2, EndingStep
    <2>3. /\ call[s].src \in Locations /\ call[s].dst \in Locations
          /\ call[s].src = <<call[s].src[1], call[s].src[2]>>
          /\ call[s].src[1] \in Buckets /\ call[s].src[2] \in ArgKeys
      BY <2>1 DEF MoveCalls, Locations, ArgKeys
    <2>4. PICK r \in GuardedDelete(s, call[s].src[1], call[s].src[2]) :
            /\ objects' = r.objects
            /\ reply' = [reply EXCEPT ![s] =
                 [tool |-> "move", outcome |-> r.outcome,
                  deleted |-> IF r.outcome = "ok" THEN 1 ELSE 0, truncated |-> FALSE]]
      BY <2>2 DEF MoveDelete, Answer
    <2>5. r.outcome = "ok"
      BY <1>1, <2>0, <2>4 DEF TypeOK
    <2>6. objects' = [objects EXCEPT ![call[s].src] = Absent]
      <3> DEFINE b == call[s].src[1]
                 k == call[s].src[2]
      <3>1. b \in Buckets /\ k \in ArgKeys /\ r \in GuardedDelete(s, b, k)
        BY <2>3, <2>4
      <3>2. call[s].src = <<b, k>>
        BY <2>3
      <3> HIDE DEF b, k
      <3>3. r.objects = [objects EXCEPT ![<<b, k>>] = Absent]
        BY <2>0, <2>5, <3>1, GuardedDeleteFacts
      <3> QED
        BY <2>4, <3>2, <3>3
    <2>7. objects[call[s].dst] = call[s].data \/ call[s].dst \in touched[s]
      BY <1>1 DEF IInv, ServerInv, MoveInv
    <2> QED
      BY <1>1, <2>0, <2>3, <2>6, <2>7 DEF Contents
  <1>2. IInv /\ [Next]_vars =>
          [\A s \in Servers :
             /\ call[s].tool = "move" /\ call'[s] = Idle
             /\ reply'[s].outcome = "ok"
             /\ call[s].src # call[s].dst
             => /\ objects'[call[s].src] = Absent
                /\ objects'[call[s].dst] = call[s].data
                     \/ call[s].dst \in touched[s]]_vars
    BY <1>1
  <1> QED
    BY <1>2, Invariance, PTL DEF Spec

(* The docstring of objectstore_move_object ("copy it to                   *)
(* dst_bucket/dst_key, then delete the source") is kept by every move      *)
(* whose callers never name one location twice: the move onto itself is    *)
(* the only one that loses its object undisturbed.                         *)
THEOREM OnlySelfMovesDestroy ==
    Spec /\ [](\A s \in Servers : call[s].tool = "move" => call[s].src # call[s].dst)
      => MoveNeverDestroys
  <1> DEFINE Apart == \A s \in Servers : call[s].tool = "move" => call[s].src # call[s].dst
  <1> DEFINE Kept(s) ==
        EndsMove(s) /\ call[s].src # call[s].dst /\ Undisturbed(s)
        => objects[call[s].src] = objects'[call[s].dst]
  <1>1. Apart /\ [\A s \in Servers : Kept(s)]_vars =>
          [\A s \in Servers : RemovesSource(s) /\ Undisturbed(s)
             => objects[call[s].src] = objects'[call[s].dst]]_vars
    BY DEF RemovesSource, EndsMove
  <1>2. Spec => [][\A s \in Servers : Kept(s)]_vars
    BY MovesKeepObjects DEF MoveKeepsObject
  <1> QED
    BY <1>1, <1>2, PTL DEF MoveNeverDestroys

(* A prefix delete that succeeds on a complete listing leaves only objects *)
(* that others changed since.                                              *)
THEOREM PrefixDeletesAreComplete == Spec => PrefixDeleteLeavesOnlyNewer
  <1>1. ASSUME IInv, [Next]_vars, NEW s \in Servers,
               FinishesPrefixDelete(s), ~reply'[s].truncated,
               NEW j \in Under[call[s].prefix],
               objects'[<<call[s].bucket, j>>] # Absent
        PROVE  <<call[s].bucket, j>> \in touched[s]
    <2>0. objects \in Contents /\ TypeOK
      BY <1>1 DEF IInv, TypeOK, Contents
    <2>1. /\ call[s].tool = "delete_by_prefix" /\ call'[s] = Idle /\ reply'[s].outcome = "ok"
      BY <1>1 DEF FinishesPrefixDelete
    <2>2. call[s] \in PrefixDeleteCalls
      BY <2>0, <2>1 DEF TypeOK, Idle, MoveCalls
    <2>3. PrefixDeleteNext(s)
      <3>1. ~MoveDelete(s)
        BY <2>1 DEF MoveDelete
      <3>2. \A e \in Environments : ~Restart(s, e)
        BY <2>0, <2>1 DEF Restart, NoReply, TypeOK
      <3> QED
        BY <1>1, <2>0, <2>1, <3>1, <3>2, EndingStep
    <2>4. PICK k \in call[s].todo : \E r \in GuardedDelete(s, call[s].bucket, k) :
            /\ objects' = r.objects
            /\ r.outcome = "ok" /\ call[s].todo = {k}
            /\ Answer(s, "delete_by_prefix", "ok",
                      Cardinality(call[s].page), call[s].truncated)
      <3>1. ~\E k : call' = [call EXCEPT ![s].todo = @ \ {k}]
        BY <2>0, <2>1, <2>2 DEF TypeOK, Idle, PrefixDeleteCalls
      <3>2. \A r : r.outcome # "ok" =>
              ~Answer(s, "delete_by_prefix", r.outcome, 0, FALSE)
        BY <2>0, <2>1 DEF Answer, TypeOK
      <3> QED
        BY <2>3, <3>1, <3>2 DEF PrefixDeleteNext, AfterDelete
    <2>5. PICK r \in GuardedDelete(s, call[s].bucket, k) :
            /\ objects' = r.objects
            /\ r.outcome = "ok"
      BY <2>4
    <2>6. call[s].bucket \in Buckets /\ k \in ArgKeys /\ <<call[s].bucket, j>> \in Locations
      BY <2>2, <2>4, KeysAssumption DEF PrefixDeleteCalls, ArgKeys, Locations
    <2>7. objects' = [objects EXCEPT ![<<call[s].bucket, k>>] = Absent] /\ k \in Keys
      BY <2>0, <2>5, <2>6, GuardedDeleteFacts
    <2>8. j # k /\ objects[<<call[s].bucket, j>>] # Absent
      BY <1>1, <2>0, <2>6, <2>7 DEF Contents
    <2>9. ~call[s].truncated
      BY <1>1, <2>0, <2>4 DEF Answer, TypeOK
    <2> QED
      BY <1>1, <2>1, <2>4, <2>8, <2>9 DEF IInv, ServerInv, PrefixDeleteInv
  <1>2. IInv /\ [Next]_vars =>
          [\A s \in Servers :
             FinishesPrefixDelete(s) /\ ~reply'[s].truncated =>
               \A k \in Under[call[s].prefix] :
                  LET l == <<call[s].bucket, k>> IN
                  objects'[l] # Absent => l \in touched[s]]_vars
    BY <1>1
  <1> QED
    BY <1>2, Invariance, PTL DEF Spec, PrefixDeleteLeavesOnlyNewer

-----------------------------------------------------------------------------
(* ObjectTools implements GovernedStore.                                   *)

GovernedStep == [Governed!Next]_(Governed!vars)

(* While the settings stay, so do the switches and the admitted payloads.  *)
LEMMA SameSettings ==
    ASSUME env' = env
    PROVE  UNCHANGED Governed!Unset
  BY DEF Governed!Unset, DeletesAllowed

LEMMA StutterStep ==
    ASSUME env' = env, buckets' = buckets, objects' = objects
    PROVE  GovernedStep
  BY SameSettings DEF GovernedStep, Governed!vars, Governed!Unset

LEMMA DeleteStep ==
    ASSUME TypeOK, NEW s \in Servers, NEW b \in Buckets, NEW k \in ArgKeys,
           NEW r \in GuardedDelete(s, b, k), objects' = r.objects,
           env' = env, buckets' = buckets
    PROVE  GovernedStep
  <1>1. CASE r.objects = objects
    BY <1>1, StutterStep
  <1>2. CASE r.objects # objects
    <2>0. objects \in Contents
      BY DEF TypeOK, Contents
    <2>1. /\ DeletesAllowed(s) /\ k \in Keys /\ k \notin WildKeys
          /\ objects' = [objects EXCEPT ![<<b, k>>] = Absent]
      BY <1>2, <2>0, GuardedDeleteFacts
    <2>2. Governed!Remove(<<b, k>>) /\ <<b, k>> \in Governed!Locations
      BY <2>1, SameSettings DEF Governed!Remove, Governed!Locations, Governed!Unset
    <2> QED
      BY <2>2 DEF GovernedStep, Governed!Next
  <1> QED
    BY <1>1, <1>2

LEMMA CopyStep ==
    ASSUME TypeOK, NEW src \in Locations, NEW dst \in Locations,
           NEW r \in StoreCopy(src, dst), objects' = r.objects,
           env' = env, buckets' = buckets
    PROVE  GovernedStep
  <1>1. CASE r.objects = objects
    BY <1>1, StutterStep
  <1>2. CASE r.objects # objects
    <2>1. /\ objects[src] \in Payloads /\ dst[1] \in buckets
          /\ objects' = [objects EXCEPT ![dst] = objects[src]]
      BY <1>2, StoreCopyFacts DEF TypeOK, Contents
    <2>2. /\ src \in Governed!Locations /\ dst \in Governed!Locations
      BY DEF Locations, Governed!Locations
    <2>3. Governed!Write(dst, objects[src])
      BY <2>1, <2>2, SameSettings, PayloadsAssumption DEF Governed!Write, Governed!Unset
    <2> QED
      BY <2>1, <2>2, <2>3 DEF GovernedStep, Governed!Next
  <1> QED
    BY <1>1, <1>2

LEMMA PutStep ==
    ASSUME TypeOK, NEW s \in Servers, NEW l \in Locations, NEW v \in Payloads,
           NEW r \in GuardedPut(s, l, v), objects' = r.objects,
           env' = env, buckets' = buckets
    PROVE  GovernedStep
  <1>1. CASE r.objects = objects
    BY <1>1, StutterStep
  <1>2. CASE r.objects # objects
    <2>0. objects \in Contents
      BY DEF TypeOK, Contents
    <2>1. /\ Loads(env[s]) /\ Size[v] <= LoadLimits(env[s]).max_put_bytes
          /\ l[1] \in buckets
          /\ objects' = [objects EXCEPT ![l] = v]
      BY <1>2, <2>0, GuardedPutFacts
    <2>2. Governed!Write(l, v) /\ l \in Governed!Locations
      BY <2>1, SameSettings, PayloadsAssumption
         DEF Governed!Write, Governed!Unset, Locations, Governed!Locations
    <2> QED
      BY <2>2 DEF GovernedStep, Governed!Next
  <1> QED
    BY <1>1, <1>2

LEMMA SettingsType == Governed!Settings
  BY DEF Governed!Settings

LEMMA InitGoverned == Init => Governed!Init
  BY SettingsType DEF Init, Governed!Init, Governed!Housed, Governed!Locations, Locations

LEMMA NextGoverned == TypeOK /\ [Next]_vars => GovernedStep
  <1> SUFFICES ASSUME TypeOK, [Next]_vars PROVE GovernedStep
    OBVIOUS
  <1> USE TypeOK
  <1>1. CASE UNCHANGED vars
    BY <1>1, StutterStep DEF vars
  <1>2. ASSUME NEW s \in Servers, SingleTools(s) PROVE GovernedStep
    <2>1. ASSUME NEW l \in Locations, NEW v \in Payloads, PutObject(s, l, v)
          PROVE GovernedStep
      BY <2>1, PutStep DEF PutObject, SingleCall
    <2>2. ASSUME NEW src \in Locations, NEW dst \in Locations, CopyObject(s, src, dst)
          PROVE GovernedStep
      BY <2>2, CopyStep DEF CopyObject, SingleCall
    <2>3. ASSUME NEW b \in Buckets, NEW k \in ArgKeys, DeleteObject(s, b, k)
          PROVE GovernedStep
      BY <2>3, DeleteStep DEF DeleteObject, SingleCall
    <2>4. ASSUME NEW b \in Buckets, CreateBucket(s, b) PROVE GovernedStep
      <3>1. Governed!AddBucket(b)
        BY <2>4, SameSettings DEF CreateBucket, Governed!AddBucket, Governed!Unset
      <3> QED
        BY <3>1 DEF GovernedStep, Governed!Next
    <2>5. ASSUME NEW b \in Buckets, DeleteBucket(s, b) PROVE GovernedStep
      <3>1. Governed!RemoveBucket(b)
        BY <2>5, SameSettings DEF DeleteBucket, Governed!RemoveBucket, Governed!Unset
      <3> QED
        BY <3>1 DEF GovernedStep, Governed!Next
    <2> QED
      BY <1>2, <2>1, <2>2, <2>3, <2>4, <2>5 DEF SingleTools
  <1>3. ASSUME NEW s \in Servers, MoveTool(s) PROVE GovernedStep
    <2>1. ASSUME NEW src \in ArgLocations, NEW dst \in ArgLocations, MoveRefuse(s, src, dst)
          PROVE GovernedStep
      BY <2>1, StutterStep DEF MoveRefuse
    <2>2. ASSUME NEW src \in ArgLocations, NEW dst \in ArgLocations, MoveCopy(s, src, dst)
          PROVE GovernedStep
      <3>1. src \in Locations /\ dst \in Locations
        BY <2>2 DEF MoveCopy, MayMove, ArgLocations, ArgKeys, Locations
      <3> QED
        BY <2>2, <3>1, CopyStep DEF MoveCopy
    <2>3. CASE MoveDelete(s)
      <3>1. call[s] \in MoveCalls
        BY <2>3 DEF MoveDelete, TypeOK, Idle, PrefixDeleteCalls
      <3>2. call[s].src[1] \in Buckets /\ call[s].src[2] \in ArgKeys
        BY <3>1 DEF MoveCalls, Locations, ArgKeys
      <3> QED
        BY <2>3, <3>2, DeleteStep DEF MoveDelete
    <2> QED
      BY <1>3, <2>1, <2>2, <2>3 DEF MoveTool
  <1>4. ASSUME NEW s \in Servers, PrefixDeleteTool(s) PROVE GovernedStep
    <2>1. ASSUME NEW p \in Prefixes, PrefixDeleteRefuse(s, p) PROVE GovernedStep
      BY <2>1, StutterStep DEF PrefixDeleteRefuse
    <2>2. ASSUME NEW b \in Buckets, NEW p \in Prefixes, PrefixDeleteListFails(s, b, p)
          PROVE GovernedStep
      BY <2>2, StutterStep DEF PrefixDeleteListFails
    <2>3. ASSUME NEW b \in Buckets, NEW p \in Prefixes, NEW asked \in Asked,
                 NEW dry_run \in BOOLEAN, PrefixDeleteList(s, b, p, asked, dry_run)
          PROVE GovernedStep
      BY <2>3, StutterStep DEF PrefixDeleteList
    <2>4. CASE PrefixDeleteNext(s)
      <3>1. call[s] \in PrefixDeleteCalls
        BY <2>4 DEF PrefixDeleteNext, AfterDelete, TypeOK, Idle, MoveCalls
      <3>2. call[s].bucket \in Buckets /\ call[s].todo \subseteq ArgKeys
        BY <3>1 DEF PrefixDeleteCalls, ArgKeys
      <3>3. PICK k \in call[s].todo : \E r \in GuardedDelete(s, call[s].bucket, k) :
              objects' = r.objects
        BY <2>4 DEF PrefixDeleteNext, AfterDelete
      <3>4. env' = env /\ buckets' = buckets
        BY <2>4 DEF PrefixDeleteNext, AfterDelete
      <3> QED
        BY <3>2, <3>3, <3>4, DeleteStep
    <2> QED
      BY <1>4, <2>1, <2>2, <2>3, <2>4 DEF PrefixDeleteTool
  <1>5. ASSUME NEW s \in Servers, NEW e \in Environments, Restart(s, e) PROVE GovernedStep
    <2>1. Governed!Reset
      BY <1>5 DEF Restart, Governed!Reset
    <2> QED
      BY <2>1 DEF GovernedStep, Governed!Next
  <1> QED
    BY <1>1, <1>2, <1>3, <1>4, <1>5 DEF Next

(* Whatever tools are called, the store changes only as the governor       *)
(* promises.                                                               *)
THEOREM ImplementsGovernedStore == Spec => GovernedSpec
  <1>1. Governed!Spec <=> Governed!Init /\ [][Governed!Next]_(Governed!vars)
    BY DEF Governed!Spec
  <1>2. TypeOK /\ [Next]_vars => [Governed!Next]_(Governed!vars)
    BY NextGoverned DEF GovernedStep
  <1> QED
    BY InitGoverned, <1>1, <1>2, TypeCorrect, PTL DEF Spec, GovernedSpec

-----------------------------------------------------------------------------
(* What follows from it for the objects a store holds.                     *)

(* The steps the governor lets the store make.                             *)
Writes(l, v) ==
    /\ l[1] \in buckets
    /\ \/ \E m \in Locations : v = objects[m]
       \/ \E s \in Servers : Loads(env[s]) /\ Size[v] <= LoadLimits(env[s]).max_put_bytes
    /\ objects' = [objects EXCEPT ![l] = v]
    /\ buckets' = buckets

Removes(l) ==
    /\ \E s \in Servers : DeletesAllowed(s)
    /\ l[2] \notin WildKeys
    /\ objects' = [objects EXCEPT ![l] = Absent]
    /\ buckets' = buckets

RemovesBucket(b) ==
    /\ \E s \in Servers : Loads(env[s]) /\ LoadLimits(env[s]).allow_bucket_delete
    /\ \A k \in Keys : objects[<<b, k>>] = Absent
    /\ buckets' = buckets \ {b}
    /\ objects' = objects

LEMMA StoreSteps ==
    ASSUME TypeOK, [Next]_vars
    PROVE  \/ objects' = objects /\ buckets \subseteq buckets'
           \/ \E l \in Locations, v \in Payloads : Writes(l, v)
           \/ \E l \in Locations : Removes(l)
           \/ \E b \in Buckets : RemovesBucket(b)
  <1>1. GovernedStep
    BY NextGoverned
  <1>2. CASE Governed!Reset \/ UNCHANGED Governed!vars
    BY <1>2 DEF Governed!Reset, Governed!vars
  <1>3. ASSUME NEW l \in Governed!Locations, Governed!Remove(l)
        PROVE  l \in Locations /\ Removes(l)
    BY <1>3 DEF Governed!Remove, Governed!Unset, Governed!Locations, Locations, Removes
  <1>4. ASSUME NEW l \in Governed!Locations, NEW v \in Payloads, Governed!Write(l, v)
        PROVE  l \in Locations /\ Writes(l, v)
    BY <1>4 DEF Governed!Write, Governed!Unset, Governed!Locations, Locations, Writes
  <1>5. ASSUME NEW b \in Buckets, Governed!AddBucket(b)
        PROVE  objects' = objects /\ buckets \subseteq buckets'
    BY <1>5 DEF Governed!AddBucket
  <1>6. ASSUME NEW b \in Buckets, Governed!RemoveBucket(b)
        PROVE  RemovesBucket(b)
    BY <1>6 DEF Governed!RemoveBucket, Governed!Unset, RemovesBucket
  <1> QED
    BY <1>1, <1>2, <1>3, <1>4, <1>5, <1>6 DEF GovernedStep, Governed!Next

(* An object that is gone was removed on a server that allows it, and its  *)
(* key holds no wildcard character.                                        *)
LEMMA LossesAreGoverned ==
    ASSUME TypeOK, [Next]_vars, NEW l \in Locations,
           objects[l] # Absent, objects'[l] = Absent
    PROVE  l[2] \notin WildKeys /\ \E s \in Servers : DeletesAllowed(s)
  <1>1. ASSUME NEW m \in Locations, NEW v \in Payloads, Writes(m, v)
        PROVE  FALSE
    BY <1>1, PayloadsAssumption DEF Writes, TypeOK
  <1>2. ASSUME NEW m \in Locations, Removes(m)
        PROVE  m = l
    BY <1>2 DEF Removes, TypeOK
  <1>3. PICK m \in Locations : Removes(m)
    BY <1>1, StoreSteps DEF RemovesBucket
  <1> QED
    BY <1>2, <1>3 DEF Removes

(* An object whose key holds "*" or "?" is never removed, whatever is      *)
(* allowed: not by a delete, not by a move, not by a prefix delete         *)
(* (guard.py delete_object); it may only be written over.                  *)
THEOREM WildcardKeysAreNeverRemoved ==
    Spec => [][\A l \in Locations :
                 l[2] \in WildKeys /\ objects[l] # Absent => objects'[l] # Absent]_vars
  <1>1. TypeOK /\ [Next]_vars =>
          \A l \in Locations :
              l[2] \in WildKeys /\ objects[l] # Absent => objects'[l] # Absent
    BY LossesAreGoverned
  <1> QED
    BY <1>1, TypeCorrect, PTL DEF Spec

(* Where every server process is started with object deletes off, or with  *)
(* settings that do not parse, no tool makes an object disappear           *)
(* (OBJECTSTORE_ALLOW_OBJECT_DELETE).                                      *)
THEOREM DeletesOffLosesNothing ==
    ASSUME \A e \in Environments : ~(Loads(e) /\ LoadLimits(e).allow_object_delete)
    PROVE  Spec => [][\A l \in Locations :
                        objects[l] # Absent => objects'[l] # Absent]_vars
  <1>1. TypeOK /\ [Next]_vars =>
          \A l \in Locations : objects[l] # Absent => objects'[l] # Absent
    <2> SUFFICES ASSUME TypeOK PROVE \A s \in Servers : ~DeletesAllowed(s)
      BY LossesAreGoverned
    <2> QED
      BY DEF TypeOK, DeletesAllowed
  <1> QED
    BY <1>1, TypeCorrect, PTL DEF Spec

(* Where no server process is started with bucket deletes on, no tool      *)
(* makes a bucket disappear (OBJECTSTORE_ALLOW_BUCKET_DELETE).             *)
THEOREM BucketDeletesOffKeepsBuckets ==
    ASSUME \A e \in Environments : ~(Loads(e) /\ LoadLimits(e).allow_bucket_delete)
    PROVE  Spec => [][buckets \subseteq buckets']_vars
  <1>1. TypeOK /\ [Next]_vars => buckets \subseteq buckets'
    <2> SUFFICES ASSUME TypeOK, [Next]_vars PROVE buckets \subseteq buckets'
      OBVIOUS
    <2>1. \A b : ~RemovesBucket(b)
      BY DEF TypeOK, RemovesBucket
    <2> QED
      BY <2>1, StoreSteps DEF Writes, Removes
  <1> QED
    BY <1>1, TypeCorrect, PTL DEF Spec

(* If no server process is ever started with a put cap over n, the store   *)
(* never comes to hold an object of more than n bytes that it did not hold *)
(* at first: no copy, no move and no restart with other settings gets      *)
(* around the cap (guard.py put_object).                                   *)
THEOREM StoreWithinPutCap ==
    ASSUME NEW n \in Nat,
           \A e \in Environments : Loads(e) => LoadLimits(e).max_put_bytes <= n,
           NEW CONSTANT Old
    PROVE  Init /\ (\A l \in Locations : objects[l] # Absent => objects[l] \in Old)
             /\ [][Next]_vars
           => [](\A l \in Locations :
                   objects[l] # Absent => objects[l] \in Old \/ Size[objects[l]] <= n)
  <1> DEFINE Within == \A l \in Locations :
                   objects[l] # Absent => objects[l] \in Old \/ Size[objects[l]] <= n
  <1>1. (\A l \in Locations : objects[l] # Absent => objects[l] \in Old) => Within
    OBVIOUS
  <1>2. TypeOK /\ Within /\ [Next]_vars => Within'
    <2> SUFFICES ASSUME TypeOK, Within, [Next]_vars, NEW l \in Locations,
                        objects'[l] # Absent
                 PROVE  objects'[l] \in Old \/ Size[objects'[l]] <= n
      OBVIOUS
    <2>1. objects \in [Locations -> Payloads \cup {Absent}]
      BY DEF TypeOK
    <2>2. ASSUME NEW m \in Locations, NEW v \in Payloads, Writes(m, v)
          PROVE  v \in Old \/ Size[v] <= n
      <3>1. CASE \E j \in Locations : v = objects[j]
        BY <2>2, <3>1, PayloadsAssumption
      <3>2. ASSUME NEW s \in Servers,
                   Loads(env[s]) /\ Size[v] <= LoadLimits(env[s]).max_put_bytes
            PROVE  Size[v] <= n
        <4>1. env[s] \in Environments /\ env[s] \in Setting
          BY EnvironmentsAssumption DEF TypeOK
        <4>2. LoadLimits(env[s]).max_put_bytes \in Nat /\ Size[v] \in Nat
          BY <3>2, <4>1, LimitsType, PayloadsAssumption
        <4>3. LoadLimits(env[s]).max_put_bytes <= n
          BY <3>2, <4>1
        <4> QED
          BY <3>2, <4>2, <4>3
      <3> QED
        BY <2>2, <3>1, <3>2 DEF Writes
    <2>3. ASSUME NEW m \in Locations, NEW v \in Payloads, Writes(m, v)
          PROVE  objects'[l] \in Old \/ Size[objects'[l]] <= n
      <3>1. objects' = [objects EXCEPT ![m] = v]
        BY <2>3 DEF Writes
      <3>2. objects'[l] = v \/ objects'[l] = objects[l]
        BY <2>1, <3>1
      <3> QED
        BY <2>2, <2>3, <3>2
    <2>4. ASSUME NEW m \in Locations, Removes(m)
          PROVE  objects'[l] = objects[l]
      BY <2>1, <2>4 DEF Removes
    <2>5. objects'[l] = objects[l] => objects'[l] \in Old \/ Size[objects'[l]] <= n
      OBVIOUS
    <2> QED
      BY <2>3, <2>4, <2>5, StoreSteps DEF RemovesBucket
  <1>3. Init => TypeOK
    BY InitTypeOK
  <1> HIDE DEF Within
  <1>4. Init /\ Within /\ [][Next]_vars => []Within
    BY <1>2, <1>3, NextTypeOK, PTL
  <1> QED
    BY <1>1, <1>4, PTL DEF Within

-----------------------------------------------------------------------------
(* The steps by which a prefix is emptied.                                 *)

(* A delete of the loop that has an effect takes one key away from its own *)
(* bucket and prefix.                                                      *)
LEMMA LoopTakesOne ==
    ASSUME IInv, NEW s \in Servers, PrefixDeleteNext(s), objects' # objects
    PROVE  \E k \in Under[call[s].prefix] :
             /\ <<call[s].bucket, k>> \in Locations
             /\ objects[<<call[s].bucket, k>>] # Absent
             /\ objects' = [objects EXCEPT ![<<call[s].bucket, k>>] = Absent]
  <1>1. /\ call[s].tool = "delete_by_prefix"
        /\ \E k \in call[s].todo : \E r \in GuardedDelete(s, call[s].bucket, k) :
             objects' = r.objects
    BY DEF PrefixDeleteNext, AfterDelete
  <1>2. call[s] \in PrefixDeleteCalls /\ objects \in Contents
    BY <1>1 DEF IInv, TypeOK, Idle, MoveCalls, Contents
  <1>3. PICK k \in call[s].todo : \E r \in GuardedDelete(s, call[s].bucket, k) :
          objects' = r.objects
    BY <1>1
  <1>4. call[s].bucket \in Buckets /\ k \in Keys /\ k \in ArgKeys
    BY <1>2 DEF PrefixDeleteCalls, ArgKeys
  <1>5. /\ objects[<<call[s].bucket, k>>] # Absent
        /\ objects' = [objects EXCEPT ![<<call[s].bucket, k>>] = Absent]
    BY <1>2, <1>3, <1>4, GuardedDeleteFacts
  <1>6. k \in Under[call[s].prefix]
    BY <1>1 DEF IInv, ServerInv, PrefixDeleteInv
  <1> QED
    BY <1>4, <1>5, <1>6 DEF Locations

(* While callers only clean up, nothing comes back under a prefix, and a   *)
(* delete that has an effect takes a key from the very prefix its call is  *)
(* about, whoever else deletes: with the fairness of CleanupSpec this is   *)
(* the measure by which PrefixEventuallyEmpty holds                        *)
(* (objectstore_delete_objects_by_prefix and its loop).                    *)
THEOREM CleanupOnlyEmpties ==
    CleanupSpec =>
      [][/\ buckets' = buckets
         /\ \A b \in Buckets, p \in Prefixes : Matches(b, p)' \subseteq Matches(b, p)
         /\ \A s \in Servers : PrefixDeleteNext(s) /\ objects' # objects =>
              \E k \in Matches(call[s].bucket, call[s].prefix) :
                 objects'[<<call[s].bucket, k>>] = Absent]_vars
  <1>1. CleanupNext => Next
    BY DEF CleanupNext, Next
  <1>2. CleanupSpec => Spec
    BY <1>1, PTL DEF CleanupSpec, Spec
  <1>3. ASSUME IInv, NEW s \in Servers, PrefixDeleteNext(s), objects' # objects
        PROVE  \E k \in Matches(call[s].bucket, call[s].prefix) :
                 objects'[<<call[s].bucket, k>>] = Absent
    <2>1. PICK k \in Under[call[s].prefix] :
            /\ <<call[s].bucket, k>> \in Locations
            /\ objects[<<call[s].bucket, k>>] # Absent
            /\ objects' = [objects EXCEPT ![<<call[s].bucket, k>>] = Absent]
      BY <1>3, LoopTakesOne
    <2>2. objects'[<<call[s].bucket, k>>] = Absent
      BY <1>3, <2>1 DEF IInv, TypeOK
    <2> QED
      BY <2>1, <2>2 DEF Matches
  <1>4. ASSUME IInv, [CleanupNext]_vars
        PROVE  /\ buckets' = buckets
               /\ objects' = objects
                    \/ \E l \in Locations : objects' = [objects EXCEPT ![l] = Absent]
    <2>1. ASSUME NEW s \in Servers, PrefixDeleteNext(s), objects' # objects
          PROVE  \E l \in Locations : objects' = [objects EXCEPT ![l] = Absent]
      BY <1>4, <2>1, LoopTakesOne
    <2>2. ASSUME NEW s \in Servers, PrefixDeleteTool(s), ~PrefixDeleteNext(s)
          PROVE  objects' = objects
      BY <2>2 DEF PrefixDeleteTool, PrefixDeleteRefuse, PrefixDeleteListFails, PrefixDeleteList
    <2>3. ASSUME NEW s \in Servers, PrefixDeleteTool(s) PROVE buckets' = buckets
      BY <2>3 DEF PrefixDeleteTool, PrefixDeleteRefuse, PrefixDeleteListFails,
                  PrefixDeleteList, PrefixDeleteNext
    <2>4. ASSUME NEW s \in Servers, NEW e \in Environments, Restart(s, e)
          PROVE  objects' = objects /\ buckets' = buckets
      BY <2>4 DEF Restart
    <2> QED
      BY <1>4, <2>1, <2>2, <2>3, <2>4 DEF CleanupNext, vars
  <1>5. ASSUME IInv, [CleanupNext]_vars, NEW b \in Buckets, NEW p \in Prefixes
        PROVE  Matches(b, p)' \subseteq Matches(b, p)
    <2> SUFFICES ASSUME NEW k \in Under[p], objects'[<<b, k>>] # Absent
                 PROVE  objects[<<b, k>>] # Absent
      BY DEF Matches
    <2>1. <<b, k>> \in Locations
      BY KeysAssumption DEF Locations
    <2> QED
      BY <1>4, <1>5, <2>1 DEF IInv, TypeOK
  <1>6. IInv /\ [CleanupNext]_vars =>
          [/\ buckets' = buckets
           /\ \A b \in Buckets, p \in Prefixes : Matches(b, p)' \subseteq Matches(b, p)
           /\ \A s \in Servers : PrefixDeleteNext(s) /\ objects' # objects =>
                \E k \in Matches(call[s].bucket, call[s].prefix) :
                   objects'[<<call[s].bucket, k>>] = Absent]_vars
    BY <1>3, <1>4, <1>5
  <1> QED
    BY <1>2, <1>6, Invariance, PTL DEF CleanupSpec

=============================================================================

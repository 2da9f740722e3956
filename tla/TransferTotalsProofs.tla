------------------------ MODULE TransferTotalsProofs ------------------------
(***************************************************************************)
(* Proofs about the sums the batch tools compare with the transfer cap     *)
(* (objectstore_mcp/mcp/mcp_objectstore.py, the total_bytes of             *)
(* upload_directory and download_prefix), and from them that a transfer    *)
(* nobody disturbs keeps to that cap.                                      *)
(*                                                                         *)
(* Total is a fold over a set, so what it computes is shown by induction   *)
(* over finite sets: a smallest part that is a counterexample leads to a   *)
(* smaller one (WFMin of the library).                                     *)
(***************************************************************************)
EXTENDS TransfersProofs, WellFoundedInduction

-----------------------------------------------------------------------------
(* What Total computes.                                                    *)

(* Induction over the natural numbers, for a set of them.                  *)
LEMMA NaturalInduction ==
    ASSUME NEW D \in SUBSET Nat, 0 \in D, \A n \in D : n + 1 \in D
    PROVE  D = Nat
  <1> SUFFICES ASSUME Nat \ D # {} PROVE FALSE
    OBVIOUS
  <1> DEFINE Less == OpToRel(<, Nat)
  <1>1. \A m, n \in Nat : m < n => <<m, n>> \in Less
    BY DEF OpToRel
  <1>2. IsWellFoundedOn(Less, Nat)
    BY NatLessThanWellFounded
  <1> HIDE DEF Less
  <1>3. PICK n \in Nat \ D : \A m \in Nat \ D : ~ (<<m, n>> \in Less)
    BY <1>2, WFMin
  <1>4. n \in Nat /\ n # 0
    BY <1>3
  <1>5. n - 1 \in Nat /\ n - 1 < n /\ (n - 1) + 1 = n
    BY <1>4
  <1>6. n - 1 \notin D
    BY <1>3, <1>5
  <1> QED
    BY <1>1, <1>3, <1>4, <1>5, <1>6

(* A sum takes out one element after the other.                            *)
Pick(s) == CHOOSE x \in s : TRUE

SumOf(g, c, s) == IF s = {} THEN 0 ELSE Size[c[Pick(s)]] + g[s \ {Pick(s)}]

LEMMA PickFacts == \A s : s # {} => Pick(s) \in s
  BY DEF Pick

LEMMA TotalIsSum ==
    ASSUME NEW c, NEW S
    PROVE  Total(c, S) = (CHOOSE g : g = [s \in SUBSET S |-> SumOf(g, c, s)])[S]
  BY DEF Total, MapThenSumSet, MapThenFoldSet, SumOf, Pick

LEMMA SumExists ==
    ASSUME NEW c, NEW S, IsFiniteSet(S), \A n \in S : Size[c[n]] \in Nat
    PROVE  \E g \in [SUBSET S -> Nat] : g = [s \in SUBSET S |-> SumOf(g, c, s)]
  <1> DEFINE Sums(g, n) == \A s \in SUBSET S : Cardinality(s) <= n => g[s] = SumOf(g, c, s)
  <1> DEFINE D == {n \in Nat : \E g \in [SUBSET S -> Nat] : Sums(g, n)}
  <1>1. \A s \in SUBSET S : /\ Cardinality(s) \in Nat
                            /\ Cardinality(s) = 0 => s = {}
                            /\ Cardinality(s) <= Cardinality(S)
    BY FS_Subset, FS_CardinalityType, FS_EmptySet
  <1>2. \A s \in SUBSET S : s # {} =>
          /\ Pick(s) \in S /\ s \ {Pick(s)} \in SUBSET S
          /\ Cardinality(s \ {Pick(s)}) = Cardinality(s) - 1
    BY FS_RemoveElement, FS_Subset, PickFacts
  <1>3. 0 \in D
    <2> DEFINE z == [s \in SUBSET S |-> 0]
    <2>1. z \in [SUBSET S -> Nat] /\ Sums(z, 0)
      BY <1>1 DEF SumOf
    <2> QED
      BY <2>1
  <1>4. ASSUME NEW n \in D PROVE n + 1 \in D
    <2>1. PICK g \in [SUBSET S -> Nat] : Sums(g, n)
      OBVIOUS
    <2> DEFINE h == [s \in SUBSET S |-> IF Cardinality(s) <= n THEN g[s] ELSE SumOf(g, c, s)]
    <2>2. ASSUME NEW s \in SUBSET S PROVE SumOf(g, c, s) \in Nat
      <3>1. CASE s = {}
        BY <3>1 DEF SumOf
      <3>2. CASE s # {}
        <4>1. Size[c[Pick(s)]] \in Nat /\ g[s \ {Pick(s)}] \in Nat
          BY <1>2, <2>1, <3>2
        <4> QED
          BY <3>2, <4>1 DEF SumOf
      <3> QED
        BY <3>1, <3>2
    <2>3. h \in [SUBSET S -> Nat]
      BY <2>2
    <2>4. \A s \in SUBSET S : Cardinality(s) <= n => h[s] = g[s]
      OBVIOUS
    <2>5. ASSUME NEW s \in SUBSET S, Cardinality(s) <= n + 1
          PROVE  h[s] = SumOf(g, c, s)
      BY <2>1
    <2>6. ASSUME NEW s \in SUBSET S, Cardinality(s) <= n + 1
          PROVE  SumOf(h, c, s) = SumOf(g, c, s)
      <3>1. CASE s = {}
        BY <3>1 DEF SumOf
      <3>2. CASE s # {}
        <4>1. h[s \ {Pick(s)}] = g[s \ {Pick(s)}]
          BY <1>1, <1>2, <2>4, <2>6, <3>2
        <4> QED
          BY <3>2, <4>1 DEF SumOf
      <3> QED
        BY <3>1, <3>2
    <2> HIDE DEF h
    <2>7. Sums(h, n + 1)
      BY <2>5, <2>6
    <2> QED
      BY <2>3, <2>7
  <1>5. D = Nat
    <2> HIDE DEF D
    <2>1. D \in SUBSET Nat
      BY DEF D
    <2> QED
      BY <1>3, <1>4, <2>1, NaturalInduction
  <1>6. PICK g \in [SUBSET S -> Nat] : Sums(g, Cardinality(S))
    BY <1>5, FS_CardinalityType
  <1>7. g = [s \in SUBSET S |-> SumOf(g, c, s)]
    BY <1>1, <1>6
  <1> QED
    BY <1>7

(* The sum over a part is what the sum over the whole has for it.          *)
LEMMA SumFacts ==
    ASSUME NEW c, NEW S, IsFiniteSet(S), \A n \in S : Size[c[n]] \in Nat
    PROVE  \E g \in [SUBSET S -> Nat] :
             /\ g = [s \in SUBSET S |-> SumOf(g, c, s)]
             /\ \A T \in SUBSET S : Total(c, T) = g[T]
  <1>1. PICK g \in [SUBSET S -> Nat] : g = [s \in SUBSET S |-> SumOf(g, c, s)]
    BY SumExists
  <1>2. ASSUME NEW T \in SUBSET S PROVE Total(c, T) = g[T]
    <2> DEFINE h == CHOOSE h : h = [s \in SUBSET T |-> SumOf(h, c, s)]
    <2>1. h = [s \in SUBSET T |-> SumOf(h, c, s)]
      <3>1. \E i : i = [s \in SUBSET T |-> SumOf(i, c, s)]
        <4>1. IsFiniteSet(T) /\ \A n \in T : Size[c[n]] \in Nat
          BY FS_Subset
        <4>2. PICK i \in [SUBSET T -> Nat] : i = [s \in SUBSET T |-> SumOf(i, c, s)]
          BY <4>1, SumExists
        <4> QED
          BY <4>2
      <3> QED
        BY <3>1
    <2>2. Total(c, T) = h[T]
      BY TotalIsSum
    <2> HIDE DEF h
    <2> DEFINE Bad == {U \in SUBSET T : h[U] # g[U]}
    <2>3. SUFFICES ASSUME Bad # {} PROVE FALSE
      BY <2>2
    <2>4. Bad \subseteq FiniteSubsetsOf(T)
      BY FS_Subset DEF FiniteSubsetsOf
    <2>5. IsWellFoundedOn(StrictSubsetOrdering(T), FiniteSubsetsOf(T))
      BY FS_StrictSubsetOrderingWellFounded
    <2> HIDE DEF Bad
    <2>6. PICK U \in Bad : \A V \in Bad : ~ (<<V, U>> \in StrictSubsetOrdering(T))
      BY <2>3, <2>4, <2>5, WFMin
    <2> USE DEF Bad
    <2>7. h[U] = SumOf(h, c, U) /\ g[U] = SumOf(g, c, U)
      BY <1>1, <2>1, <2>6
    <2>8. CASE U = {}
      BY <2>6, <2>7, <2>8 DEF SumOf
    <2>9. CASE U # {}
      <3> DEFINE V == U \ {Pick(U)}
      <3>1. V \in SUBSET T /\ V \subseteq U /\ V # U
        BY <2>6, <2>9, PickFacts
      <3>2. <<V, U>> \in StrictSubsetOrdering(T)
        BY <2>6, <3>1 DEF StrictSubsetOrdering
      <3>3. h[V] = g[V]
        BY <2>6, <3>1, <3>2
      <3> QED
        BY <2>6, <2>7, <2>9, <3>3 DEF SumOf
    <2> QED
      BY <2>8, <2>9
  <1> QED
    BY <1>1, <1>2

(* A sum may be taken in any order.                                        *)
LEMMA TotalFacts ==
    ASSUME NEW c, NEW S, IsFiniteSet(S), \A n \in S : Size[c[n]] \in Nat
    PROVE  /\ Total(c, S) \in Nat
           /\ Total(c, {}) = 0
           /\ \A x \in S : Total(c, S) = Size[c[x]] + Total(c, S \ {x})
  <1>1. PICK g \in [SUBSET S -> Nat] :
          /\ g = [s \in SUBSET S |-> SumOf(g, c, s)]
          /\ \A T \in SUBSET S : Total(c, T) = g[T]
    BY SumFacts
  <1>2. \A T \in SUBSET S : g[T] = SumOf(g, c, T)
    BY <1>1
  <1> DEFINE Bad == {T \in SUBSET S : \E x \in T : g[T] # Size[c[x]] + g[T \ {x}]}
  <1>3. Bad = {}
    <2> SUFFICES ASSUME Bad # {} PROVE FALSE
      OBVIOUS
    <2>1. Bad \subseteq FiniteSubsetsOf(S)
      BY FS_Subset DEF FiniteSubsetsOf
    <2>2. IsWellFoundedOn(StrictSubsetOrdering(S), FiniteSubsetsOf(S))
      BY FS_StrictSubsetOrderingWellFounded
    <2> HIDE DEF Bad
    <2>3. PICK T \in Bad : \A U \in Bad : ~ (<<U, T>> \in StrictSubsetOrdering(S))
      BY <2>1, <2>2, WFMin
    <2> USE DEF Bad
    <2>4. PICK x \in T : g[T] # Size[c[x]] + g[T \ {x}]
      BY <2>3
    <2> DEFINE y == Pick(T)
    <2>5. y \in T /\ T \in SUBSET S /\ x \in S /\ y \in S
      BY <2>3, <2>4, PickFacts
    <2>6. g[T] = Size[c[y]] + g[T \ {y}]
      BY <1>2, <2>4, <2>5 DEF SumOf
    <2> HIDE DEF y
    <2>7. x # y
      BY <2>4, <2>6
    <2>8. \A z \in T : T \ {z} \in SUBSET S /\ T \ {z} \notin Bad
      <3> SUFFICES ASSUME NEW z \in T PROVE T \ {z} \in SUBSET S /\ T \ {z} \notin Bad
        OBVIOUS
      <3>1. T \ {z} \in SUBSET S /\ T \ {z} \subseteq T /\ T \ {z} # T
        BY <2>5
      <3>2. <<T \ {z}, T>> \in StrictSubsetOrdering(S)
        BY <2>5, <3>1 DEF StrictSubsetOrdering
      <3> HIDE DEF Bad
      <3> QED
        BY <2>3, <3>1, <3>2
    <2>9. g[T \ {y}] = Size[c[x]] + g[(T \ {y}) \ {x}]
      BY <2>4, <2>5, <2>7, <2>8
    <2>10. g[T \ {x}] = Size[c[y]] + g[(T \ {x}) \ {y}]
      BY <2>4, <2>5, <2>7, <2>8
    <2>11. (T \ {x}) \ {y} = (T \ {y}) \ {x} /\ (T \ {y}) \ {x} \in SUBSET S
      BY <2>5
    <2>12. g[(T \ {y}) \ {x}] \in Nat /\ Size[c[x]] \in Nat /\ Size[c[y]] \in Nat
      BY <2>5, <2>11
    <2>13. g[T \ {x}] = Size[c[y]] + g[(T \ {y}) \ {x}]
      BY <2>10, <2>11
    <2>14. g[T] = Size[c[x]] + g[T \ {x}]
      BY <2>6, <2>9, <2>12, <2>13
    <2> QED
      BY <2>4, <2>14
  <1>4. ASSUME NEW x \in S PROVE Total(c, S) = Size[c[x]] + Total(c, S \ {x})
    <2>1. g[S] = Size[c[x]] + g[S \ {x}]
      BY <1>3
    <2> QED
      BY <1>1, <2>1
  <1>5. Total(c, {}) = 0
    BY <1>1, <1>2 DEF SumOf
  <1> QED
    BY <1>1, <1>4, <1>5

-----------------------------------------------------------------------------
(* The inductive invariant.                                                *)

(* Where the transfer in progress reads from.                              *)
Sources == IF call.tool = "upload" THEN files ELSE objects

(* As long as nobody else has changed what a transfer reads or writes, all *)
(* it has left to do is there, and with what it has moved it fits the cap. *)
FitInv ==
    call # Idle /\ touched = {} =>
        /\ \A n \in call.todo : Sources[n] # Absent
        /\ bytes + Total(Sources, call.todo) <= Limit.max_transfer_bytes

(* What a transfer in progress reads has sizes.                            *)
LEMMA SourceFacts ==
    ASSUME IInv, call # Idle
    PROVE  /\ call.tool \in {"upload", "download"}
           /\ IsFiniteSet(call.todo)
           /\ \A n \in call.todo : Sources[n] # Absent => Size[Sources[n]] \in Nat
           /\ bytes \in Nat /\ Limit.max_transfer_bytes \in Nat
  <1>1. TypeOK /\ BatchInv
    BY DEF IInv, CallInv
  <1>2. call \in Uploads \cup Downloads /\ call.tool \in {"upload", "download"}
    BY <1>1 DEF TypeOK, Uploads, Downloads
  <1>3. IsFiniteSet(call.todo)
    BY <1>1, FS_Subset DEF BatchInv
  <1>4. bytes \in Nat /\ Limit.max_transfer_bytes \in Nat
    BY <1>1, LimitType DEF TypeOK, BatchInv
  <1>5. CASE call.tool = "upload"
    <2>1. call.todo \subseteq Files
      BY <1>2, <1>5 DEF Uploads, Downloads
    <2>2. \A n \in call.todo : files[n] # Absent => files[n] \in Payloads
      BY <1>1, <2>1 DEF TypeOK
    <2> QED
      BY <1>2, <1>3, <1>4, <1>5, <2>2, TransfersAssumption DEF Sources
  <1>6. CASE call.tool = "download"
    <2>1. call.todo \subseteq Keys
      BY <1>2, <1>6 DEF Uploads, Downloads
    <2>2. \A n \in call.todo : objects[n] # Absent => objects[n] \in Payloads
      BY <1>1, <2>1 DEF TypeOK
    <2> QED
      BY <1>2, <1>3, <1>4, <1>6, <2>2, TransfersAssumption DEF Sources
  <1> QED
    BY <1>2, <1>5, <1>6

(* One of the batch is moved: what it took of the cap it takes of the rest.*)
LEMMA OneMoved ==
    ASSUME IInv, FitInv, call # Idle, touched = {}, NEW n \in call.todo
    PROVE  /\ bytes + Size[Sources[n]] <= Limit.max_transfer_bytes
           /\ (bytes + Size[Sources[n]]) + Total(Sources, call.todo \ {n})
                <= Limit.max_transfer_bytes
  <1> DEFINE todo == call.todo
  <1>1. /\ IsFiniteSet(todo)
        /\ \A m \in todo : Size[Sources[m]] \in Nat
        /\ bytes \in Nat /\ Limit.max_transfer_bytes \in Nat
        /\ bytes + Total(Sources, todo) <= Limit.max_transfer_bytes
    BY SourceFacts DEF FitInv
  <1>2. Total(Sources, todo) = Size[Sources[n]] + Total(Sources, todo \ {n})
    BY <1>1, TotalFacts
  <1>3. Total(Sources, todo \ {n}) \in Nat
    <2>1. IsFiniteSet(todo \ {n}) /\ \A m \in todo \ {n} : Size[Sources[m]] \in Nat
      BY <1>1, FS_RemoveElement
    <2> QED
      BY <2>1, TotalFacts
  <1>4. Size[Sources[n]] \in Nat
    BY <1>1
  <1> QED
    BY <1>1, <1>2, <1>3, <1>4

(* A sum of one.                                                           *)
LEMMA TotalOfOne ==
    ASSUME NEW c, NEW n, Size[c[n]] \in Nat
    PROVE  Total(c, {n}) = Size[c[n]]
  <1>1. IsFiniteSet({n}) /\ \A m \in {n} : Size[c[m]] \in Nat
    BY FS_Singleton
  <1>2. Total(c, {n}) = Size[c[n]] + Total(c, {n} \ {n}) /\ Total(c, {}) = 0
    BY <1>1, TotalFacts
  <1>3. {n} \ {n} = {}
    OBVIOUS
  <1> QED
    BY <1>2, <1>3

-----------------------------------------------------------------------------
(* The steps.                                                              *)

(* A transfer that begins keeps the invariant if all it is to do is there  *)
(* and fits.                                                               *)
LEMMA BeginFits ==
    ASSUME NEW started, Begin(started), started.todo \in SUBSET (Files \cup Keys),
           LET source == IF started.tool = "upload" THEN files ELSE objects
           IN  /\ \A n \in started.todo : source[n] # Absent
               /\ Total(source, started.todo) \in Nat
               /\ Total(source, started.todo) <= Limit.max_transfer_bytes
    PROVE  FitInv'
  <1> DEFINE source == IF started.tool = "upload" THEN files ELSE objects
  <1>1. /\ call' = started /\ bytes' = 0
        /\ UNCHANGED <<objects, files, env>>
    BY DEF Begin
  <1>2. Sources' = source /\ Limit' = Limit
    BY <1>1 DEF Sources, Limit
  <1> HIDE DEF source
  <1>3. /\ \A n \in started.todo : source[n] # Absent
        /\ 0 + Total(source, started.todo) <= Limit.max_transfer_bytes
    BY DEF source
  <1> QED
    BY <1>1, <1>2, <1>3 DEF FitInv

LEMMA IdleFits == call' = Idle => FitInv'
  BY DEF FitInv

LEMMA UploadFileFits ==
    ASSUME TypeOK, NEW f \in Files, NEW k \in Keys, UploadFile(f, k)
    PROVE  FitInv'
  <1>1. CASE Refuse
    BY <1>1, IdleFits DEF Refuse, Answer
  <1>2. CASE ~Refuse
    <2> DEFINE started == [tool |-> "upload", batch |-> {f}, todo |-> {f},
                           to |-> [g \in {f} |-> k]]
    <2>1. FileFits(f) /\ Begin(started)
      BY <1>2 DEF UploadFile
    <2>2. files[f] # Absent /\ Size[files[f]] <= Limit.max_transfer_bytes
      BY <2>1 DEF FileFits
    <2>3. Size[files[f]] \in Nat
      BY <2>2, TransfersAssumption DEF TypeOK
    <2>4. Total(files, {f}) = Size[files[f]]
      BY <2>3, TotalOfOne
    <2>5. started.todo = {f} /\ started.tool = "upload"
      OBVIOUS
    <2> HIDE DEF started
    <2> QED
      BY <2>1, <2>2, <2>3, <2>4, <2>5, BeginFits
  <1> QED
    BY <1>1, <1>2

LEMMA UploadDirectoryFits ==
    ASSUME TypeOK, NEW asked \in Asked, UploadDirectory(asked)
    PROVE  FitInv'
  <1>1. CASE Refuse \/ Nothing
    BY <1>1, IdleFits DEF Refuse, Nothing, Answer
  <1>2. CASE ~Refuse /\ ~Nothing
    <2> DEFINE batch == Present(files, Below)
    <2> DEFINE started == [tool |-> "upload", batch |-> batch, todo |-> batch,
                           to |-> [f \in batch |-> KeyFor[f]]]
    <2>1. DirectoryFits(batch, asked) /\ Begin(started)
      BY <1>2 DEF UploadDirectory
    <2>2. IsFiniteSet(batch) /\ batch \subseteq Files
      BY PresentFacts
    <2>3. \A f \in batch : files[f] # Absent
      BY DEF Present
    <2>4. \A f \in batch : Size[files[f]] \in Nat
      <3> SUFFICES ASSUME NEW f \in batch PROVE Size[files[f]] \in Nat
        OBVIOUS
      <3>1. f \in Files /\ files[f] # Absent
        BY <2>2, <2>3
      <3>2. files[f] \in Payloads
        BY <3>1 DEF TypeOK
      <3> QED
        BY <3>2, TransfersAssumption
    <2>5. started.todo = batch /\ started.tool = "upload"
      OBVIOUS
    <2> HIDE DEF batch, started
    <2>6. Total(files, batch) \in Nat
      BY <2>2, <2>4, TotalFacts
    <2> QED
      BY <2>1, <2>2, <2>3, <2>5, <2>6, BeginFits DEF DirectoryFits
  <1> QED
    BY <1>1, <1>2

LEMMA DownloadFileFits ==
    ASSUME TypeOK, NEW k \in Keys, NEW f \in Files, NEW overwrite \in BOOLEAN,
           DownloadFile(k, f, overwrite)
    PROVE  FitInv'
  <1>1. CASE call' = Idle
    BY <1>1, IdleFits
  <1>2. CASE call' # Idle
    <2>1. Loads(env) /\ env \in Environments
      BY <1>2 DEF DownloadFile, Refuse, Answer, TypeOK
    <2>2. PICK r \in GuardedGet(k) :
            /\ r.outcome = "ok"
            /\ Begin([tool |-> "download", batch |-> {k}, todo |-> {k},
                      to |-> [j \in {k} |-> f], overwrite |-> overwrite,
                      held |-> r.data])
      BY <1>2 DEF DownloadFile, Refuse, Answer
    <2> DEFINE started == [tool |-> "download", batch |-> {k}, todo |-> {k},
                           to |-> [j \in {k} |-> f], overwrite |-> overwrite,
                           held |-> r.data]
    <2>3. objects[k] \in Payloads /\ Size[objects[k]] <= GetCap
      BY <2>2, GuardedGetFacts DEF TypeOK, Contents
    <2>4. Size[objects[k]] \in Nat /\ objects[k] # Absent
      BY <2>3, TransfersAssumption
    <2>5. Size[objects[k]] <= Limit.max_transfer_bytes
      BY <2>1, <2>3, <2>4, GetCapFacts, LimitType DEF Lesser
    <2>6. Total(objects, {k}) = Size[objects[k]]
      BY <2>4, TotalOfOne
    <2>7. started.todo = {k} /\ started.tool = "download" /\ Begin(started)
      BY <2>2
    <2> HIDE DEF started
    <2> QED
      BY <2>4, <2>5, <2>6, <2>7, BeginFits
  <1> QED
    BY <1>1, <1>2

LEMMA DownloadPrefixFits ==
    ASSUME TypeOK, NEW asked \in Asked, NEW overwrite \in BOOLEAN,
           DownloadPrefix(asked, overwrite)
    PROVE  FitInv'
  <1>1. CASE call' = Idle
    BY <1>1, IdleFits
  <1>2. CASE call' # Idle
    <2> DEFINE n == KeyCap(BatchCap(asked), Limit.max_list_keys)
    <2>1. PICK page \in Pages(Present(objects, Under), n) :
            /\ Total(objects, page) <= Limit.max_transfer_bytes
            /\ Begin([tool |-> "download", batch |-> page, todo |-> page,
                      to |-> [k \in page |-> TargetFor[k]],
                      overwrite |-> overwrite, held |-> Absent])
      BY <1>2 DEF DownloadPrefix, Refuse, Nothing, Answer
    <2> HIDE DEF n
    <2> DEFINE started == [tool |-> "download", batch |-> page, todo |-> page,
                           to |-> [k \in page |-> TargetFor[k]],
                           overwrite |-> overwrite, held |-> Absent]
    <2>2. /\ page \subseteq Present(objects, Under) /\ IsFiniteSet(page)
          /\ page \subseteq Keys
      BY PresentFacts, PagesFacts
    <2>3. \A k \in page : objects[k] # Absent
      BY <2>2 DEF Present
    <2>4. \A k \in page : Size[objects[k]] \in Nat
      <3> SUFFICES ASSUME NEW k \in page PROVE Size[objects[k]] \in Nat
        OBVIOUS
      <3>1. objects[k] \in Payloads
        BY <2>2, <2>3 DEF TypeOK
      <3> QED
        BY <3>1, TransfersAssumption
    <2>5. started.todo = page /\ started.tool = "download" /\ Begin(started)
      BY <2>1
    <2> HIDE DEF started
    <2>6. Total(objects, page) \in Nat
      BY <2>2, <2>4, TotalFacts
    <2> QED
      BY <2>1, <2>2, <2>3, <2>5, <2>6, BeginFits
  <1> QED
    BY <1>1, <1>2

(* While it runs undisturbed, what a transfer reads stays as it is, and    *)
(* each piece it moves is one of those it counted: every step keeps the    *)
(* invariant, and the bytes under the cap.                                 *)
LEMMA UploadNextFits ==
    ASSUME IInv, FitInv, UploadNext
    PROVE  /\ FitInv'
           /\ touched = {} => bytes' <= Limit.max_transfer_bytes
  <1>1. /\ call \in Uploads /\ call.tool = "upload" /\ call # Idle
        /\ UNCHANGED <<files, env>> /\ bytes \in Nat
        /\ Sources = files
    BY DEF UploadNext, IInv, TypeOK, Idle, Uploads, Downloads, Sources
  <1>2. PICK f \in call.todo :
          \/ call' = Idle /\ bytes' = bytes
          \/ \E r \in GuardedPut(call.to[f], files[f]) :
               /\ bytes' = IF r.outcome = "ok" THEN bytes + Size[files[f]] ELSE bytes
               /\ IF r.outcome = "ok" THEN Advance(f) ELSE call' = Idle
    BY DEF UploadNext, Answer
  <1>3. CASE touched # {}
    <2>1. call' = Idle \/ touched' = touched
      BY <1>2 DEF Advance, Answer
    <2> QED
      BY <1>3, <2>1 DEF FitInv
  <1>4. CASE touched = {}
    <2>1. /\ bytes + Size[files[f]] <= Limit.max_transfer_bytes
          /\ (bytes + Size[files[f]]) + Total(files, call.todo \ {f})
               <= Limit.max_transfer_bytes
      BY <1>1, <1>4, OneMoved
    <2>2. Size[files[f]] \in Nat /\ Limit.max_transfer_bytes \in Nat
          /\ \A n \in call.todo : files[n] # Absent
      BY <1>1, <1>4, SourceFacts DEF FitInv
    <2>3. bytes' <= Limit.max_transfer_bytes
      BY <1>1, <1>2, <2>1, <2>2
    <2>4. CASE call' = Idle
      BY <2>3, <2>4, IdleFits
    <2>5. CASE call' # Idle
      <3>1. /\ bytes' = bytes + Size[files[f]]
            /\ call' = [call EXCEPT !.todo = @ \ {f}]
        BY <1>1, <1>2, <2>5 DEF Advance, Answer
      <3>2. call'.todo = call.todo \ {f} /\ call'.tool = "upload"
        BY <1>1, <3>1 DEF Uploads
      <3>3. Sources' = files /\ Limit' = Limit
        BY <1>1, <3>2 DEF Sources, Limit
      <3> QED
        BY <2>1, <2>2, <2>3, <3>1, <3>2, <3>3 DEF FitInv
    <2> QED
      BY <2>3, <2>4, <2>5
  <1> QED
    BY <1>3, <1>4

LEMMA DownloadGetFits ==
    ASSUME IInv, FitInv, DownloadGet
    PROVE  FitInv' /\ bytes' = bytes
  <1>1. /\ call \in Downloads /\ call.tool = "download" /\ call # Idle
        /\ UNCHANGED <<objects, files, env, bytes>>
        /\ Sources = objects
    BY DEF DownloadGet, IInv, TypeOK, Idle, Uploads, Downloads, Sources
  <1>2. \/ call' = Idle
        \/ /\ \E v : call' = [call EXCEPT !.held = v]
           /\ touched' = touched
    BY DEF DownloadGet, Answer
  <1>3. CASE call' = Idle
    BY <1>1, <1>3, IdleFits
  <1>4. CASE call' # Idle
    <2>1. call'.todo = call.todo /\ call'.tool = "download" /\ touched' = touched
      BY <1>1, <1>2, <1>4 DEF Downloads
    <2>2. Sources' = objects /\ Limit' = Limit
      BY <1>1, <2>1 DEF Sources, Limit
    <2> QED
      BY <1>1, <2>1, <2>2 DEF FitInv
  <1> QED
    BY <1>1, <1>3, <1>4

LEMMA DownloadWriteFits ==
    ASSUME IInv, FitInv, DownloadWrite
    PROVE  /\ FitInv'
           /\ touched = {} => bytes' <= Limit.max_transfer_bytes
  <1>1. /\ call \in Downloads /\ call.tool = "download" /\ call # Idle
        /\ call.held # Absent /\ HeldInv
        /\ UNCHANGED <<objects, env>> /\ bytes \in Nat
        /\ Sources = objects
    BY DEF DownloadWrite, IInv, TypeOK, CallInv, Idle, Uploads, Downloads, Sources
  <1>2. PICK k \in call.todo :
          /\ First(k, call.todo)
          /\ \/ bytes' = bytes + Size[call.held] /\ Advance(k)
             \/ bytes' = bytes /\ call' = Idle
    BY DEF DownloadWrite, Answer
  <1>3. CASE touched # {}
    <2>1. call' = Idle \/ touched' = touched
      BY <1>2 DEF Advance, Answer
    <2> QED
      BY <1>3, <2>1 DEF FitInv
  <1>4. CASE touched = {}
    <2>1. /\ bytes + Size[objects[k]] <= Limit.max_transfer_bytes
          /\ (bytes + Size[objects[k]]) + Total(objects, call.todo \ {k})
               <= Limit.max_transfer_bytes
      BY <1>1, <1>4, OneMoved
    <2>2. Size[objects[k]] \in Nat /\ Limit.max_transfer_bytes \in Nat
          /\ \A n \in call.todo : objects[n] # Absent
      BY <1>1, <1>4, SourceFacts DEF FitInv
    <2>3. call.held = objects[k]
      BY <1>1, <1>2, <1>4 DEF HeldInv
    <2>4. bytes' <= Limit.max_transfer_bytes
      BY <1>1, <1>2, <2>1, <2>2, <2>3
    <2>5. CASE call' = Idle
      BY <2>4, <2>5, IdleFits
    <2>6. CASE call' # Idle
      <3>1. /\ bytes' = bytes + Size[objects[k]]
            /\ call' = [call EXCEPT !.todo = @ \ {k}, !.held = Absent]
        BY <1>1, <1>2, <2>3, <2>6 DEF Advance, Answer
      <3>2. call'.todo = call.todo \ {k} /\ call'.tool = "download"
        BY <1>1, <3>1 DEF Downloads
      <3>3. Sources' = objects /\ Limit' = Limit
        BY <1>1, <3>2 DEF Sources, Limit
      <3> QED
        BY <2>1, <2>2, <2>4, <3>1, <3>2, <3>3 DEF FitInv
    <2> QED
      BY <2>4, <2>5, <2>6
  <1> QED
    BY <1>3, <1>4

(* A step that starts no transfer and is no step of one.                   *)
LEMMA OthersFit ==
    ASSUME FitInv, UNCHANGED <<env, call, bytes>>,
           call # Idle => touched' # {} \/ UNCHANGED <<objects, files, touched>>
    PROVE  FitInv'
  <1>1. CASE call = Idle
    BY <1>1, IdleFits
  <1>2. CASE call # Idle /\ touched' # {}
    BY <1>2 DEF FitInv
  <1>3. CASE call # Idle /\ UNCHANGED <<objects, files, touched>>
    BY <1>3 DEF FitInv, Sources, Limit
  <1> QED
    BY <1>1, <1>2, <1>3

(* The bytes moved so far fit, whatever is left.                           *)
LEMMA FitsSoFar ==
    ASSUME IInv, FitInv, call # Idle, touched = {}
    PROVE  bytes <= Limit.max_transfer_bytes
  <1>1. /\ bytes \in Nat /\ Limit.max_transfer_bytes \in Nat
        /\ IsFiniteSet(call.todo)
        /\ \A n \in call.todo : Size[Sources[n]] \in Nat
        /\ bytes + Total(Sources, call.todo) <= Limit.max_transfer_bytes
    BY SourceFacts DEF FitInv
  <1>2. Total(Sources, call.todo) \in Nat
    BY <1>1, TotalFacts
  <1> QED
    BY <1>1, <1>2

LEMMA NextFits ==
    ASSUME IInv, FitInv, [Next]_vars
    PROVE  /\ FitInv'
           /\ call # Idle /\ touched = {} => bytes' <= Limit.max_transfer_bytes
  <1>1. TypeOK
    BY DEF IInv
  <1> DEFINE Fits == call # Idle /\ touched = {} => bytes' <= Limit.max_transfer_bytes
  <1>2. bytes' \in {0, bytes} => Fits
    <2>1. call # Idle => Limit.max_transfer_bytes \in Nat
      BY SourceFacts
    <2> QED
      BY <2>1, FitsSoFar
  <1> HIDE DEF Fits
  <1>3. CASE call = Idle
             /\ \/ \E f \in Files, k \in Keys : UploadFile(f, k)
                \/ \E asked \in Asked : UploadDirectory(asked)
                \/ \E k \in Keys, f \in Files, overwrite \in BOOLEAN :
                       DownloadFile(k, f, overwrite)
                \/ \E asked \in Asked, overwrite \in BOOLEAN :
                       DownloadPrefix(asked, overwrite)
    <2>1. FitInv'
      BY <1>1, <1>3, UploadFileFits, UploadDirectoryFits, DownloadFileFits,
         DownloadPrefixFits
    <2> QED
      BY <1>3, <2>1 DEF Fits
  <1>4. CASE UploadNext
    BY <1>4, UploadNextFits DEF Fits
  <1>5. CASE DownloadGet
    BY <1>2, <1>5, DownloadGetFits DEF Fits
  <1>6. CASE DownloadWrite
    BY <1>6, DownloadWriteFits DEF Fits
  <1>7. CASE \/ \E k \in Keys, v \in Payloads \cup {Absent} : OthersStore(k, v)
             \/ \E f \in Files, v \in Payloads \cup {Absent} : OthersWrite(f, v)
             \/ UNCHANGED vars
    <2>1. /\ UNCHANGED <<env, call, bytes>>
          /\ call # Idle => touched' # {} \/ UNCHANGED <<objects, files, touched>>
      BY <1>7 DEF OthersStore, OthersWrite, Touch, vars
    <2> QED
      BY <1>2, <2>1, OthersFit DEF Fits
  <1>8. ASSUME NEW e \in Environments, Restart(e)
        PROVE  FitInv' /\ Fits
    BY <1>2, <1>8, IdleFits DEF Restart, Answer
  <1> QED
    BY <1>3, <1>4, <1>5, <1>6, <1>7, <1>8
    DEF Next, Fits, UploadFile, UploadDirectory, DownloadFile, DownloadPrefix

-----------------------------------------------------------------------------
(* The theorems.                                                           *)

(* As long as nobody else touches it, a transfer has room under the cap    *)
(* for all it has left to do.                                              *)
THEOREM UndisturbedFits == Spec => []FitInv
  <1>1. Init => FitInv
    BY DEF Init, FitInv
  <1>2. IInv /\ FitInv /\ [Next]_vars => FitInv'
    BY NextFits
  <1> QED
    BY <1>1, <1>2, TransfersInvariance, PTL DEF Spec

(* A transfer whose keys and files nobody else changes since its checks    *)
(* moves no more than OBJECTSTORE_MAX_TRANSFER_BYTES in all, although it   *)
(* reads every object and file a second time (the four transfer tools).    *)
THEOREM UndisturbedTransfersWithinCap == Spec => UndisturbedWithinCap
  <1>1. IInv /\ FitInv /\ [Next]_vars =>
          (call # Idle /\ touched = {} => bytes' <= Limit.max_transfer_bytes)
    BY NextFits
  <1> QED
    BY <1>1, TransfersInvariance, UndisturbedFits, PTL DEF Spec, UndisturbedWithinCap

(* Where the put cap is no smaller than the transfer cap, what the docs    *)
(* say of uploads is right: one within the transfer cap is refused only if *)
(* its files or keys changed since it was checked ("capped by              *)
(* OBJECTSTORE_MAX_TRANSFER_BYTES"; guard.py put_object under              *)
(* objectstore_upload_file and objectstore_upload_directory).              *)
THEOREM WidePutCapAdmitsUploads ==
    ASSUME \A e \in Environments :
             Loads(e) => LoadLimits(e).max_transfer_bytes <= LoadLimits(e).max_put_bytes
    PROVE  Spec => UploadsToTransferCap
  <1> DEFINE Step == call.tool = "upload" /\ Answers("refused") => touched # {}
  <1>1. IInv /\ FitInv /\ [Next]_vars => Step
    <2> SUFFICES ASSUME IInv, FitInv, [Next]_vars, call.tool = "upload",
                        Answers("refused"), touched = {}
                 PROVE  FALSE
      OBVIOUS
    <2>1. /\ call \in Uploads /\ call # Idle /\ env \in Environments /\ Loads(env)
          /\ Sources = files
      BY DEF IInv, TypeOK, CallInv, BatchInv, Idle, Uploads, Downloads, Sources
    <2>2. UploadNext
      <3>1. ~DownloadGet /\ ~DownloadWrite
        BY DEF DownloadGet, DownloadWrite
      <3>2. \A e \in Environments : ~Restart(e)
        BY DEF Restart, Answer, Answers
      <3> QED
        BY <2>1, <3>1, <3>2
        DEF Next, vars, UploadFile, UploadDirectory, DownloadFile, DownloadPrefix,
            OthersStore, OthersWrite, Answers
    <2>3. PICK f \in call.todo :
            /\ files[f] # Absent
            /\ \E r \in GuardedPut(call.to[f], files[f]) :
                 IF r.outcome = "ok" THEN Advance(f) ELSE Answer(r.outcome, 0)
      BY <2>2 DEF UploadNext, Answer, Answers
    <2>4. PICK r \in GuardedPut(call.to[f], files[f]) : r.outcome = "refused"
      <3>1. ~Advance(f)
        BY <2>1 DEF Advance, Answer, Answers, Uploads, Idle
      <3> QED
        BY <2>3, <3>1 DEF Answer, Answers
    <2>5. ~(Size[files[f]] <= Limit.max_put_bytes)
      BY <2>4 DEF GuardedPut, Result
    <2>6. /\ bytes + Size[files[f]] <= Limit.max_transfer_bytes
          /\ bytes \in Nat /\ Size[files[f]] \in Nat
          /\ Limit.max_transfer_bytes \in Nat /\ Limit.max_put_bytes \in Nat
      BY <2>1, <2>3, OneMoved, SourceFacts, LimitType
    <2>7. Limit.max_transfer_bytes <= Limit.max_put_bytes
      BY <2>1 DEF Limit
    <2> QED
      BY <2>5, <2>6, <2>7
  <1> QED
    BY <1>1, TransfersInvariance, UndisturbedFits, PTL DEF Spec, UploadsToTransferCap

=============================================================================

------------------------- MODULE ArtifactStoreProofs -------------------------
(***************************************************************************)
(* For every retention policy, every set of ids and sizes: a record always *)
(* has its file, an operation that succeeds leaves no more artifacts than  *)
(* max_count and none that has expired, the byte accounts are kept and     *)
(* evictions go by age.                                                    *)
(*                                                                         *)
(* Bytes adds up sizes with a fold over a finite set.  What a fold is      *)
(* worth is proved here by minimal counterexamples (FS_StrictSubset-       *)
(* OrderingWellFounded and WFMin) instead of by induction.                 *)
(***************************************************************************)
EXTENDS ArtifactStore, FiniteSetTheorems, WellFoundedInduction, TLAPS

\* What the first two theorems need to know about the records.
WellFormed(recs) ==
    /\ DOMAIN recs \subseteq Ids
    /\ IsFiniteSet(DOMAIN recs)
    /\ \A i \in DOMAIN recs : recs[i].created \in Nat

OnDisk(recs, disk) ==
    \A i \in DOMAIN recs : i \in DOMAIN disk /\ disk[i] = recs[i].size

StoreInv ==
    /\ up \in BOOLEAN
    /\ now \in Nat
    /\ WellFormed(artifacts)
    /\ OnDisk(artifacts, files)
    /\ DOMAIN artifacts \subseteq issued
    /\ ~up => DOMAIN artifacts = {}
    /\ RetainedCountAndAge

-----------------------------------------------------------------------------

\* Removing records keeps the others as they were.
LEMMA WithoutWellFormed ==
    ASSUME NEW recs, NEW gone, WellFormed(recs)
    PROVE  /\ WellFormed(Without(recs, gone))
           /\ DOMAIN Without(recs, gone) = DOMAIN recs \ gone
           /\ \A i \in DOMAIN recs \ gone : Without(recs, gone)[i] = recs[i]
<1>1. DOMAIN Without(recs, gone) = DOMAIN recs \ gone
  BY DEF Without
<1>2. \A i \in DOMAIN recs \ gone : Without(recs, gone)[i] = recs[i]
  BY DEF Without
<1>3. IsFiniteSet(DOMAIN recs \ gone)
  <2>1. DOMAIN recs \ gone \subseteq DOMAIN recs
    OBVIOUS
  <2> QED BY <2>1, FS_Subset DEF WellFormed
<1> QED BY <1>1, <1>2, <1>3 DEF WellFormed

\* The record that write_bytes adds.
LEMMA PutWellFormed ==
    ASSUME NEW recs, WellFormed(recs), NEW i \in Ids, NEW size, NEW t \in Nat
    PROVE  WellFormed(Put(recs, i, [size |-> size, created |-> t]))
<1> DEFINE new == Put(recs, i, [size |-> size, created |-> t])
<1>1. DOMAIN new = DOMAIN recs \cup {i}
  BY DEF Put
<1>2. IsFiniteSet(DOMAIN recs \cup {i})
  BY FS_AddElement DEF WellFormed
<1>3. ASSUME NEW j \in DOMAIN new PROVE new[j].created \in Nat
  <2>1. CASE j = i
    BY <2>1 DEF Put
  <2>2. CASE j # i
    <3>1. j \in DOMAIN recs /\ new[j] = recs[j]
      BY <1>1, <2>2 DEF Put
    <3> QED BY <3>1 DEF WellFormed
  <2> QED BY <2>1, <2>2
<1> QED BY <1>1, <1>2, <1>3 DEF WellFormed

\* A non-empty set of naturals has a least element.
LEMMA LeastNatural ==
    ASSUME NEW T \in SUBSET Nat, T # {}
    PROVE  \E n \in T : \A m \in T : n <= m
<1> DEFINE R == { ss \in Nat \X Nat : ss[1] < ss[2] }
<1>1. IsWellFoundedOn(R, Nat)
  BY NatLessThanWellFounded, Zenon DEF OpToRel
<1>2. PICK n \in T : \A m \in T : ~(<<m, n>> \in R)
  <2> HIDE DEF R
  <2>1. \E n \in T : \A m \in T : ~(<<m, n>> \in R)
    BY <1>1, WFMin
  <2> QED BY <2>1
<1>3. ASSUME NEW m \in T PROVE n <= m
  <2>1. m \in Nat /\ n \in Nat
    BY <1>2
  <2>2. m < n => <<m, n>> \in R
    BY <2>1
  <2> HIDE DEF R
  <2>3. ~(m < n)
    BY <1>2, <2>2
  <2> QED BY <2>1, <2>3
<1> QED BY <1>2, <1>3

\* The order of removal has a first element in every set of records.
LEMMA OldestExists ==
    ASSUME NEW recs, WellFormed(recs), NEW S \in SUBSET DOMAIN recs, S # {}
    PROVE  \E i \in S : \A j \in S : j = i \/ Older(recs, i, j)
<1> DEFINE times == { recs[i].created : i \in S }
<1>1. \A i \in S : recs[i].created \in Nat /\ i \in Nat
  BY RetentionAssumption DEF WellFormed
<1>2. times \in SUBSET Nat /\ times # {}
  BY <1>1
<1>3. PICK first \in times : \A t \in times : first <= t
  BY <1>2, LeastNatural
<1> DEFINE ties == { i \in S : recs[i].created = first }
<1>4. ties \in SUBSET Nat /\ ties # {}
  BY <1>1, <1>3
<1>5. PICK i \in ties : \A j \in ties : i <= j
  BY <1>4, LeastNatural
<1>6. ASSUME NEW j \in S, j # i PROVE Older(recs, i, j)
  <2>1. CASE recs[j].created = first
    <3>1. j \in ties
      BY <2>1
    <3>2. i <= j /\ i \in Nat /\ j \in Nat
      BY <1>1, <1>5, <3>1
    <3> QED BY <1>5, <1>6, <2>1, <3>2 DEF Older
  <2>2. CASE recs[j].created # first
    <3>1. first <= recs[j].created
      BY <1>3
    <3>2. recs[i].created = first /\ first \in Nat /\ recs[j].created \in Nat
      BY <1>1, <1>5
    <3> QED BY <2>2, <3>1, <3>2 DEF Older
  <2> QED BY <2>1, <2>2
<1> QED BY <1>5, <1>6

\* The oldest survivor was not over the limit, and the others are newer.
LEMMA SurvivorsWithinCount ==
    ASSUME NEW recs, WellFormed(recs), NEW total
    PROVE  Cardinality(DOMAIN recs \ ToRemove(recs, total)) <= MaxCount
<1> DEFINE kept == DOMAIN recs \ ToRemove(recs, total)
<1>1. CASE kept = {}
  BY <1>1, FS_EmptySet, RetentionAssumption
<1>2. CASE kept # {}
  <2>1. PICK i \in kept : \A j \in kept : j = i \/ Older(recs, i, j)
    <3>1. kept \in SUBSET DOMAIN recs
      OBVIOUS
    <3>2. \E i \in kept : \A j \in kept : j = i \/ Older(recs, i, j)
      BY <1>2, <3>1, OldestExists
    <3> QED BY <3>2
  <2>2. ~OverLimit(recs, total, i)
    BY <2>1 DEF ToRemove
  <2> DEFINE rest == DOMAIN recs \ OlderThan(recs, i)
  <2>3. kept \subseteq rest
    <3> SUFFICES ASSUME NEW j \in kept, j \in OlderThan(recs, i) PROVE FALSE
      OBVIOUS
    <3>1. Older(recs, j, i)
      BY DEF OlderThan
    <3>2. j = i \/ Older(recs, i, j)
      BY <2>1
    <3>3. recs[i].created \in Nat /\ recs[j].created \in Nat /\ i \in Nat /\ j \in Nat
      BY <2>1, RetentionAssumption DEF WellFormed
    <3> QED BY <3>1, <3>2, <3>3 DEF Older
  <2>4. IsFiniteSet(rest)
    <3>1. rest \subseteq DOMAIN recs
      OBVIOUS
    <3> QED BY <3>1, FS_Subset DEF WellFormed
  <2>5. /\ Cardinality(kept) <= Cardinality(rest)
        /\ IsFiniteSet(kept)
    BY <2>3, <2>4, FS_Subset
  <2>6. ~(Cardinality(rest) > MaxCount)
    BY <2>2 DEF OverLimit
  <2>7. Cardinality(kept) \in Nat /\ Cardinality(rest) \in Nat
    BY <2>4, <2>5, FS_CardinalityType
  <2> QED BY <2>5, <2>6, <2>7, RetentionAssumption
<1> QED BY <1>1, <1>2

-----------------------------------------------------------------------------
(* cleanup, on the records and files it is given.                          *)

LEMMA CleanupPreserves ==
    ASSUME NEW recs, NEW total, NEW disk,
           WellFormed(recs), OnDisk(recs, disk), now \in Nat,
           CleanupCompletes(recs, total, disk) \/ CleanupFails(recs, total, disk)
    PROVE  /\ WellFormed(artifacts')
           /\ OnDisk(artifacts', files')
           /\ DOMAIN artifacts' \subseteq DOMAIN recs
           /\ outcome' = "ok" =>
                /\ Cardinality(DOMAIN artifacts') <= MaxCount
                /\ \A i \in DOMAIN artifacts' :
                      artifacts'[i].created >= metrics'.last_at - MaxAge
<1>1. CASE CleanupCompletes(recs, total, disk)
  <2> DEFINE gone == ToRemove(recs, total)
  <2>1. artifacts' = Without(recs, gone) /\ files' = Without(disk, gone)
    BY <1>1 DEF CleanupCompletes
  <2>2. /\ WellFormed(artifacts')
        /\ DOMAIN artifacts' = DOMAIN recs \ gone
        /\ \A i \in DOMAIN recs \ gone : artifacts'[i] = recs[i]
    BY <2>1, WithoutWellFormed
  <2>3. OnDisk(artifacts', files')
    BY <2>1, <2>2 DEF OnDisk, Without
  <2>4. Cardinality(DOMAIN artifacts') <= MaxCount
    BY <2>2, SurvivorsWithinCount
  <2>5. metrics'.last_at = now
    BY <1>1 DEF CleanupCompletes
  <2>6. ASSUME NEW i \in DOMAIN artifacts'
        PROVE  artifacts'[i].created >= metrics'.last_at - MaxAge
    <3>1. i \in DOMAIN recs /\ i \notin Expired(recs) /\ artifacts'[i] = recs[i]
      BY <2>2 DEF ToRemove
    <3>2. ~(recs[i].created < now - MaxAge)
      BY <3>1 DEF Expired
    <3>3. recs[i].created \in Nat
      BY <3>1 DEF WellFormed
    <3> QED BY <2>5, <3>1, <3>2, <3>3, RetentionAssumption
  <2> QED BY <2>2, <2>3, <2>4, <2>6
<1>2. CASE CleanupFails(recs, total, disk)
  <2>1. PICK stuck \in ToRemove(recs, total) :
           /\ artifacts' = Without(recs, OlderThan(recs, stuck) \cup {stuck})
           /\ files' = Without(disk, OlderThan(recs, stuck))
    BY <1>2 DEF CleanupFails
  <2> DEFINE gone == OlderThan(recs, stuck) \cup {stuck}
  <2>2. /\ WellFormed(artifacts')
        /\ DOMAIN artifacts' = DOMAIN recs \ gone
        /\ \A i \in DOMAIN recs \ gone : artifacts'[i] = recs[i]
    BY <2>1, WithoutWellFormed
  <2>3. OnDisk(artifacts', files')
    BY <2>1, <2>2 DEF OnDisk, Without
  <2>4. outcome' # "ok"
    BY <1>2 DEF CleanupFails
  <2> QED BY <2>2, <2>3, <2>4
<1> QED BY <1>1, <1>2

LEMMA StoreInit == Init => StoreInv
<1> SUFFICES ASSUME Init PROVE StoreInv
  OBVIOUS
<1>1. DOMAIN artifacts = {}
  BY DEF Init, Nothing
<1>2. WellFormed(artifacts)
  BY <1>1, FS_EmptySet DEF WellFormed
<1>3. OnDisk(artifacts, files)
  BY <1>1 DEF OnDisk
<1> QED BY <1>1, <1>2, <1>3 DEF Init, StoreInv, RetainedCountAndAge

LEMMA StoreStep == StoreInv /\ [Next]_vars => StoreInv'
<1> SUFFICES ASSUME StoreInv, [Next]_vars PROVE StoreInv'
  OBVIOUS
<1> USE DEF StoreInv
<1>1. CASE Startup
  <2>1. UNCHANGED <<artifacts, now, issued>> /\ up' /\ up' \in BOOLEAN /\ DOMAIN artifacts = {}
    BY <1>1 DEF Startup
  <2>2. WellFormed(artifacts')
    BY <2>1
  <2>3. OnDisk(artifacts', files')
    BY <2>1 DEF OnDisk
  <2>4. RetainedCountAndAge'
    BY <2>1, FS_EmptySet, RetentionAssumption DEF RetainedCountAndAge
  <2> QED BY <2>1, <2>2, <2>3, <2>4
<1>2. CASE StartupFails
  <2>1. UNCHANGED <<artifacts, now, issued, up>> /\ ~up
    BY <1>2 DEF StartupFails
  <2>2. OnDisk(artifacts', files')
    BY <2>1 DEF OnDisk
  <2>3. RetainedCountAndAge'
    BY <2>1 DEF RetainedCountAndAge
  <2> QED BY <2>1, <2>2, <2>3
<1>3. CASE WriteBytes
  <2>1. PICK i \in Ids \ (issued \cup DOMAIN files), size \in Sizes :
          LET recs  == Put(artifacts, i, [size |-> size, created |-> now])
              total == total_bytes + size
              disk  == Put(files, i, size)
          IN  /\ issued' = issued \cup {i}
              /\ \/ CleanupCompletes(recs, total, disk)
                 \/ CleanupFails(recs, total, disk)
    BY <1>3 DEF WriteBytes
  <2> DEFINE recs == Put(artifacts, i, [size |-> size, created |-> now])
             disk == Put(files, i, size)
  <2>2. WellFormed(recs)
    BY PutWellFormed
  <2>3. OnDisk(recs, disk)
    BY DEF OnDisk, Put
  <2>4. DOMAIN recs = DOMAIN artifacts \cup {i}
    BY DEF Put
  <2>5. /\ WellFormed(artifacts')
        /\ OnDisk(artifacts', files')
        /\ DOMAIN artifacts' \subseteq DOMAIN recs
        /\ outcome' = "ok" =>
             /\ Cardinality(DOMAIN artifacts') <= MaxCount
             /\ \A j \in DOMAIN artifacts' :
                   artifacts'[j].created >= metrics'.last_at - MaxAge
    <3> HIDE DEF recs, disk
    <3> QED BY <2>1, <2>2, <2>3, CleanupPreserves DEF recs, disk
  <2>6. RetainedCountAndAge'
    BY <2>5 DEF RetainedCountAndAge
  <2>7. up /\ up' = up /\ now' = now /\ issued' = issued \cup {i}
    BY <1>3, <2>1 DEF WriteBytes
  <2> HIDE DEF recs, disk
  <2> QED BY <2>4, <2>5, <2>6, <2>7
<1>4. CASE WriteFails
  <2>1. UNCHANGED <<artifacts, now, issued, up>>
    BY <1>4 DEF WriteFails
  <2>2. OnDisk(artifacts', files')
    <3>1. CASE UNCHANGED files
      BY <2>1, <3>1
    <3>2. CASE files' # files
      <4>1. PICK i \in Ids \ (issued \cup DOMAIN files), size \in Sizes :
              \E part \in 0 .. size : files' = Put(files, i, part)
        BY <1>4, <3>2 DEF WriteFails
      <4>2. PICK part \in 0 .. size : files' = Put(files, i, part)
        BY <4>1
      <4> QED BY <2>1, <4>2 DEF OnDisk, Put
    <3> QED BY <3>1, <3>2
  <2>3. RetainedCountAndAge'
    BY <1>4 DEF WriteFails, RetainedCountAndAge
  <2> QED BY <2>1, <2>2, <2>3
<1>5. CASE PeriodicCleanup
  <2>1. up /\ up' = up /\ now' = now /\ issued' = issued
    BY <1>5 DEF PeriodicCleanup
  <2>2. /\ WellFormed(artifacts')
        /\ OnDisk(artifacts', files')
        /\ DOMAIN artifacts' \subseteq DOMAIN artifacts
        /\ outcome' = "ok" =>
             /\ Cardinality(DOMAIN artifacts') <= MaxCount
             /\ \A j \in DOMAIN artifacts' :
                   artifacts'[j].created >= metrics'.last_at - MaxAge
    BY <1>5, CleanupPreserves DEF PeriodicCleanup
  <2>3. RetainedCountAndAge'
    BY <2>2 DEF RetainedCountAndAge
  <2> QED BY <2>1, <2>2, <2>3
<1>6. CASE Crash
  <2>1. DOMAIN artifacts' = {} /\ up' = FALSE /\ now' = now
    BY <1>6 DEF Crash, Nothing
  <2>2. WellFormed(artifacts')
    BY <2>1, FS_EmptySet DEF WellFormed
  <2>3. OnDisk(artifacts', files')
    BY <2>1 DEF OnDisk
  <2>4. RetainedCountAndAge'
    BY <2>1 DEF RetainedCountAndAge
  <2> QED BY <2>1, <2>2, <2>3, <2>4
<1>7. CASE ClockMoves
  <2>1. UNCHANGED <<up, artifacts, files, metrics, outcome, issued>>
    BY <1>7 DEF ClockMoves
  <2>2. now' \in Nat
    BY <1>7, RetentionAssumption DEF ClockMoves
  <2>3. RetainedCountAndAge'
    BY <2>1 DEF RetainedCountAndAge
  <2> QED BY <2>1, <2>2, <2>3
<1>8. CASE UNCHANGED vars
  BY <1>8 DEF vars, RetainedCountAndAge
<1> QED BY <1>1, <1>2, <1>3, <1>4, <1>5, <1>6, <1>7, <1>8 DEF Next

\* The inductive invariant of the store.
THEOREM StoreInvariant == Spec => []StoreInv
<1>1. Init => StoreInv
  BY StoreInit
<1>2. StoreInv /\ [Next]_vars => StoreInv'
  BY StoreStep
<1> QED BY <1>1, <1>2, PTL DEF Spec

\* Whatever fails and whenever the daemon restarts, a record of the store has
\* its complete file: ReadArtifact can serve every artifact it knows.
THEOREM RecordsAreReadable == Spec => []RecordHasFile
<1>1. StoreInv => RecordHasFile
  BY DEF StoreInv, OnDisk, RecordHasFile
<1> QED BY <1>1, StoreInvariant, PTL

\* Every write or cleanup that succeeds enforces max_count and max_age.
THEOREM RetentionIsEnforced == Spec => []RetainedCountAndAge
<1>1. StoreInv => RetainedCountAndAge
  BY DEF StoreInv
<1> QED BY <1>1, StoreInvariant, PTL

-----------------------------------------------------------------------------
(* Sums over finite sets.                                                  *)

Chosen(s) == CHOOSE x \in s : TRUE

Term(w, g, s) == IF s = {} THEN 0 ELSE w[Chosen(s)] + g[s \ {Chosen(s)}]

\* g gives the sum of w over every subset of S.
IsSum(w, S, g) == g = [s \in SUBSET S |-> Term(w, g, s)]

SumOver(w, S) == CHOOSE g : IsSum(w, S, g)

Total(w, S) == SumOver(w, S)[S]

\* A non-empty family of subsets of a finite set has a minimal member.
LEMMA MinimalSet ==
    ASSUME NEW S, IsFiniteSet(S), NEW family \in SUBSET (SUBSET S), family # {}
    PROVE  \E T \in family : \A U \in family : U \subseteq T => U = T
<1> DEFINE R == StrictSubsetOrdering(S)
<1>1. IsWellFoundedOn(R, SUBSET S)
  BY FS_StrictSubsetOrderingWellFounded, FS_FiniteSubsetsOfFinite
<1>2. \E T \in family : \A U \in family : ~(<<U, T>> \in R)
  <2> HIDE DEF R
  <2> QED BY <1>1, WFMin
<1>3. PICK T \in family : \A U \in family : ~(<<U, T>> \in R)
  BY <1>2
<1>4. ASSUME NEW U \in family, U \subseteq T, U # T PROVE FALSE
  <2>1. U \in SUBSET S /\ T \in SUBSET S
    OBVIOUS
  <2>2. <<U, T>> \in R
    BY <1>4, <2>1 DEF StrictSubsetOrdering
  <2> QED BY <1>3, <2>2
<1> QED BY <1>3, <1>4

\* Sums over one set agree, whatever set they were defined on.
LEMMA SumUnique ==
    ASSUME NEW w, NEW S1, NEW g, IsSum(w, S1, g), NEW S2, NEW h, IsSum(w, S2, h),
           NEW T, IsFiniteSet(T), T \subseteq S1, T \subseteq S2
    PROVE  g[T] = h[T]
<1> DEFINE bad == {U \in SUBSET T : g[U] # h[U]}
<1>1. SUFFICES ASSUME bad # {} PROVE FALSE
  OBVIOUS
<1>2. PICK U \in bad : \A V \in bad : V \subseteq U => V = U
  <2> HIDE DEF bad
  <2>1. bad \in SUBSET (SUBSET T)
    BY DEF bad
  <2> QED BY <1>1, <2>1, MinimalSet
<1>3. /\ U \in SUBSET S1 /\ U \in SUBSET S2
      /\ g[U] = Term(w, g, U) /\ h[U] = Term(w, h, U)
  BY DEF IsSum
<1>4. CASE U = {}
  BY <1>2, <1>3, <1>4 DEF Term
<1>5. CASE U # {}
  <2>1. Chosen(U) \in U
    BY <1>5 DEF Chosen
  <2>2. g[U \ {Chosen(U)}] = h[U \ {Chosen(U)}]
    BY <1>2, <2>1
  <2> QED BY <1>2, <1>3, <1>5, <2>2 DEF Term
<1> QED BY <1>4, <1>5

\* A finite set has a sum.
LEMMA SumExists ==
    ASSUME NEW w, NEW S, IsFiniteSet(S)
    PROVE  IsSum(w, S, SumOver(w, S))
<1> DEFINE HasSum(T) == \E g : IsSum(w, T, g)
           bad == {T \in SUBSET S : ~HasSum(T)}
<1>1. SUFFICES ASSUME bad # {} PROVE FALSE
  <2>1. S \in SUBSET S
    OBVIOUS
  <2>2. (bad = {}) => HasSum(S)
    BY <2>1
  <2>3. HasSum(S) => IsSum(w, S, SumOver(w, S))
    BY Zenon DEF SumOver
  <2> QED BY <2>2, <2>3
<1>2. PICK T \in bad : \A U \in bad : U \subseteq T => U = T
  <2> HIDE DEF bad
  <2>1. bad \in SUBSET (SUBSET S)
    BY DEF bad
  <2> QED BY <1>1, <2>1, MinimalSet
<1>3. \A U \in SUBSET T : U # T => IsSum(w, U, SumOver(w, U))
  <2> SUFFICES ASSUME NEW U \in SUBSET T, U # T PROVE IsSum(w, U, SumOver(w, U))
    OBVIOUS
  <2>1. HasSum(U)
    BY <1>2
  <2> QED BY <2>1, Zenon DEF SumOver
<1> DEFINE below(U) == SumOver(w, U)[U]
           c(U) == Chosen(U)
           g == [U \in SUBSET T |-> IF U = {} THEN 0 ELSE w[c(U)] + below(U \ {c(U)})]
<1>4. \A U \in SUBSET T : IsFiniteSet(U)
  BY FS_Subset
<1>5. \A U \in SUBSET T : U # {} => c(U) \in U
  BY DEF Chosen
<1>6. ASSUME NEW U \in SUBSET T, U # T PROVE below(U) = g[U]
  <2>1. IsSum(w, U, SumOver(w, U)) /\ U \in SUBSET U
    BY <1>3, <1>6
  <2>2. below(U) = Term(w, SumOver(w, U), U)
    BY <2>1 DEF IsSum
  <2>3. CASE U = {}
    BY <2>2, <2>3 DEF Term
  <2>4. CASE U # {}
    <3> DEFINE V == U \ {c(U)}
    <3>1. c(U) \in U /\ V \in SUBSET T /\ V # T /\ V \subseteq U
      BY <1>5, <2>4
    <3>2. IsSum(w, V, SumOver(w, V)) /\ IsFiniteSet(V) /\ V \subseteq V
      BY <1>3, <1>4, <3>1
    <3>3. SumOver(w, U)[V] = below(V)
      <4> HIDE DEF V
      <4> QED BY <2>1, <3>1, <3>2, SumUnique
    <3>4. below(U) = w[c(U)] + SumOver(w, U)[V]
      BY <2>2, <2>4 DEF Term
    <3> QED BY <2>4, <3>3, <3>4
  <2> QED BY <2>3, <2>4
<1>7. \A U \in SUBSET T : g[U] = Term(w, g, U)
  <2> TAKE U \in SUBSET T
  <2>1. CASE U = {}
    BY <2>1 DEF Term
  <2>2. CASE U # {}
    <3> DEFINE V == U \ {c(U)}
    <3>1. V \in SUBSET T /\ V # T
      BY <1>5, <2>2
    <3>2. below(V) = g[V]
      <4> HIDE DEF V, g
      <4> QED BY <1>6, <3>1
    <3>3. g[U] = w[c(U)] + below(V)
      BY <2>2
    <3> HIDE DEF g
    <3> QED BY <2>2, <3>2, <3>3 DEF Term
  <2> QED BY <2>1, <2>2
<1>8. g = [U \in SUBSET T |-> Term(w, g, U)]
  <2>1. g = [U \in SUBSET T |-> g[U]]
    OBVIOUS
  <2> HIDE DEF g
  <2> QED BY <1>7, <2>1
<1>9. HasSum(T)
  <2> HIDE DEF g
  <2> QED BY <1>8 DEF IsSum
<1> QED BY <1>2, <1>9

\* The sum over nothing, and over a set with the element the fold takes first.
LEMMA TotalStep ==
    ASSUME NEW w, NEW S, IsFiniteSet(S)
    PROVE  /\ S = {} => Total(w, S) = 0
           /\ S # {} => /\ Chosen(S) \in S
                        /\ Total(w, S) = w[Chosen(S)] + Total(w, S \ {Chosen(S)})
<1> DEFINE g == SumOver(w, S)
           V == S \ {Chosen(S)}
           h == SumOver(w, V)
<1>1. IsSum(w, S, g) /\ g[S] = Term(w, g, S)
  <2>1. IsSum(w, S, g)
    BY SumExists
  <2> HIDE DEF g
  <2> QED BY <2>1 DEF IsSum
<1>2. IsFiniteSet(V) /\ V \subseteq S /\ V \subseteq V
  BY FS_Subset
<1>3. IsSum(w, V, h)
  <2> HIDE DEF V
  <2> QED BY <1>2, SumExists
<1>4. g[V] = h[V]
  <2> HIDE DEF V, g, h
  <2> QED BY <1>1, <1>2, <1>3, SumUnique
<1>5. S # {} => Chosen(S) \in S
  BY DEF Chosen
<1> QED BY <1>1, <1>4, <1>5 DEF Total, Term

Weights(w, S) == \A x \in S : w[x] \in Nat

LEMMA TotalType ==
    ASSUME NEW w, NEW S, IsFiniteSet(S), Weights(w, S)
    PROVE  Total(w, S) \in Nat
<1> DEFINE bad == {U \in SUBSET S : Total(w, U) \notin Nat}
<1>1. SUFFICES ASSUME bad # {} PROVE FALSE
  OBVIOUS
<1>2. PICK U \in bad : \A V \in bad : V \subseteq U => V = U
  <2> HIDE DEF bad
  <2>1. bad \in SUBSET (SUBSET S)
    BY DEF bad
  <2> QED BY <1>1, <2>1, MinimalSet
<1>3. U \in SUBSET S /\ IsFiniteSet(U)
  BY FS_Subset
<1>4. /\ U = {} => Total(w, U) = 0
      /\ U # {} => /\ Chosen(U) \in U
                   /\ Total(w, U) = w[Chosen(U)] + Total(w, U \ {Chosen(U)})
  BY <1>3, TotalStep
<1>5. U # {} => Total(w, U \ {Chosen(U)}) \in Nat
  BY <1>2, <1>4
<1> QED BY <1>2, <1>3, <1>4, <1>5 DEF Weights

LEMMA TotalSame ==
    ASSUME NEW w, NEW v, NEW S, IsFiniteSet(S), \A x \in S : w[x] = v[x]
    PROVE  Total(w, S) = Total(v, S)
<1> DEFINE bad == {U \in SUBSET S : Total(w, U) # Total(v, U)}
<1>1. SUFFICES ASSUME bad # {} PROVE FALSE
  OBVIOUS
<1>2. PICK U \in bad : \A V \in bad : V \subseteq U => V = U
  <2> HIDE DEF bad
  <2>1. bad \in SUBSET (SUBSET S)
    BY DEF bad
  <2> QED BY <1>1, <2>1, MinimalSet
<1>3. U \in SUBSET S /\ IsFiniteSet(U)
  BY FS_Subset
<1>4. /\ U = {} => Total(w, U) = 0
      /\ U # {} => /\ Chosen(U) \in U
                   /\ Total(w, U) = w[Chosen(U)] + Total(w, U \ {Chosen(U)})
  BY <1>3, TotalStep
<1>5. /\ U = {} => Total(v, U) = 0
      /\ U # {} => Total(v, U) = v[Chosen(U)] + Total(v, U \ {Chosen(U)})
  BY <1>3, TotalStep
<1>6. U # {} => Total(w, U \ {Chosen(U)}) = Total(v, U \ {Chosen(U)})
  BY <1>2, <1>4
<1> QED BY <1>2, <1>3, <1>4, <1>5, <1>6

\* Any element may be taken first.
LEMMA TotalPick ==
    ASSUME NEW w, NEW S, IsFiniteSet(S), Weights(w, S), NEW x \in S
    PROVE  Total(w, S) = w[x] + Total(w, S \ {x})
<1> DEFINE Fits(U, y) == Total(w, U) = w[y] + Total(w, U \ {y})
           bad == {U \in SUBSET S : \E y \in U : ~Fits(U, y)}
<1>1. SUFFICES ASSUME bad # {} PROVE FALSE
  <2>1. S \in SUBSET S
    OBVIOUS
  <2> QED BY <2>1
<1>2. PICK U \in bad : \A V \in bad : V \subseteq U => V = U
  <2> HIDE DEF bad
  <2>1. bad \in SUBSET (SUBSET S)
    BY DEF bad
  <2> QED BY <1>1, <2>1, MinimalSet
<1>3. PICK y \in U : ~Fits(U, y)
  BY <1>2
<1> DEFINE c == Chosen(U)
           W == U \ {c, y}
<1>4. U \in SUBSET S /\ IsFiniteSet(U)
  BY FS_Subset
<1>5. c \in U /\ Fits(U, c)
  BY <1>3, <1>4, TotalStep
<1>6. c # y
  BY <1>3, <1>5
<1>7. \A V \in SUBSET S : V \subseteq U /\ V # U => \A z \in V : Fits(V, z)
  BY <1>2
<1>8. Fits(U \ {c}, y) /\ Fits(U \ {y}, c)
  <2> HIDE DEF c, Fits
  <2>1. U \ {c} \in SUBSET S /\ U \ {c} # U /\ y \in U \ {c}
    BY <1>4, <1>5, <1>6
  <2>2. U \ {y} \in SUBSET S /\ U \ {y} # U /\ c \in U \ {y}
    BY <1>4, <1>5, <1>6
  <2> QED BY <1>7, <2>1, <2>2
<1>9. (U \ {c}) \ {y} = W /\ (U \ {y}) \ {c} = W
  OBVIOUS
<1>10. IsFiniteSet(W) /\ Weights(w, W) /\ W \subseteq U
  <2>1. W \subseteq U
    OBVIOUS
  <2>2. IsFiniteSet(W)
    <3> HIDE DEF W
    <3> QED BY <1>4, <2>1, FS_Subset
  <2> HIDE DEF W
  <2> QED BY <1>4, <2>1, <2>2 DEF Weights
<1>11. Total(w, W) \in Nat /\ w[c] \in Nat /\ w[y] \in Nat
  <2>1. Total(w, W) \in Nat
    <3> HIDE DEF W
    <3> QED BY <1>10, TotalType
  <2> HIDE DEF c
  <2> QED BY <1>4, <1>5, <2>1 DEF Weights
<1> HIDE DEF c, W
<1>12. /\ Total(w, U) = w[c] + Total(w, U \ {c})
       /\ Total(w, U \ {c}) = w[y] + Total(w, W)
       /\ Total(w, U \ {y}) = w[c] + Total(w, W)
       /\ ~(Total(w, U) = w[y] + Total(w, U \ {y}))
  BY <1>3, <1>5, <1>8, <1>9
<1> QED BY <1>11, <1>12

\* A sum splits in two.
LEMMA TotalSplit ==
    ASSUME NEW w, NEW S, IsFiniteSet(S), Weights(w, S), NEW A \in SUBSET S
    PROVE  /\ Total(w, S) = Total(w, A) + Total(w, S \ A)
           /\ Total(w, S) \in Nat /\ Total(w, A) \in Nat /\ Total(w, S \ A) \in Nat
<1>1. \A U \in SUBSET S : IsFiniteSet(U) /\ Weights(w, U) /\ Total(w, U) \in Nat
  <2> TAKE U \in SUBSET S
  <2>1. IsFiniteSet(U) /\ Weights(w, U)
    BY FS_Subset DEF Weights
  <2> QED BY <2>1, TotalType
<1> DEFINE bad == {U \in SUBSET A : Total(w, S) # Total(w, U) + Total(w, S \ U)}
<1>2. ASSUME bad # {} PROVE FALSE
  <2>1. PICK U \in bad : \A V \in bad : V \subseteq U => V = U
    <3> HIDE DEF bad
    <3>1. bad \in SUBSET (SUBSET A) /\ IsFiniteSet(A)
      BY <1>1 DEF bad
    <3> QED BY <1>2, <3>1, MinimalSet
  <2>2. U \in SUBSET S
    OBVIOUS
  <2>3. CASE U = {}
    <3>1. Total(w, U) = 0 /\ S \ U = S
      BY <1>1, <2>2, <2>3, TotalStep
    <3>2. Total(w, S) \in Nat /\ Total(w, S) # Total(w, U) + Total(w, S \ U)
      <4>1. S \in SUBSET S
        OBVIOUS
      <4> QED BY <1>1, <2>1, <4>1
    <3> HIDE DEF bad
    <3> QED BY <3>1, <3>2
  <2>4. CASE U # {}
    <3> DEFINE c == Chosen(U)
               V == U \ {c}
    <3>1. c \in U /\ Total(w, U) = w[c] + Total(w, V)
      BY <1>1, <2>2, <2>4, TotalStep
    <3>2. Total(w, S) = Total(w, V) + Total(w, S \ V)
      <4> HIDE DEF c
      <4> QED BY <2>1, <3>1
    <3>3. Total(w, S \ V) = w[c] + Total(w, S \ U)
      <4> HIDE DEF c
      <4>1. c \in S \ V /\ (S \ V) \ {c} = S \ U /\ S \ V \in SUBSET S
        BY <2>2, <3>1
      <4>2. IsFiniteSet(S \ V) /\ Weights(w, S \ V)
        BY <1>1, <4>1
      <4> HIDE DEF V
      <4> QED BY <4>1, <4>2, TotalPick
    <3>4. w[c] \in Nat /\ Total(w, V) \in Nat /\ Total(w, S \ U) \in Nat
      <4>1. V \in SUBSET S /\ S \ U \in SUBSET S /\ c \in S
        BY <2>2, <3>1
      <4> HIDE DEF V, c
      <4> QED BY <1>1, <4>1 DEF Weights
    <3>5. Total(w, S) # Total(w, U) + Total(w, S \ U)
      BY <2>1
    <3> HIDE DEF V, c
    <3> QED BY <3>1, <3>2, <3>3, <3>4, <3>5
  <2> QED BY <2>3, <2>4
<1>3. Total(w, S) = Total(w, A) + Total(w, S \ A)
  BY <1>2
<1>4. S \in SUBSET S /\ S \ A \in SUBSET S
  OBVIOUS
<1> QED BY <1>1, <1>3, <1>4

-----------------------------------------------------------------------------
(* The bytes of records and files.                                         *)

Size(recs) == [i \in DOMAIN recs |-> recs[i].size]

Sized(recs) == WellFormed(recs) /\ \A i \in DOMAIN recs : recs[i].size \in Nat

\* Bytes, unfolded, is the sum of the sizes.
LEMMA BytesIsTotal ==
    ASSUME NEW recs, IsFiniteSet(DOMAIN recs)
    PROVE  Bytes(recs) = Total(Size(recs), DOMAIN recs)
<1> DEFINE D == DOMAIN recs
           w == Size(recs)
           Fold(g) == g = [s \in SUBSET D |-> IF s = {} THEN 0
                             ELSE recs[CHOOSE x \in s : TRUE].size
                                  + g[s \ {CHOOSE x \in s : TRUE}]]
           h == CHOOSE g : Fold(g)
<1>1. Bytes(recs) = h[D]
  BY DEF Bytes, MapThenSumSet, MapThenFoldSet
<1>2. \A g : Fold(g) <=> IsSum(w, D, g)
  <2> TAKE g
  <2>1. \A s \in SUBSET D : s # {} => w[Chosen(s)] = recs[Chosen(s)].size
    BY DEF Chosen, Size
  <2>2. \A s \in SUBSET D :
          (IF s = {} THEN 0 ELSE recs[CHOOSE x \in s : TRUE].size + g[s \ {CHOOSE x \in s : TRUE}])
          = Term(w, g, s)
    BY <2>1 DEF Chosen, Term
  <2>3. [s \in SUBSET D |-> IF s = {} THEN 0
                             ELSE recs[CHOOSE x \in s : TRUE].size
                                  + g[s \ {CHOOSE x \in s : TRUE}]]
        = [s \in SUBSET D |-> Term(w, g, s)]
    <3> HIDE DEF w, D
    <3> QED BY <2>2
  <2> QED BY <2>3 DEF IsSum
<1>3. IsSum(w, D, SumOver(w, D))
  BY SumExists
<1>4. Fold(SumOver(w, D))
  <2> HIDE DEF Fold, w, D
  <2> QED BY <1>2, <1>3
<1>5. Fold(h)
  <2>1. \E g : Fold(g)
    BY <1>4
  <2> HIDE DEF Fold
  <2> QED BY <2>1, Zenon DEF h
<1>6. IsSum(w, D, h)
  <2> HIDE DEF Fold, h, w, D
  <2> QED BY <1>2, <1>5
<1>7. D \subseteq D /\ IsFiniteSet(D)
  OBVIOUS
<1>8. h[D] = SumOver(w, D)[D]
  <2> HIDE DEF h, w, D
  <2> QED BY <1>3, <1>6, <1>7, SumUnique
<1> QED BY <1>1, <1>8 DEF Total

LEMMA FileBytesIsTotal ==
    ASSUME NEW disk, IsFiniteSet(DOMAIN disk)
    PROVE  FileBytes(disk) = Total(disk, DOMAIN disk)
<1> DEFINE D == DOMAIN disk
           Fold(g) == g = [s \in SUBSET D |-> IF s = {} THEN 0
                             ELSE disk[CHOOSE x \in s : TRUE]
                                  + g[s \ {CHOOSE x \in s : TRUE}]]
           h == CHOOSE g : Fold(g)
<1>1. FileBytes(disk) = h[D]
  BY DEF FileBytes, MapThenSumSet, MapThenFoldSet
<1>2. \A g : Fold(g) <=> IsSum(disk, D, g)
  BY DEF IsSum, Term, Chosen
<1>3. IsSum(disk, D, SumOver(disk, D))
  BY SumExists
<1>4. Fold(SumOver(disk, D))
  <2> HIDE DEF Fold, D
  <2> QED BY <1>2, <1>3
<1>5. Fold(h)
  <2>1. \E g : Fold(g)
    BY <1>4
  <2> HIDE DEF Fold
  <2> QED BY <2>1, Zenon DEF h
<1>6. IsSum(disk, D, h)
  <2> HIDE DEF Fold, h, D
  <2> QED BY <1>2, <1>5
<1>7. D \subseteq D /\ IsFiniteSet(D)
  OBVIOUS
<1>8. h[D] = SumOver(disk, D)[D]
  <2> HIDE DEF h, D
  <2> QED BY <1>3, <1>6, <1>7, SumUnique
<1> QED BY <1>1, <1>8 DEF Total

\* What is removed and what is left add up.
LEMMA BytesSplit ==
    ASSUME NEW recs, Sized(recs), NEW A \in SUBSET DOMAIN recs
    PROVE  /\ Bytes(Only(recs, A)) = Total(Size(recs), A)
           /\ Bytes(Without(recs, A)) = Total(Size(recs), DOMAIN recs \ A)
           /\ Bytes(recs) = Bytes(Only(recs, A)) + Bytes(Without(recs, A))
           /\ {Bytes(recs), Bytes(Only(recs, A)), Bytes(Without(recs, A))} \subseteq Nat
<1> DEFINE D == DOMAIN recs
           w == Size(recs)
           on == Only(recs, A)
           off == Without(recs, A)
<1>1. IsFiniteSet(D) /\ Weights(w, D)
  BY DEF Sized, WellFormed, Weights, Size
<1>2. IsFiniteSet(A) /\ IsFiniteSet(D \ A)
  BY <1>1, FS_Subset
<1>3. DOMAIN on = A /\ DOMAIN off = D \ A
  BY DEF Only, Without
<1>4. Bytes(on) = Total(w, A)
  <2>1. Bytes(on) = Total(Size(on), A)
    <3> HIDE DEF on
    <3> QED BY <1>2, <1>3, BytesIsTotal
  <2>2. \A x \in A : Size(on)[x] = w[x]
    BY DEF Size, Only
  <2>3. Total(Size(on), A) = Total(w, A)
    <3> HIDE DEF on, w
    <3> QED BY <1>2, <2>2, TotalSame
  <2> QED BY <2>1, <2>3
<1>5. Bytes(off) = Total(w, D \ A)
  <2>1. Bytes(off) = Total(Size(off), D \ A)
    <3> HIDE DEF off
    <3> QED BY <1>2, <1>3, BytesIsTotal
  <2>2. \A x \in D \ A : Size(off)[x] = w[x]
    BY DEF Size, Without
  <2>3. Total(Size(off), D \ A) = Total(w, D \ A)
    <3> HIDE DEF off, w, D
    <3> QED BY <1>2, <2>2, TotalSame
  <2> QED BY <2>1, <2>3
<1>6. Bytes(recs) = Total(w, D)
  BY <1>1, BytesIsTotal
<1>7. /\ Total(w, D) = Total(w, A) + Total(w, D \ A)
      /\ Total(w, D) \in Nat /\ Total(w, A) \in Nat /\ Total(w, D \ A) \in Nat
  <2>1. A \in SUBSET D
    OBVIOUS
  <2> HIDE DEF w, D
  <2> QED BY <1>1, <2>1, TotalSplit
<1> QED BY <1>4, <1>5, <1>6, <1>7

\* A new record adds its size.
LEMMA BytesPut ==
    ASSUME NEW recs, Sized(recs), NEW i \in Ids, i \notin DOMAIN recs,
           NEW size \in Nat, NEW t \in Nat
    PROVE  /\ Sized(Put(recs, i, [size |-> size, created |-> t]))
           /\ Bytes(Put(recs, i, [size |-> size, created |-> t])) = Bytes(recs) + size
           /\ Bytes(recs) \in Nat
<1> DEFINE new == Put(recs, i, [size |-> size, created |-> t])
           D == DOMAIN recs
<1>1. /\ DOMAIN new = D \cup {i}
      /\ new[i].size = size
      /\ \A j \in D : new[j] = recs[j]
  BY DEF Put
<1>2. WellFormed(new)
  BY PutWellFormed DEF Sized
<1>3. Sized(new)
  <2>1. \A j \in DOMAIN new : new[j].size \in Nat
    <3> HIDE DEF new
    <3> QED BY <1>1 DEF Sized
  <2> QED BY <1>2, <2>1 DEF Sized
<1>4. Bytes(Without(new, {i})) = Bytes(recs)
  <2> DEFINE old == Without(new, {i})
  <2>1. DOMAIN old = D /\ \A j \in D : old[j] = recs[j]
    <3> HIDE DEF new
    <3> QED BY <1>1 DEF Without
  <2>2. IsFiniteSet(D)
    BY DEF Sized, WellFormed
  <2> HIDE DEF old
  <2>3. Bytes(old) = Total(Size(old), D) /\ Bytes(recs) = Total(Size(recs), D)
    BY <2>1, <2>2, BytesIsTotal
  <2>4. \A j \in D : Size(old)[j] = Size(recs)[j]
    BY <2>1 DEF Size
  <2>5. Total(Size(old), D) = Total(Size(recs), D)
    <3> HIDE DEF D
    <3> QED BY <2>2, <2>4, TotalSame
  <2> QED BY <2>3, <2>5 DEF old
<1>5. Bytes(Only(new, {i})) = size
  <2> DEFINE w == Size(new)
  <2>1. w[i] = size
    BY <1>1 DEF Size
  <2>2. IsFiniteSet({i}) /\ Weights(w, {i}) /\ i \in {i} /\ {i} \ {i} = {}
    BY <2>1, FS_Singleton DEF Weights
  <2>3. Total(w, {i}) = w[i] + Total(w, {i} \ {i})
    <3> HIDE DEF w
    <3> QED BY <2>2, TotalPick
  <2>4. Total(w, {}) = 0
    BY FS_EmptySet, TotalStep
  <2>5. Bytes(Only(new, {i})) = Total(w, {i})
    <3>1. {i} \in SUBSET DOMAIN new
      BY <1>1
    <3> HIDE DEF new
    <3> QED BY <1>3, <3>1, BytesSplit DEF w
  <2> HIDE DEF w
  <2> QED BY <2>1, <2>2, <2>3, <2>4, <2>5
<1>6. /\ Bytes(new) = Bytes(Only(new, {i})) + Bytes(Without(new, {i}))
      /\ {Bytes(new), Bytes(Only(new, {i})), Bytes(Without(new, {i}))} \subseteq Nat
  <2>1. {i} \in SUBSET DOMAIN new
    BY <1>1
  <2> HIDE DEF new
  <2> QED BY <1>3, <2>1, BytesSplit
<1> HIDE DEF new, D
<1>7. Bytes(new) = Bytes(recs) + size /\ Bytes(recs) \in Nat
  BY <1>4, <1>5, <1>6
<1> QED BY <1>3, <1>7 DEF new

-----------------------------------------------------------------------------
(* The order of removal.                                                   *)

\* Older is a strict total order on the records.
LEMMA OlderIsAnOrder ==
    ASSUME NEW recs, WellFormed(recs)
    PROVE  /\ \A i, j \in DOMAIN recs : i = j \/ Older(recs, i, j) \/ Older(recs, j, i)
           /\ \A i, j \in DOMAIN recs : Older(recs, i, j) => ~Older(recs, j, i)
           /\ \A i, j, k \in DOMAIN recs :
                 Older(recs, i, j) /\ Older(recs, j, k) => Older(recs, i, k)
<1>1. \A i \in DOMAIN recs : i \in Nat /\ recs[i].created \in Nat
  BY RetentionAssumption DEF WellFormed
<1> QED BY <1>1 DEF Older

\* A non-empty set of records has a newest one.
LEMMA NewestExists ==
    ASSUME NEW recs, WellFormed(recs), NEW S \in SUBSET DOMAIN recs, S # {}
    PROVE  \E i \in S : \A j \in S : j = i \/ Older(recs, j, i)
<1> DEFINE newer(i) == {j \in S : Older(recs, i, j)}
           family == {newer(i) : i \in S}
<1>1. PICK T \in family : \A U \in family : U \subseteq T => U = T
  <2>1. family \in SUBSET (SUBSET S) /\ family # {}
    OBVIOUS
  <2>2. IsFiniteSet(S)
    BY FS_Subset DEF WellFormed
  <2> HIDE DEF family
  <2> QED BY <2>1, <2>2, MinimalSet
<1>2. PICK i \in S : T = newer(i)
  BY <1>1
<1>3. ASSUME NEW j \in newer(i) PROVE FALSE
  <2>1. j \in S /\ Older(recs, i, j)
    OBVIOUS
  <2>2. newer(j) \subseteq newer(i)
    BY <2>1, OlderIsAnOrder
  <2>3. j \notin newer(j)
    BY <2>1, OlderIsAnOrder
  <2>4. newer(j) \in family
    BY <2>1
  <2> QED BY <1>1, <1>2, <1>3, <2>2, <2>3, <2>4
<1>4. \A j \in S : j = i \/ Older(recs, j, i)
  BY <1>3, OlderIsAnOrder
<1> QED BY <1>4

\* Over the limit with an older record out of the way, and more so without.
LEMMA RemovalIsByAge ==
    ASSUME NEW recs, Sized(recs), NEW total \in Int, now \in Nat,
           NEW i \in ToRemove(recs, total), NEW j \in DOMAIN recs \ ToRemove(recs, total)
    PROVE  Older(recs, i, j)
<1> DEFINE D == DOMAIN recs
<1>1. WellFormed(recs) /\ i \in D /\ j \in D /\ i # j
  BY DEF Sized, ToRemove
<1>2. SUFFICES ASSUME Older(recs, j, i) PROVE FALSE
  BY <1>1, OlderIsAnOrder
<1>3. j \notin Expired(recs) /\ ~OverLimit(recs, total, j)
  BY DEF ToRemove
<1>4. CASE i \in Expired(recs)
  <2>1. recs[i].created \in Nat /\ recs[j].created \in Nat
    BY <1>1 DEF WellFormed
  <2>2. recs[j].created <= recs[i].created
    BY <1>2, <2>1 DEF Older
  <2>3. recs[i].created < now - MaxAge /\ ~(recs[j].created < now - MaxAge)
    BY <1>1, <1>3, <1>4 DEF Expired
  <2> QED BY <2>1, <2>2, <2>3, RetentionAssumption
<1>5. CASE OverLimit(recs, total, i)
  <2> DEFINE before(k) == OlderThan(recs, k)
             w == Size(recs)
  <2>1. before(j) \subseteq before(i) /\ before(i) \subseteq D
    BY <1>1, <1>2, OlderIsAnOrder DEF OlderThan
  <2>2. IsFiniteSet(D) /\ Weights(w, D)
    BY DEF Sized, WellFormed, Weights, Size
  <2>3. CASE Cardinality(D \ before(i)) > MaxCount
    <3>1. IsFiniteSet(D \ before(j)) /\ D \ before(i) \subseteq D \ before(j)
      BY <2>1, <2>2, FS_Subset
    <3>2. /\ IsFiniteSet(D \ before(i))
          /\ Cardinality(D \ before(i)) <= Cardinality(D \ before(j))
      <4> HIDE DEF before, D
      <4> QED BY <3>1, FS_Subset
    <3>3. Cardinality(D \ before(i)) \in Nat /\ Cardinality(D \ before(j)) \in Nat
      <4> HIDE DEF before, D
      <4> QED BY <3>1, <3>2, FS_CardinalityType
    <3>4. ~(Cardinality(D \ before(j)) > MaxCount)
      BY <1>3 DEF OverLimit
    <3> HIDE DEF before, D
    <3> QED BY <2>3, <3>2, <3>3, <3>4, RetentionAssumption
  <2>4. CASE total - Bytes(Only(recs, before(i))) > MaxBytes
    <3>1. /\ Bytes(Only(recs, before(i))) = Total(w, before(i))
          /\ Bytes(Only(recs, before(j))) = Total(w, before(j))
      <4>1. before(i) \in SUBSET DOMAIN recs /\ before(j) \in SUBSET DOMAIN recs
        BY <2>1
      <4> HIDE DEF before
      <4> QED BY <4>1, BytesSplit
    <3>2. /\ Total(w, before(i)) = Total(w, before(j)) + Total(w, before(i) \ before(j))
          /\ Total(w, before(i)) \in Nat /\ Total(w, before(j)) \in Nat
          /\ Total(w, before(i) \ before(j)) \in Nat
      <4>1. IsFiniteSet(before(i)) /\ Weights(w, before(i)) /\ before(j) \in SUBSET before(i)
        BY <2>1, <2>2, FS_Subset DEF Weights
      <4> HIDE DEF before, w
      <4> QED BY <4>1, TotalSplit
    <3>3. ~(total - Bytes(Only(recs, before(j))) > MaxBytes)
      BY <1>3 DEF OverLimit
    <3> HIDE DEF before, w
    <3> QED BY <2>4, <3>1, <3>2, <3>3, RetentionAssumption
  <2> QED BY <1>5, <2>3, <2>4 DEF OverLimit
<1> QED BY <1>4, <1>5 DEF ToRemove

\* What a cleanup leaves is newer than all it has removed.
LEMMA CleanupGoesByAge ==
    ASSUME NEW recs, Sized(recs), NEW total \in Int, now \in Nat, NEW disk,
           CleanupCompletes(recs, total, disk) \/ CleanupFails(recs, total, disk)
    PROVE  /\ DOMAIN artifacts' \subseteq DOMAIN recs
           /\ \A j \in DOMAIN artifacts' : artifacts'[j] = recs[j]
           /\ \A i \in DOMAIN recs \ DOMAIN artifacts', j \in DOMAIN artifacts' :
                 Older(recs, i, j)
<1>0. WellFormed(recs)
  BY DEF Sized
<1>1. CASE CleanupCompletes(recs, total, disk)
  <2>1. artifacts' = Without(recs, ToRemove(recs, total))
    BY <1>1 DEF CleanupCompletes
  <2>2. /\ DOMAIN artifacts' = DOMAIN recs \ ToRemove(recs, total)
        /\ \A i \in DOMAIN recs \ ToRemove(recs, total) : artifacts'[i] = recs[i]
    BY <1>0, <2>1, WithoutWellFormed
  <2> QED BY <2>2, RemovalIsByAge
<1>2. CASE CleanupFails(recs, total, disk)
  <2>1. PICK stuck \in ToRemove(recs, total) :
           artifacts' = Without(recs, OlderThan(recs, stuck) \cup {stuck})
    BY <1>2 DEF CleanupFails
  <2> DEFINE gone == OlderThan(recs, stuck) \cup {stuck}
  <2>2. /\ DOMAIN artifacts' = DOMAIN recs \ gone
        /\ \A i \in DOMAIN recs \ gone : artifacts'[i] = recs[i]
    BY <1>0, <2>1, WithoutWellFormed
  <2>3. stuck \in DOMAIN recs
    BY DEF ToRemove
  <2>4. ASSUME NEW i \in gone, NEW j \in DOMAIN recs \ gone PROVE Older(recs, i, j)
    <3>1. j # stuck /\ ~Older(recs, j, stuck) /\ i \in DOMAIN recs
      BY <2>3 DEF OlderThan
    <3>2. Older(recs, stuck, j)
      BY <1>0, <2>3, <3>1, OlderIsAnOrder
    <3>3. i = stuck \/ Older(recs, i, stuck)
      BY DEF OlderThan
    <3> HIDE DEF gone
    <3> QED BY <1>0, <2>3, <3>1, <3>2, <3>3, OlderIsAnOrder
  <2> HIDE DEF gone
  <2> QED BY <2>2, <2>4
<1> QED BY <1>1, <1>2

\* The bytes of the survivors: the oldest of them was not over the limit.
LEMMA SurvivorsWithinBytes ==
    ASSUME NEW recs, Sized(recs), NEW total \in Nat, Bytes(recs) <= total
    PROVE  Bytes(Without(recs, ToRemove(recs, total))) <= MaxBytes
<1> DEFINE D == DOMAIN recs
           gone == ToRemove(recs, total)
           kept == D \ gone
           w == Size(recs)
<1>0. WellFormed(recs) /\ IsFiniteSet(D) /\ Weights(w, D) /\ gone \in SUBSET D
  BY DEF Sized, WellFormed, Weights, Size, ToRemove
<1>1. Bytes(Without(recs, gone)) = Total(w, kept)
  <2> HIDE DEF gone
  <2> QED BY <1>0, BytesSplit
<1>2. CASE kept = {}
  <2>1. Total(w, {}) = 0
    BY FS_EmptySet, TotalStep
  <2>2. Bytes(Without(recs, gone)) = 0
    <3> HIDE DEF w, kept, gone
    <3> QED BY <1>1, <1>2, <2>1
  <2> QED BY <2>2, RetentionAssumption
<1>3. CASE kept # {}
  <2>1. PICK i \in kept : \A j \in kept : j = i \/ Older(recs, i, j)
    <3>1. kept \in SUBSET DOMAIN recs
      OBVIOUS
    <3>2. \E i \in kept : \A j \in kept : j = i \/ Older(recs, i, j)
      <4> HIDE DEF kept
      <4> QED BY <1>0, <1>3, <3>1, OldestExists
    <3> QED BY <3>2
  <2> DEFINE before == OlderThan(recs, i)
             rest == D \ before
  <2>2. kept \subseteq rest /\ before \in SUBSET D
    BY <1>0, <2>1, OlderIsAnOrder DEF OlderThan
  <2>3. ~(total - Bytes(Only(recs, before)) > MaxBytes)
    BY <2>1 DEF ToRemove, OverLimit
  <2>4. /\ Bytes(Without(recs, before)) = Total(w, rest)
        /\ Bytes(recs) = Bytes(Only(recs, before)) + Bytes(Without(recs, before))
        /\ {Bytes(recs), Bytes(Only(recs, before)), Bytes(Without(recs, before))} \subseteq Nat
    <3> HIDE DEF before
    <3> QED BY <2>2, BytesSplit
  <2>5. /\ Total(w, rest) = Total(w, kept) + Total(w, rest \ kept)
        /\ Total(w, kept) \in Nat /\ Total(w, rest \ kept) \in Nat
    <3>1. IsFiniteSet(rest) /\ Weights(w, rest) /\ kept \in SUBSET rest
      BY <1>0, <2>2, FS_Subset DEF Weights
    <3> HIDE DEF rest, kept, w
    <3> QED BY <3>1, TotalSplit
  <2> HIDE DEF before, rest, kept, w
  <2> QED BY <1>1, <2>3, <2>4, <2>5, RetentionAssumption
<1> QED BY <1>2, <1>3

-----------------------------------------------------------------------------
(* The accounts.                                                           *)

Typed(recs) ==
    \A i \in DOMAIN recs : recs[i] \in [size : Sizes, created : Nat]

BytesInv ==
    /\ TypeOK
    /\ WellFormed(artifacts)
    /\ IsFiniteSet(DOMAIN files)
    /\ ~up => /\ DOMAIN artifacts = {} /\ total_bytes = 0
              /\ metrics = FreshMetrics /\ written = 0 /\ swept = 0
    /\ BytesAccounted

LEMMA CleanupAccounts ==
    ASSUME NEW recs, NEW total \in Nat, NEW disk,
           WellFormed(recs), Typed(recs), Bytes(recs) <= total,
           IsFiniteSet(DOMAIN disk), DOMAIN disk \subseteq Ids,
           \A i \in DOMAIN disk : disk[i] \in Nat,
           now \in Nat, metrics.deleted \in Nat,
           metrics.deleted > 0 => metrics.last_at \in Nat,
           CleanupCompletes(recs, total, disk) \/ CleanupFails(recs, total, disk)
    PROVE  /\ WellFormed(artifacts') /\ Typed(artifacts')
           /\ DOMAIN artifacts' \subseteq DOMAIN recs
           /\ IsFiniteSet(DOMAIN files') /\ DOMAIN files' \subseteq Ids
           /\ \A i \in DOMAIN files' : files'[i] \in Nat
           /\ total_bytes' \in Nat /\ metrics'.deleted \in Nat
           /\ metrics'.deleted > 0 => metrics'.last_at \in Nat
           /\ outcome' \in {"ok", "cleanup_failed"}
           /\ outcome' = "ok" => Bytes(artifacts') <= MaxBytes
           /\ Bytes(artifacts') <= total_bytes'
           /\ metrics'.deleted + total_bytes' <= metrics.deleted + total
<1>1. Sized(recs)
  BY RetentionAssumption DEF Sized, Typed
<1>2. ASSUME NEW gone, artifacts' = Without(recs, gone)
      PROVE  /\ WellFormed(artifacts') /\ Typed(artifacts')
             /\ DOMAIN artifacts' \subseteq DOMAIN recs
  <2>1. /\ WellFormed(artifacts')
        /\ DOMAIN artifacts' = DOMAIN recs \ gone
        /\ \A i \in DOMAIN recs \ gone : artifacts'[i] = recs[i]
    BY <1>2, WithoutWellFormed
  <2> QED BY <2>1 DEF Typed
<1>3. ASSUME NEW gone, files' = Without(disk, gone)
      PROVE  /\ IsFiniteSet(DOMAIN files') /\ DOMAIN files' \subseteq Ids
             /\ \A i \in DOMAIN files' : files'[i] \in Nat
  <2>1. /\ DOMAIN files' = DOMAIN disk \ gone
        /\ \A i \in DOMAIN disk \ gone : files'[i] = disk[i]
    BY <1>3 DEF Without
  <2>2. IsFiniteSet(DOMAIN disk \ gone)
    BY FS_Subset
  <2> QED BY <2>1, <2>2
<1>4. CASE CleanupCompletes(recs, total, disk)
  <2> DEFINE gone == ToRemove(recs, total)
  <2>1. /\ artifacts' = Without(recs, gone) /\ files' = Without(disk, gone)
        /\ total_bytes' = Bytes(Without(recs, gone))
        /\ metrics' = [deleted |-> metrics.deleted + Bytes(Only(recs, gone)),
                       last_at |-> now]
        /\ outcome' = "ok"
    BY <1>4 DEF CleanupCompletes
  <2>2. /\ Bytes(recs) = Bytes(Only(recs, gone)) + Bytes(Without(recs, gone))
        /\ {Bytes(recs), Bytes(Only(recs, gone)), Bytes(Without(recs, gone))} \subseteq Nat
    <3>1. gone \in SUBSET DOMAIN recs
      BY DEF ToRemove
    <3> HIDE DEF gone
    <3> QED BY <1>1, <3>1, BytesSplit
  <2>3. Bytes(artifacts') <= MaxBytes
    BY <1>1, <2>1, SurvivorsWithinBytes
  <2>4. metrics'.deleted = metrics.deleted + Bytes(Only(recs, gone)) /\ metrics'.last_at = now
    BY <2>1
  <2> HIDE DEF gone
  <2>5. total_bytes' \in Nat /\ metrics'.deleted \in Nat
    BY <2>1, <2>2, <2>4
  <2>6. Bytes(artifacts') <= total_bytes'
    BY <2>1, <2>2
  <2>7. metrics'.deleted + total_bytes' <= metrics.deleted + total
    BY <2>1, <2>2, <2>4
  <2> QED BY <1>2, <1>3, <2>1, <2>3, <2>4, <2>5, <2>6, <2>7
<1>5. CASE CleanupFails(recs, total, disk)
  <2>1. PICK stuck \in ToRemove(recs, total) :
           /\ artifacts' = Without(recs, OlderThan(recs, stuck) \cup {stuck})
           /\ files' = Without(disk, OlderThan(recs, stuck))
    BY <1>5 DEF CleanupFails
  <2> DEFINE gone == OlderThan(recs, stuck) \cup {stuck}
  <2>2. total_bytes' = total /\ metrics' = metrics /\ outcome' = "cleanup_failed"
    BY <1>5 DEF CleanupFails
  <2>3. /\ Bytes(recs) = Bytes(Only(recs, gone)) + Bytes(Without(recs, gone))
        /\ {Bytes(recs), Bytes(Only(recs, gone)), Bytes(Without(recs, gone))} \subseteq Nat
    <3>1. gone \in SUBSET DOMAIN recs
      BY DEF ToRemove, OlderThan
    <3> HIDE DEF gone
    <3> QED BY <1>1, <3>1, BytesSplit
  <2>4. Bytes(artifacts') <= total_bytes'
    BY <2>1, <2>2, <2>3
  <2>5. /\ total_bytes' \in Nat /\ metrics'.deleted \in Nat
        /\ metrics'.deleted > 0 => metrics'.last_at \in Nat
        /\ metrics'.deleted + total_bytes' <= metrics.deleted + total
    BY <2>2
  <2> QED BY <1>2, <1>3, <2>1, <2>2, <2>4, <2>5
<1> QED BY <1>4, <1>5

LEMMA NoBytes ==
    ASSUME NEW recs, DOMAIN recs = {}
    PROVE  Bytes(recs) = 0
BY FS_EmptySet, BytesIsTotal, TotalStep

LEMMA BytesInit == Init => BytesInv
<1> SUFFICES ASSUME Init PROVE BytesInv
  OBVIOUS
<1>1. DOMAIN artifacts = {} /\ DOMAIN files = {}
  BY DEF Init, Nothing
<1>2. WellFormed(artifacts) /\ IsFiniteSet(DOMAIN files)
  BY <1>1, FS_EmptySet DEF WellFormed
<1>3. Bytes(artifacts) = 0
  BY <1>1, NoBytes
<1>4. TypeOK
  <2>1. metrics.deleted = 0
    BY DEF Init, FreshMetrics
  <2>2. /\ up = FALSE /\ total_bytes = 0 /\ written = 0 /\ now = 0 /\ swept = 0
        /\ outcome = "none" /\ issued = {}
    BY DEF Init
  <2>3. {total_bytes, written, swept, metrics.deleted, now} \subseteq Nat
    BY <2>1, <2>2
  <2>4. ~(metrics.deleted > 0)
    BY <2>1
  <2> QED BY <1>1, <2>2, <2>3, <2>4 DEF TypeOK
<1>5. BytesAccounted
  BY <1>3 DEF Init, BytesAccounted, FreshMetrics
<1> QED BY <1>1, <1>2, <1>4, <1>5 DEF Init, BytesInv

LEMMA BytesStep == BytesInv /\ [Next]_vars => BytesInv'
<1> SUFFICES ASSUME BytesInv, [Next]_vars PROVE BytesInv'
  OBVIOUS
<1> USE DEF BytesInv
<1>0. /\ Typed(artifacts) /\ Sized(artifacts) /\ Bytes(artifacts) \in Nat
      /\ now \in Nat /\ total_bytes \in Nat /\ written \in Nat /\ swept \in Nat
      /\ metrics.deleted \in Nat
  <2>1. Typed(artifacts) /\ Sized(artifacts)
    BY RetentionAssumption DEF TypeOK, Typed, Sized
  <2>2. Bytes(artifacts) \in Nat
    BY <2>1, BytesSplit
  <2> QED BY <2>1, <2>2 DEF TypeOK
<1>1. CASE Startup
  <2>1. /\ UNCHANGED <<artifacts, total_bytes, written, now, issued>>
        /\ up' = TRUE /\ DOMAIN files' = {} /\ outcome' = "ok"
        /\ DOMAIN artifacts = {} /\ total_bytes = 0
        /\ swept' = FileBytes(files)
    BY <1>1 DEF Startup, Nothing
  <2>2. FileBytes(files) \in Nat
    <3>1. Weights(files, DOMAIN files)
      BY DEF TypeOK, Weights
    <3> QED BY <3>1, FileBytesIsTotal, TotalType
  <2>3. /\ metrics'.deleted \in Nat /\ metrics'.deleted <= FileBytes(files)
        /\ metrics'.deleted > 0 => metrics'.last_at \in Nat
    <3>1. CASE DOMAIN files = {}
      BY <1>1, <2>2, <3>1 DEF Startup, FreshMetrics
    <3>2. CASE DOMAIN files # {}
      BY <1>1, <1>0, <2>2, <3>2 DEF Startup
    <3> QED BY <3>1, <3>2
  <2>4. Bytes(artifacts') = 0
    BY <2>1, NoBytes
  <2>5. TypeOK'
    BY <1>0, <2>1, <2>2, <2>3 DEF TypeOK
  <2>6. BytesAccounted'
    BY <1>0, <2>1, <2>2, <2>3, <2>4, RetentionAssumption DEF BytesAccounted
  <2>7. WellFormed(artifacts') /\ IsFiniteSet(DOMAIN files')
    BY <2>1, FS_EmptySet
  <2> QED BY <2>1, <2>5, <2>6, <2>7
<1>2. CASE StartupFails
  <2>1. /\ UNCHANGED <<up, artifacts, total_bytes, metrics, written, now, issued, swept>>
        /\ ~up /\ outcome' = "startup_failed"
    BY <1>2 DEF StartupFails
  <2>2. PICK left \in SUBSET DOMAIN files : files' = Only(files, left)
    BY <1>2 DEF StartupFails
  <2>3. /\ DOMAIN files' = left /\ IsFiniteSet(left)
        /\ \A i \in DOMAIN files' : files'[i] = files[i]
    BY <2>2, FS_Subset DEF Only
  <2>4. TypeOK'
    BY <2>1, <2>3 DEF TypeOK
  <2>5. BytesAccounted'
    BY <2>1 DEF BytesAccounted
  <2> QED BY <2>1, <2>3, <2>4, <2>5
<1>3. CASE WriteBytes
  <2>1. PICK i \in Ids \ (issued \cup DOMAIN files), size \in Sizes :
          LET recs  == Put(artifacts, i, [size |-> size, created |-> now])
              total == total_bytes + size
              disk  == Put(files, i, size)
          IN  /\ issued' = issued \cup {i}
              /\ written' = written + size
              /\ \/ CleanupCompletes(recs, total, disk)
                 \/ CleanupFails(recs, total, disk)
    BY <1>3 DEF WriteBytes
  <2> DEFINE recs == Put(artifacts, i, [size |-> size, created |-> now])
             disk == Put(files, i, size)
             total == total_bytes + size
  <2>2. /\ up /\ up' = up /\ now' = now /\ swept' = swept
        /\ issued' = issued \cup {i} /\ written' = written + size
    BY <1>3, <2>1 DEF WriteBytes
  <2>3. i \in Ids /\ i \notin DOMAIN artifacts /\ size \in Nat
    BY RetentionAssumption DEF TypeOK
  <2>4. WellFormed(recs) /\ Bytes(recs) = Bytes(artifacts) + size
    BY <1>0, <2>3, BytesPut DEF Sized
  <2>5. Typed(recs) /\ DOMAIN recs = DOMAIN artifacts \cup {i}
    BY <1>0 DEF Typed, Put
  <2>6. /\ IsFiniteSet(DOMAIN disk) /\ DOMAIN disk \subseteq Ids
        /\ \A j \in DOMAIN disk : disk[j] \in Nat
    <3>1. DOMAIN disk = DOMAIN files \cup {i}
      BY DEF Put
    <3>2. IsFiniteSet(DOMAIN files \cup {i})
      BY FS_AddElement
    <3>3. \A j \in DOMAIN disk : disk[j] \in Nat
      BY <2>3 DEF Put, TypeOK
    <3> QED BY <3>1, <3>2, <3>3 DEF TypeOK
  <2>7. total \in Nat /\ Bytes(recs) <= total
    BY <1>0, <2>3, <2>4 DEF BytesAccounted
  <2>8. metrics.deleted > 0 => metrics.last_at \in Nat
    BY DEF TypeOK
  <2>9. CleanupCompletes(recs, total, disk) \/ CleanupFails(recs, total, disk)
    BY <2>1
  <2> HIDE DEF recs, disk, total
  <2>10. /\ WellFormed(artifacts') /\ Typed(artifacts')
         /\ DOMAIN artifacts' \subseteq DOMAIN recs
         /\ IsFiniteSet(DOMAIN files') /\ DOMAIN files' \subseteq Ids
         /\ \A j \in DOMAIN files' : files'[j] \in Nat
         /\ total_bytes' \in Nat /\ metrics'.deleted \in Nat
         /\ metrics'.deleted > 0 => metrics'.last_at \in Nat
         /\ outcome' \in {"ok", "cleanup_failed"}
         /\ outcome' = "ok" => Bytes(artifacts') <= MaxBytes
         /\ Bytes(artifacts') <= total_bytes'
         /\ metrics'.deleted + total_bytes' <= metrics.deleted + total
    BY <1>0, <2>4, <2>5, <2>6, <2>7, <2>8, <2>9, CleanupAccounts
  <2>11. TypeOK'
    BY <1>0, <2>2, <2>3, <2>5, <2>10 DEF TypeOK, Typed
  <2>12. metrics'.deleted + total_bytes' <= written' + swept'
    BY <1>0, <2>2, <2>3, <2>10 DEF BytesAccounted, total
  <2> QED BY <2>2, <2>10, <2>11, <2>12 DEF BytesAccounted
<1>4. CASE WriteFails
  <2>1. /\ UNCHANGED <<up, artifacts, total_bytes, metrics, written, now, issued, swept>>
        /\ up /\ outcome' = "write_failed"
    BY <1>4 DEF WriteFails
  <2>2. /\ IsFiniteSet(DOMAIN files') /\ DOMAIN files' \subseteq Ids
        /\ \A j \in DOMAIN files' : files'[j] \in Nat
    <3>1. CASE UNCHANGED files
      BY <3>1 DEF TypeOK
    <3>2. CASE files' # files
      <4>1. PICK i \in Ids \ (issued \cup DOMAIN files), size \in Sizes :
              \E part \in 0 .. size : files' = Put(files, i, part)
        BY <1>4, <3>2 DEF WriteFails
      <4>2. PICK part \in 0 .. size : files' = Put(files, i, part)
        BY <4>1
      <4>3. part \in Nat
        BY RetentionAssumption
      <4>4. DOMAIN files' = DOMAIN files \cup {i} /\ IsFiniteSet(DOMAIN files \cup {i})
        BY <4>2, FS_AddElement DEF Put
      <4>5. \A j \in DOMAIN files' : files'[j] \in Nat
        BY <4>2, <4>3 DEF Put, TypeOK
      <4> QED BY <4>4, <4>5 DEF TypeOK
    <3> QED BY <3>1, <3>2
  <2>3. TypeOK'
    BY <2>1, <2>2 DEF TypeOK
  <2>4. BytesAccounted'
    BY <2>1 DEF BytesAccounted
  <2> QED BY <2>1, <2>2, <2>3, <2>4
<1>5. CASE PeriodicCleanup
  <2>1. /\ up /\ up' = up /\ now' = now /\ issued' = issued
        /\ written' = written /\ swept' = swept
    BY <1>5 DEF PeriodicCleanup
  <2>2. /\ WellFormed(artifacts') /\ Typed(artifacts')
        /\ DOMAIN artifacts' \subseteq DOMAIN artifacts
        /\ IsFiniteSet(DOMAIN files') /\ DOMAIN files' \subseteq Ids
        /\ \A j \in DOMAIN files' : files'[j] \in Nat
        /\ total_bytes' \in Nat /\ metrics'.deleted \in Nat
        /\ metrics'.deleted > 0 => metrics'.last_at \in Nat
        /\ outcome' \in {"ok", "cleanup_failed"}
        /\ outcome' = "ok" => Bytes(artifacts') <= MaxBytes
        /\ Bytes(artifacts') <= total_bytes'
        /\ metrics'.deleted + total_bytes' <= metrics.deleted + total_bytes
    <3>1. Bytes(artifacts) <= total_bytes
      BY DEF BytesAccounted
    <3>2. /\ DOMAIN files \subseteq Ids /\ \A i \in DOMAIN files : files[i] \in Nat
          /\ metrics.deleted > 0 => metrics.last_at \in Nat
      BY DEF TypeOK
    <3>3. \/ CleanupCompletes(artifacts, total_bytes, files)
          \/ CleanupFails(artifacts, total_bytes, files)
      BY <1>5 DEF PeriodicCleanup
    <3> QED BY <1>0, <3>1, <3>2, <3>3, CleanupAccounts
  <2>3. TypeOK'
    BY <1>0, <2>1, <2>2 DEF TypeOK, Typed
  <2>4. metrics'.deleted + total_bytes' <= written' + swept'
    BY <1>0, <2>1, <2>2 DEF BytesAccounted
  <2> QED BY <2>1, <2>2, <2>3, <2>4 DEF BytesAccounted
<1>6. CASE Crash
  <2>1. /\ DOMAIN artifacts' = {} /\ up' = FALSE /\ total_bytes' = 0
        /\ metrics' = FreshMetrics /\ written' = 0 /\ swept' = 0
        /\ outcome' = "none" /\ issued' = {} /\ UNCHANGED <<files, now>>
    BY <1>6 DEF Crash, Nothing
  <2>2. WellFormed(artifacts') /\ Bytes(artifacts') = 0
    BY <2>1, FS_EmptySet, NoBytes DEF WellFormed
  <2>3. TypeOK'
    <3>1. metrics'.deleted = 0
      BY <2>1 DEF FreshMetrics
    <3> HIDE DEF BytesInv
    <3>2. TypeOK
      BY DEF BytesInv
    <3>3. {total_bytes', written', swept', metrics'.deleted, now'} \subseteq Nat
      BY <2>1, <3>1, <3>2 DEF TypeOK
    <3>4. ~(metrics'.deleted > 0)
      BY <3>1
    <3>5. /\ DOMAIN files' \subseteq Ids
          /\ \A i \in DOMAIN files' : files'[i] \in Nat
      BY <2>1, <3>2 DEF TypeOK
    <3> QED BY <2>1, <3>3, <3>4, <3>5 DEF TypeOK
  <2>4. BytesAccounted'
    BY <2>1, <2>2 DEF BytesAccounted, FreshMetrics
  <2> QED BY <2>1, <2>2, <2>3, <2>4
<1>7. CASE ClockMoves
  <2>1. UNCHANGED <<up, artifacts, files, total_bytes, metrics, written, outcome,
                    issued, swept>>
    BY <1>7 DEF ClockMoves
  <2>2. now' \in Nat
    BY <1>7, RetentionAssumption DEF ClockMoves
  <2>3. TypeOK'
    BY <2>1, <2>2 DEF TypeOK
  <2>4. BytesAccounted'
    BY <2>1 DEF BytesAccounted
  <2> QED BY <2>1, <2>3, <2>4
<1>8. CASE UNCHANGED vars
  BY <1>8 DEF vars, TypeOK, BytesAccounted
<1> QED BY <1>1, <1>2, <1>3, <1>4, <1>5, <1>6, <1>7, <1>8 DEF Next

\* The inductive invariant of the store's accounts.
THEOREM AccountsInvariant == Spec => []BytesInv
<1>1. Init => BytesInv
  BY BytesInit
<1>2. BytesInv /\ [Next]_vars => BytesInv'
  BY BytesStep
<1> QED BY <1>1, <1>2, PTL DEF Spec

\* Records, files, totals and metrics keep their types, whatever fails.
THEOREM StoreTypeCorrect == Spec => []TypeOK
<1>1. BytesInv => TypeOK
  BY DEF BytesInv
<1> QED BY <1>1, AccountsInvariant, PTL

\* No failure makes total_bytes fall below what is on record or counts a byte
\* twice, and a write or cleanup that succeeds enforces max_bytes.
THEOREM AccountsAreKept == Spec => []BytesAccounted
<1>1. BytesInv => BytesAccounted
  BY DEF BytesInv
<1> QED BY <1>1, AccountsInvariant, PTL

-----------------------------------------------------------------------------
(* What evictions take.                                                    *)

\* The newest of the evicted could not have stayed.
LEMMA EvictedForGood ==
    ASSUME NEW recs, Sized(recs), now \in Nat,
           NEW evicted \in SUBSET ToRemove(recs, Bytes(recs)), evicted # {},
           \A i \in evicted : i \notin Expired(recs),
           \A j \in ToRemove(recs, Bytes(recs)) : j \in evicted \/ j \in Expired(recs)
    PROVE  LET kept == Without(recs, ToRemove(recs, Bytes(recs))) IN
           \E i \in evicted :
              \/ Cardinality(DOMAIN kept) + 1 > MaxCount
              \/ Bytes(kept) + recs[i].size > MaxBytes
<1> DEFINE D == DOMAIN recs
           total == Bytes(recs)
           gone == ToRemove(recs, total)
           rest == D \ gone
           kept == Without(recs, gone)
           w == Size(recs)
<1>1. /\ WellFormed(recs) /\ IsFiniteSet(D) /\ Weights(w, D)
      /\ gone \in SUBSET D /\ evicted \in SUBSET D
  BY DEF Sized, WellFormed, Weights, Size, ToRemove
<1>2. PICK i \in evicted : \A j \in evicted : j = i \/ Older(recs, j, i)
  BY <1>1, NewestExists
<1> DEFINE before == OlderThan(recs, i)
<1>3. i \in gone /\ i \notin Expired(recs) /\ i \in D /\ recs[i].size \in Nat
  BY <1>1 DEF Sized
<1>4. OverLimit(recs, total, i)
  BY <1>3 DEF ToRemove
<1>5. D \ before \subseteq rest \cup {i}
  <2> SUFFICES ASSUME NEW j \in D, j \notin before, j # i, j \in gone PROVE FALSE
    OBVIOUS
  <2>1. Older(recs, i, j)
    BY <1>1, <1>3, OlderIsAnOrder DEF OlderThan
  <2>2. j \notin Expired(recs)
    <3>1. recs[i].created \in Nat /\ recs[j].created \in Nat
      BY <1>1, <1>3 DEF WellFormed
    <3>2. recs[i].created <= recs[j].created
      BY <2>1, <3>1 DEF Older
    <3> QED BY <1>3, <3>1, <3>2, RetentionAssumption DEF Expired
  <2>3. Older(recs, j, i)
    BY <1>2, <2>2
  <2> QED BY <1>1, <1>3, <2>1, <2>3, OlderIsAnOrder
<1>6. IsFiniteSet(rest) /\ IsFiniteSet(rest \cup {i}) /\ rest \subseteq D /\ i \notin rest
  <2>1. IsFiniteSet(rest)
    BY <1>1, FS_Subset
  <2>2. IsFiniteSet(rest \cup {i})
    <3> HIDE DEF rest
    <3> QED BY <2>1, FS_AddElement
  <2> QED BY <1>3, <2>1, <2>2
<1>7. DOMAIN kept = rest
  BY DEF Without
<1>8. CASE Cardinality(D \ before) > MaxCount
  <2>1. /\ Cardinality(D \ before) <= Cardinality(rest \cup {i})
        /\ Cardinality(rest \cup {i}) = Cardinality(rest) + 1
        /\ IsFiniteSet(D \ before)
    <3> HIDE DEF rest, before, D
    <3> QED BY <1>5, <1>6, FS_Subset, FS_AddElement
  <2>2. Cardinality(rest) \in Nat /\ Cardinality(D \ before) \in Nat
    <3> HIDE DEF rest, before, D
    <3> QED BY <1>6, <2>1, FS_CardinalityType
  <2>3. Cardinality(rest) + 1 > MaxCount
    <3> HIDE DEF rest, before, D
    <3> QED BY <1>8, <2>1, <2>2, RetentionAssumption
  <2> HIDE DEF rest, kept, gone
  <2> QED BY <1>7, <2>3 DEF kept, gone, total
<1>9. CASE total - Bytes(Only(recs, before)) > MaxBytes
  <2>1. /\ total = Bytes(Only(recs, before)) + Bytes(Without(recs, before))
        /\ Bytes(Without(recs, before)) = Total(w, D \ before)
        /\ {total, Bytes(Only(recs, before)), Bytes(Without(recs, before))} \subseteq Nat
    <3>1. before \in SUBSET DOMAIN recs
      BY DEF OlderThan
    <3> HIDE DEF before
    <3> QED BY <3>1, BytesSplit
  <2>2. Bytes(kept) = Total(w, rest)
    <3> HIDE DEF gone
    <3> QED BY <1>1, BytesSplit
  <2>3. Weights(w, rest \cup {i}) /\ w[i] = recs[i].size
    <3>1. w[i] = recs[i].size
      BY <1>3 DEF Size
    <3> HIDE DEF rest, w
    <3> QED BY <1>1, <1>3, <1>6, <3>1 DEF Weights
  <2>4. Total(w, rest \cup {i}) = w[i] + Total(w, rest)
    <3>1. (rest \cup {i}) \ {i} = rest /\ i \in rest \cup {i}
      BY <1>6
    <3> HIDE DEF rest, w
    <3> QED BY <1>6, <2>3, <3>1, TotalPick
  <2>5. /\ Total(w, rest \cup {i})
           = Total(w, D \ before) + Total(w, (rest \cup {i}) \ (D \ before))
        /\ Total(w, D \ before) \in Nat
        /\ Total(w, (rest \cup {i}) \ (D \ before)) \in Nat
    <3> HIDE DEF rest, before, D, w
    <3> QED BY <1>5, <1>6, <2>3, TotalSplit
  <2>6. Total(w, rest) \in Nat
    <3> HIDE DEF rest, w
    <3>1. Weights(w, rest)
      BY <2>3 DEF Weights
    <3> QED BY <1>6, <3>1, TotalType
  <2> HIDE DEF rest, before, D, w, kept, gone, total
  <2>7. Bytes(kept) + recs[i].size > MaxBytes
    BY <1>3, <1>9, <2>1, <2>2, <2>3, <2>4, <2>5, <2>6, RetentionAssumption
  <2> QED BY <2>7 DEF kept, gone, total
<1> QED BY <1>4, <1>8, <1>9 DEF OverLimit

\* A step of the running store either leaves the records alone or cleans up.
LEMMA RunningSteps ==
    ASSUME BytesInv, [Next]_vars, up, up'
    PROVE  \/ artifacts' = artifacts /\ (outcome' = "ok" => issued' = issued)
           \/ /\ issued' = issued
              /\ \/ CleanupCompletes(artifacts, total_bytes, files)
                 \/ CleanupFails(artifacts, total_bytes, files)
           \/ \E i \in Ids \ (issued \cup DOMAIN files), size \in Sizes :
                /\ issued' = issued \cup {i}
                /\ \/ CleanupCompletes(Put(artifacts, i, [size |-> size, created |-> now]),
                                       total_bytes + size, Put(files, i, size))
                   \/ CleanupFails(Put(artifacts, i, [size |-> size, created |-> now]),
                                   total_bytes + size, Put(files, i, size))
<1>1. CASE Startup \/ StartupFails \/ Crash
  BY <1>1 DEF Startup, StartupFails, Crash
<1>2. CASE WriteBytes
  BY <1>2 DEF WriteBytes
<1>3. CASE WriteFails \/ ClockMoves \/ UNCHANGED vars
  BY <1>3 DEF WriteFails, ClockMoves, vars
<1>4. CASE PeriodicCleanup
  BY <1>4 DEF PeriodicCleanup
<1> QED BY <1>1, <1>2, <1>3, <1>4 DEF Next

\* What a write is given is what the lemmas ask for.
LEMMA WriteIsSized ==
    ASSUME BytesInv, NEW i \in Ids \ (issued \cup DOMAIN files), NEW size \in Sizes
    PROVE  LET recs == Put(artifacts, i, [size |-> size, created |-> now]) IN
           /\ Sized(artifacts) /\ Sized(recs) /\ Bytes(recs) = Bytes(artifacts) + size
           /\ DOMAIN recs = DOMAIN artifacts \cup {i} /\ i \notin DOMAIN artifacts
           /\ \A j \in DOMAIN artifacts : recs[j] = artifacts[j]
           /\ total_bytes + size \in Int /\ now \in Nat
<1>1. Sized(artifacts) /\ size \in Nat /\ now \in Nat /\ total_bytes \in Nat
  BY RetentionAssumption DEF BytesInv, TypeOK, Sized
<1>2. i \notin DOMAIN artifacts
  BY DEF BytesInv, TypeOK
<1>3. /\ Sized(Put(artifacts, i, [size |-> size, created |-> now]))
      /\ Bytes(Put(artifacts, i, [size |-> size, created |-> now])) = Bytes(artifacts) + size
  BY <1>1, <1>2, BytesPut
<1>4. \A j \in DOMAIN artifacts :
         Put(artifacts, i, [size |-> size, created |-> now])[j] = artifacts[j]
  BY <1>2 DEF Put
<1> QED BY <1>1, <1>2, <1>3, <1>4 DEF Put

LEMMA RecordsAreSized ==
    BytesInv => Sized(artifacts) /\ now \in Nat /\ total_bytes \in Int
<1> SUFFICES ASSUME BytesInv PROVE Sized(artifacts) /\ now \in Nat /\ total_bytes \in Int
  OBVIOUS
<1>1. Sized(artifacts)
  BY RetentionAssumption DEF BytesInv, TypeOK, Sized
<1>2. now \in Nat /\ total_bytes \in Nat
  BY DEF BytesInv, TypeOK
<1> QED BY <1>1, <1>2

LEMMA EvictionOrder ==
    ASSUME BytesInv, [Next]_vars, up, up',
           NEW i \in DOMAIN artifacts \ DOMAIN artifacts', NEW j \in DOMAIN artifacts'
    PROVE  LET recs == [k \in DOMAIN artifacts \cup DOMAIN artifacts' |->
                          IF k \in DOMAIN artifacts THEN artifacts[k] ELSE artifacts'[k]]
           IN  Older(recs, i, j)
<1>0. Sized(artifacts) /\ now \in Nat /\ total_bytes \in Int
  BY RecordsAreSized
<1>1. CASE artifacts' = artifacts
  BY <1>1
<1>2. CASE \/ CleanupCompletes(artifacts, total_bytes, files)
           \/ CleanupFails(artifacts, total_bytes, files)
  <2>1. /\ Older(artifacts, i, j)
        /\ DOMAIN artifacts' \subseteq DOMAIN artifacts
    BY <1>0, <1>2, CleanupGoesByAge
  <2> QED BY <2>1 DEF Older
<1>3. CASE \E k \in Ids \ (issued \cup DOMAIN files), size \in Sizes :
             \/ CleanupCompletes(Put(artifacts, k, [size |-> size, created |-> now]),
                                 total_bytes + size, Put(files, k, size))
             \/ CleanupFails(Put(artifacts, k, [size |-> size, created |-> now]),
                             total_bytes + size, Put(files, k, size))
  <2>1. PICK k \in Ids \ (issued \cup DOMAIN files), size \in Sizes :
             \/ CleanupCompletes(Put(artifacts, k, [size |-> size, created |-> now]),
                                 total_bytes + size, Put(files, k, size))
             \/ CleanupFails(Put(artifacts, k, [size |-> size, created |-> now]),
                             total_bytes + size, Put(files, k, size))
    BY <1>3
  <2> DEFINE recs == Put(artifacts, k, [size |-> size, created |-> now])
  <2>2. /\ Sized(recs) /\ DOMAIN recs = DOMAIN artifacts \cup {k}
        /\ \A m \in DOMAIN artifacts : recs[m] = artifacts[m]
        /\ total_bytes + size \in Int
    BY WriteIsSized
  <2> HIDE DEF recs
  <2>3. /\ Older(recs, i, j)
        /\ DOMAIN artifacts' \subseteq DOMAIN recs
        /\ artifacts'[j] = recs[j]
    BY <1>0, <2>1, <2>2, CleanupGoesByAge DEF recs
  <2> QED BY <2>2, <2>3 DEF Older
<1> QED BY <1>1, <1>2, <1>3, RunningSteps

\* The store evicts in the order of age, also when a deletion fails half way.
THEOREM EvictionsGoByAge == Spec => EvictsOldestFirst
<1>1. BytesInv /\ [Next]_vars =>
        [LET recs == [i \in DOMAIN artifacts \cup DOMAIN artifacts' |->
                        IF i \in DOMAIN artifacts THEN artifacts[i] ELSE artifacts'[i]]
         IN  up /\ up' =>
               \A i \in DOMAIN artifacts \ DOMAIN artifacts', j \in DOMAIN artifacts' :
                   Older(recs, i, j)]_vars
  BY EvictionOrder
<1> QED BY <1>1, AccountsInvariant, PTL DEF Spec, EvictsOldestFirst

LEMMA EvictionNeed ==
    ASSUME BytesInv, [Next]_vars, up, up', outcome' = "ok",
           total_bytes = Bytes(artifacts),
           issued' \ issued \subseteq DOMAIN artifacts',
           DOMAIN artifacts \ (DOMAIN artifacts' \cup Expired(artifacts)) # {}
    PROVE  \E i \in DOMAIN artifacts \ (DOMAIN artifacts' \cup Expired(artifacts)) :
              \/ Cardinality(DOMAIN artifacts') + 1 > MaxCount
              \/ Bytes(artifacts') + artifacts[i].size > MaxBytes
<1> DEFINE evicted == DOMAIN artifacts \ (DOMAIN artifacts' \cup Expired(artifacts))
<1>0. Sized(artifacts) /\ now \in Nat /\ total_bytes \in Int
  BY RecordsAreSized
<1>1. CASE artifacts' = artifacts
  BY <1>1
<1>2. CASE CleanupCompletes(artifacts, total_bytes, files)
  <2> DEFINE gone == ToRemove(artifacts, Bytes(artifacts))
  <2>1. artifacts' = Without(artifacts, gone)
    BY <1>2 DEF CleanupCompletes
  <2>2. /\ evicted \in SUBSET gone /\ evicted # {}
        /\ \A i \in evicted : i \notin Expired(artifacts)
        /\ \A j \in gone : j \in evicted \/ j \in Expired(artifacts)
    BY <2>1 DEF Without, ToRemove
  <2> HIDE DEF evicted
  <2>3. \E i \in evicted :
              \/ Cardinality(DOMAIN artifacts') + 1 > MaxCount
              \/ Bytes(artifacts') + artifacts[i].size > MaxBytes
    BY <1>0, <2>1, <2>2, EvictedForGood
  <2> QED BY <2>3 DEF evicted
<1>3. CASE \E k \in Ids \ (issued \cup DOMAIN files), size \in Sizes :
             /\ issued' = issued \cup {k}
             /\ CleanupCompletes(Put(artifacts, k, [size |-> size, created |-> now]),
                                 total_bytes + size, Put(files, k, size))
  <2>1. PICK k \in Ids \ (issued \cup DOMAIN files), size \in Sizes :
             /\ issued' = issued \cup {k}
             /\ CleanupCompletes(Put(artifacts, k, [size |-> size, created |-> now]),
                                 total_bytes + size, Put(files, k, size))
    BY <1>3
  <2> DEFINE recs == Put(artifacts, k, [size |-> size, created |-> now])
             gone == ToRemove(recs, Bytes(recs))
  <2>2. /\ Sized(recs) /\ Bytes(recs) = total_bytes + size
        /\ DOMAIN recs = DOMAIN artifacts \cup {k} /\ k \notin DOMAIN artifacts
        /\ \A m \in DOMAIN artifacts : recs[m] = artifacts[m]
    BY WriteIsSized
  <2>3. artifacts' = Without(recs, gone)
    <3> HIDE DEF recs
    <3> QED BY <2>1, <2>2 DEF CleanupCompletes, recs
  <2> HIDE DEF recs
  <2>4. k \in DOMAIN artifacts'
    BY <2>1
  <2>5. \A m \in DOMAIN artifacts : m \in Expired(artifacts) <=> m \in Expired(recs)
    BY <2>2 DEF Expired
  <2>6. /\ evicted \in SUBSET gone /\ evicted # {}
        /\ \A i \in evicted : i \notin Expired(recs)
        /\ \A j \in gone : j \in evicted \/ j \in Expired(recs)
    <3>1. DOMAIN artifacts' = DOMAIN recs \ gone /\ gone \subseteq DOMAIN recs
      BY <2>3 DEF Without, ToRemove
    <3> HIDE DEF gone
    <3> QED BY <2>2, <2>4, <2>5, <3>1
  <2> HIDE DEF evicted
  <2>7. \E i \in evicted :
              \/ Cardinality(DOMAIN artifacts') + 1 > MaxCount
              \/ Bytes(artifacts') + recs[i].size > MaxBytes
    BY <1>0, <2>2, <2>3, <2>6, EvictedForGood
  <2> QED BY <2>2, <2>7 DEF evicted
<1>4. ASSUME NEW recs, NEW total, NEW disk PROVE ~CleanupFails(recs, total, disk)
  BY DEF CleanupFails
<1> QED BY <1>1, <1>2, <1>3, <1>4, RunningSteps

\* While the total is exact, nothing is evicted that could have stayed.
THEOREM EvictionsAreNeeded == Spec => EvictsOnlyWhatItMust
<1>1. BytesInv /\ [Next]_vars =>
        [LET evicted == DOMAIN artifacts \ (DOMAIN artifacts' \cup Expired(artifacts))
         IN  /\ up /\ up' /\ outcome' = "ok"
             /\ total_bytes = Bytes(artifacts)
             /\ issued' \ issued \subseteq DOMAIN artifacts'
             /\ evicted # {}
             => \E i \in evicted :
                   \/ Cardinality(DOMAIN artifacts') + 1 > MaxCount
                   \/ Bytes(artifacts') + artifacts[i].size > MaxBytes]_vars
  BY EvictionNeed
<1> QED BY <1>1, AccountsInvariant, PTL DEF Spec, EvictsOnlyWhatItMust

=============================================================================

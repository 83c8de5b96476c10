------------------------ MODULE PluginManagerProofs ------------------------
(***************************************************************************)
(* Proofs about the installed plugins, for any number of processes and     *)
(* plugins, any versions and requirements and every keepVersions.          *)
(*                                                                         *)
(* ManagerInv puts together what each property needs: CoherenceInv, that   *)
(* the registry put aside and the one accepted are coherent as well;       *)
(* PlanInv, what a transaction knows at each of its stages; TreeInv,       *)
(* PlaceInv and ServedInv, what holds of the disk short of the mishaps     *)
(* that the properties except.                                             *)
(***************************************************************************)
EXTENDS PluginManager, SequenceTheorems, FiniteSetTheorems, WellFoundedInduction, TLAPS

\* A nonempty set of naturals has a least element.
LEMMA HasLeast ==
    ASSUME NEW K \in SUBSET Nat, K # {}
    PROVE  \E m \in K : \A k \in K : m <= k
<1>1. PICK m \in K : \A k \in K : ~(<<k, m>> \in OpToRel(<, Nat))
  BY NatLessThanWellFounded, WFMin
<1>2. ASSUME NEW k \in K PROVE m <= k
  <2>1. k \in Nat /\ m \in Nat
    OBVIOUS
  <2>2. ~(<<k, m>> \in OpToRel(<, Nat))
    BY <1>1
  <2>3. ~(k < m)
    BY <2>1, <2>2 DEF OpToRel
  <2>4. QED
    BY <2>1, <2>3
<1>3. QED
  BY <1>2

Ascending(s) == \A j, k \in DOMAIN s : j < k => s[j] < s[k]

(* A finite set of numbers can be put in ascending order: a smallest one   *)
(* that cannot would, without its least element, be smaller still.         *)
LEMMA AscendingExists ==
    ASSUME NEW K \in SUBSET Nat, IsFiniteSet(K)
    PROVE  \E s \in [1 .. Cardinality(K) -> K] : Ascending(s)
<1> DEFINE Ordered(n) == \A S \in SUBSET Nat :
                            IsFiniteSet(S) /\ Cardinality(S) = n =>
                               \E s \in [1 .. n -> S] : Ascending(s)
           Bad == {n \in Nat : ~Ordered(n)}
<1>1. ASSUME NEW n \in Bad, \A m \in Bad : n <= m
      PROVE  FALSE
  <2>1. n \in Nat /\ ~Ordered(n)
    <3> HIDE DEF Ordered
    <3>1. QED
      OBVIOUS
  <2>2. PICK S \in SUBSET Nat : /\ IsFiniteSet(S) /\ Cardinality(S) = n
                                /\ ~\E s \in [1 .. n -> S] : Ascending(s)
    BY <2>1, Zenon
  <2>3. CASE n = 0
    <3> DEFINE s == [k \in 1 .. 0 |-> 0]
    <3>1. s \in [1 .. n -> S] /\ Ascending(s)
      BY <2>3 DEF Ascending
    <3>2. QED
      BY <2>2, <3>1
  <2>4. CASE n # 0
    <3>1. S # {}
      BY <2>2, <2>4, FS_EmptySet
    <3>2. PICK m \in S : \A k \in S : m <= k
      BY <3>1, HasLeast
    <3> DEFINE T == S \ {m}
    <3>3. IsFiniteSet(T) /\ Cardinality(T) = n - 1 /\ T \in SUBSET Nat
      BY <2>2, FS_RemoveElement
    <3>4. Ordered(n - 1)
      <4>1. n - 1 \in Nat /\ ~(n <= n - 1)
        BY <2>1, <2>4
      <4> HIDE DEF Ordered
      <4>2. QED
        BY <1>1, <4>1
    <3> HIDE DEF T
    <3>5. PICK t \in [1 .. n - 1 -> T] : Ascending(t)
      BY <3>3, <3>4
    <3> DEFINE s == [k \in 1 .. n |-> IF k = 1 THEN m ELSE t[k - 1]]
    <3>6. \A k \in 1 .. n : k # 1 => k - 1 \in 1 .. n - 1
      BY <2>1
    <3>7. \A k \in 1 .. n - 1 : t[k] \in S /\ t[k] \in Nat /\ m < t[k]
      <4>1. ASSUME NEW k \in 1 .. n - 1 PROVE t[k] \in S /\ t[k] # m
        BY <3>5 DEF T
      <4>2. \A x \in S : x # m => m < x /\ x \in Nat
        BY <3>2
      <4>3. QED
        BY <4>1, <4>2
    <3>8. s \in [1 .. n -> S]
      BY <3>6, <3>7
    <3>9. Ascending(s)
      <4>1. ASSUME NEW j \in 1 .. n, NEW k \in 1 .. n, j < k
            PROVE  s[j] < s[k]
        <5>1. k # 1 /\ k - 1 \in 1 .. n - 1 /\ s[k] = t[k - 1]
          BY <4>1, <2>1
        <5>2. CASE j = 1
          BY <5>1, <5>2, <3>7
        <5>3. CASE j # 1
          <6>1. j - 1 \in 1 .. n - 1 /\ j - 1 < k - 1 /\ s[j] = t[j - 1]
            BY <4>1, <5>3, <2>1
          <6>2. QED
            BY <3>5, <5>1, <6>1 DEF Ascending
        <5>4. QED
          BY <5>2, <5>3
      <4>2. QED
        BY <4>1 DEF Ascending
    <3> HIDE DEF s
    <3>10. QED
      BY <2>2, <3>8, <3>9
  <2>5. QED
    BY <2>3, <2>4
<1>2. Bad = {}
  <2>1. Bad \in SUBSET Nat
    OBVIOUS
  <2> HIDE DEF Bad
  <2>2. QED
    BY <1>1, <2>1, HasLeast
<1>3. Cardinality(K) \in Nat
  BY FS_CardinalityType
<1>4. QED
  BY <1>2, <1>3

CoherenceInv ==
    /\ Coherent(registry)
    /\ txn.stage # "none" => Coherent(txn.saved)
    /\ txn.stage = "accepted" => Coherent(txn.registry)

\* Plugins can be dropped from a registry without making it incoherent.
LEMMA DroppedIsCoherent ==
    ASSUME NEW reg, NEW xs, Coherent(reg)
    PROVE  Coherent(Dropped(reg, xs))
BY DEF Coherent, Installed, Dropped

LEMMA InitIsCoherent == Init => CoherenceInv
BY DEF Init, CoherenceInv, Coherent, Installed, NoTxn

\* A step that leaves the registry file and what is put aside alone, and
\* does not bring the transaction to "accepted".
LEMMA NothingStored ==
    ASSUME CoherenceInv, UNCHANGED registry,
           \/ txn'.stage = "none"
           \/ txn.stage # "none" /\ txn'.saved = txn.saved /\ txn'.stage # "accepted"
    PROVE  CoherenceInv'
BY DEF CoherenceInv, Coherent, Installed

\* The mutations, up to the end of a transaction.
LEMMA MutationIsCoherent ==
    ASSUME NEW p \in Process, CoherenceInv, Mutates(p)
    PROVE  CoherenceInv'
<1>1. ASSUME NEW x \in Plugin, NEW v \in Versions,
             Install(p, x, v) \/ Update(p, x, v) \/ Rollback(p, x, v)
      PROVE  CoherenceInv'
  <2>1. /\ UNCHANGED registry
        /\ txn.stage # "none" /\ txn'.saved = txn.saved /\ txn'.stage # "accepted"
    BY <1>1 DEF Install, Update, Rollback, At, Works
  <2> QED BY <2>1, NothingStored
<1>2. ASSUME NEW x \in Plugin, Enable(p, x) \/ Disable(p, x)
      PROVE  CoherenceInv'
  <2>1. /\ UNCHANGED registry
        /\ txn.stage # "none" /\ txn'.saved = txn.saved /\ txn'.stage # "accepted"
    BY <1>2 DEF Enable, Disable, At, Works, disk
  <2> QED BY <2>1, NothingStored
<1>3. ASSUME NEW x \in Plugin, Uninstall(p, x)
      PROVE  CoherenceInv'
  <2>1. /\ registry' = registry
        /\ txn.stage = "begun" /\ txn'.stage = "accepted"
        /\ txn'.saved = txn.saved /\ txn'.registry = Dropped(registry, {x})
    BY <1>3 DEF Uninstall, At, Works
  <2>2. Coherent(Dropped(registry, {x}))
    BY DroppedIsCoherent DEF CoherenceInv
  <2> QED BY <2>1, <2>2 DEF CoherenceInv, Coherent, Installed
<1>4. CASE CopyIn(p) \/ Enrol(p)
  <2>1. /\ UNCHANGED registry
        /\ txn.stage # "none" /\ txn'.saved = txn.saved /\ txn'.stage # "accepted"
    BY <1>4 DEF CopyIn, Enrol, At, Goes, Works
  <2> QED BY <2>1, NothingStored
<1>5. CASE Accept(p)
  <2>1. /\ registry' = registry
        /\ txn.stage = "enrolled" /\ txn'.stage = "accepted"
        /\ txn'.saved = txn.saved /\ txn'.registry = txn.registry
        /\ Coherent(txn.registry)
    BY <1>5 DEF Accept, At, Goes, Works, disk
  <2> QED BY <2>1 DEF CoherenceInv, Coherent, Installed
<1>6. CASE Store(p)
  <2>1. /\ registry' = txn.registry
        /\ txn.stage = "accepted" /\ txn'.stage \in {"stored", "done"}
        /\ txn'.saved = txn.saved
    BY <1>6 DEF Store, At, Goes, Turns, Works
  <2> QED BY <2>1 DEF CoherenceInv, Coherent, Installed
<1>7. CASE WriteSettings(p)
  <2>1. /\ UNCHANGED registry
        /\ txn.stage # "none" /\ txn'.saved = txn.saved /\ txn'.stage # "accepted"
    BY <1>7 DEF WriteSettings, At, Turns
  <2> QED BY <2>1, NothingStored
<1>8. CASE Finish(p)
  <2>1. UNCHANGED registry /\ txn'.stage = "none"
    BY <1>8 DEF Finish, Release, NoTxn, disk
  <2> QED BY <2>1, NothingStored
<1> QED BY <1>1, <1>2, <1>3, <1>4, <1>5, <1>6, <1>7, <1>8 DEF Mutates

\* A failure, and each step of putting things back.
LEMMA RestorationIsCoherent ==
    ASSUME NEW p \in Process, CoherenceInv, Restores(p)
    PROVE  CoherenceInv'
<1>1. CASE Fails(p)
  <2>1. UNCHANGED registry
    BY <1>1 DEF Fails, disk
  <2>2. txn.stage \in Forward /\ txn'.saved = txn.saved /\ txn'.stage = "failed"
    BY <1>1 DEF Fails, Turns
  <2> QED BY <2>1, <2>2, NothingStored DEF Forward
<1>2. CASE Wipe(p)
  BY <1>2, NothingStored DEF Wipe, At, Turns
<1>3. CASE CopyBack(p)
  BY <1>3, NothingStored DEF CopyBack, At, Turns
<1>4. CASE StoreBack(p)
  <2>1. /\ registry' = txn.saved
        /\ txn.stage = "tree back" /\ txn'.stage = "registry back"
        /\ txn'.saved = txn.saved
    BY <1>4 DEF StoreBack, At, Turns
  <2> QED BY <2>1 DEF CoherenceInv, Coherent, Installed
<1>5. CASE SettingsBack(p)
  <2>1. UNCHANGED registry /\ txn' = NoTxn
    BY <1>5 DEF SettingsBack, Release
  <2> QED BY <2>1, NothingStored DEF NoTxn
<1>6. CASE RestoreFails(p)
  <2>1. UNCHANGED registry /\ txn' = NoTxn
    BY <1>6 DEF RestoreFails, Release, disk
  <2> QED BY <2>1, NothingStored DEF NoTxn
<1> QED BY <1>1, <1>2, <1>3, <1>4, <1>5, <1>6 DEF Restores

LEMMA StepIsCoherent == CoherenceInv /\ [Next]_vars => CoherenceInv'
<1> SUFFICES ASSUME CoherenceInv, [Next]_vars PROVE CoherenceInv'
  OBVIOUS
<1>1. CASE UNCHANGED vars
  BY <1>1 DEF vars, CoherenceInv, Coherent, Installed
<1>2. ASSUME NEW p \in Process, Begin(p) \/ GiveUp(p) \/ CrashWaiting(p)
      PROVE  CoherenceInv'
  <2>1. UNCHANGED <<registry, txn>>
    BY <1>2 DEF Begin, GiveUp, CrashWaiting, disk
  <2> QED BY <2>1 DEF CoherenceInv, Coherent, Installed
<1>3. ASSUME NEW p \in Process, Lock(p)
      PROVE  CoherenceInv'
  <2>1. registry' = registry /\ txn'.stage = "begun" /\ txn'.saved = registry
    BY <1>3 DEF Lock, disk
  <2> QED BY <2>1 DEF CoherenceInv, Coherent, Installed
<1>4. ASSUME NEW p \in Process, Crash(p)
      PROVE  CoherenceInv'
  <2>1. UNCHANGED registry /\ txn'.stage = "none"
    BY <1>4 DEF Crash, Release, NoTxn, disk
  <2> QED BY <2>1, NothingStored
<1>5. ASSUME NEW p \in Process, CleanUp(p)
      PROVE  CoherenceInv'
  <2>1. registry' = Dropped(registry, Stale) /\ txn' = txn /\ txn.stage = "none"
    BY <1>5 DEF CleanUp, Free, NoTxn
  <2>2. Coherent(Dropped(registry, Stale))
    BY DroppedIsCoherent DEF CoherenceInv
  <2> QED BY <2>1, <2>2 DEF CoherenceInv, Coherent, Installed
<1> QED
  BY <1>1, <1>2, <1>3, <1>4, <1>5, MutationIsCoherent, RestorationIsCoherent DEF Next, Proceeds

\* The registry file never names an active version without a record or
\* records of a plugin that is not installed: nothing a command, a failure or
\* a crash does to the file makes the validation of it refuse later commands.
THEOREM ManagerRegistryIsCoherent == Spec => []RegistryIsCoherent
<1>1. CoherenceInv => RegistryIsCoherent
  BY DEF CoherenceInv, RegistryIsCoherent
<1> QED BY <1>1, InitIsCoherent, StepIsCoherent, PTL DEF Spec

-----------------------------------------------------------------------------
(* The version records.                                                    *)
LEMMA PlacesAreFinite ==
    ASSUME NEW S, NEW kept \in Seq(S), NEW places \in SUBSET DOMAIN kept
    PROVE  /\ DOMAIN kept = 1 .. Len(kept) /\ Len(kept) \in Nat
           /\ IsFiniteSet(places) /\ Cardinality(places) \in Nat
           /\ Cardinality(places) <= Len(kept)
<1>1. DOMAIN kept = 1 .. Len(kept) /\ Len(kept) \in Nat
  BY LenProperties
<1>2. IsFiniteSet(1 .. Len(kept)) /\ Cardinality(1 .. Len(kept)) = Len(kept)
  <2>1. \A n \in Nat : IsFiniteSet(1 .. n) /\ Cardinality(1 .. n) = n
    <3>1. ASSUME NEW n \in Nat PROVE IsFiniteSet(1 .. n) /\ Cardinality(1 .. n) = n
      BY FS_Interval
    <3>2. QED
      BY <3>1
  <2>2. QED
    BY <1>1, <2>1
<1>3. IsFiniteSet(places) /\ Cardinality(places) <= Len(kept)
  BY <1>1, <1>2, FS_Subset
<1>4. QED
  BY <1>1, <1>3, FS_CardinalityType

(* Selecting records by their places keeps those and no others, in their   *)
(* order: the last place of all stays the last.                            *)
LEMMA OnlyKeeps ==
    ASSUME NEW S, NEW kept \in Seq(S), NEW places \in SUBSET DOMAIN kept
    PROVE  /\ Only(kept, places) \in Seq(S)
           /\ Len(Only(kept, places)) = Cardinality(places)
           /\ Range(Only(kept, places)) = {kept[i] : i \in places}
           /\ Len(kept) \in places =>
                 /\ Only(kept, places) # <<>>
                 /\ Only(kept, places)[Len(Only(kept, places))] = kept[Len(kept)]
<1> DEFINE n == Cardinality(places)
           order == CHOOSE f \in [1 .. Cardinality(places) -> places] :
                        \A i, j \in DOMAIN f : i < j => f[i] < f[j]
<1>1. /\ DOMAIN kept = 1 .. Len(kept) /\ Len(kept) \in Nat
      /\ IsFiniteSet(places) /\ n \in Nat
  BY PlacesAreFinite
<1>2. places \in SUBSET Nat
  BY <1>1
<1>3. Only(kept, places) = [i \in DOMAIN order |-> kept[order[i]]]
  BY DEF Only
<1>4. order \in [1 .. n -> places] /\ \A i, j \in DOMAIN order : i < j => order[i] < order[j]
  <2>1. \E f \in [1 .. n -> places] : \A i, j \in DOMAIN f : i < j => f[i] < f[j]
    BY <1>1, <1>2, AscendingExists DEF Ascending
  <2>2. QED
    BY <2>1
<1> HIDE DEF order
<1>5. Only(kept, places) = [i \in 1 .. n |-> kept[order[i]]]
  BY <1>3, <1>4
<1>6. \A i \in 1 .. n : order[i] \in places /\ kept[order[i]] \in S
  BY <1>1, <1>4, ElementOfSeq
<1>7. Only(kept, places) \in [1 .. n -> S]
  BY <1>5, <1>6
<1>8. Only(kept, places) \in Seq(S) /\ Len(Only(kept, places)) = n
  BY <1>1, <1>7
<1>9. order \in Surjection(1 .. n, places)
  <2>1. order \in Injection(1 .. n, places)
    <3>1. ASSUME NEW i \in 1 .. n, NEW j \in 1 .. n, order[i] = order[j]
          PROVE  i = j
      <4>1. order[i] \in Nat /\ order[j] \in Nat
        BY <1>2, <1>4
      <4>2. ~(i < j) /\ ~(j < i)
        BY <1>4, <3>1, <4>1
      <4>3. QED
        BY <4>2
    <3>2. QED
      BY <1>4, <3>1 DEF Injection, IsInjective
  <2>2. IsFiniteSet(1 .. n) /\ Cardinality(1 .. n) = n
    BY <1>1, FS_Interval
  <2>3. QED
    BY <1>1, <2>1, <2>2, FS_Injection
<1>10. Range(Only(kept, places)) = {kept[i] : i \in places}
  <2>1. \A i \in places : \E j \in 1 .. n : order[j] = i
    BY <1>9 DEF Surjection
  <2>2. Range(Only(kept, places)) = {kept[order[j]] : j \in 1 .. n}
    BY <1>5 DEF Range
  <2>3. QED
    BY <1>4, <2>1, <2>2
<1>11. ASSUME Len(kept) \in places
       PROVE  Only(kept, places) # <<>> /\ Only(kept, places)[n] = kept[Len(kept)]
  <2>1. PICK j \in 1 .. n : order[j] = Len(kept)
    BY <1>9, <1>11 DEF Surjection
  <2>2. n \in 1 .. n
    BY <1>1, <2>1
  <2>3. order[n] \in 1 .. Len(kept)
    BY <1>1, <1>4, <2>2
  <2>4. j = n
    <3>1. CASE j < n
      <4>1. order[j] < order[n]
        BY <1>4, <2>2, <3>1
      <4>2. QED
        BY <1>1, <2>1, <2>3, <4>1
    <3>2. QED
      BY <1>1, <3>1
  <2>5. Only(kept, places)[n] = kept[Len(kept)]
    BY <1>5, <2>1, <2>2, <2>4
  <2>6. Len(Only(kept, places)) # 0
    BY <1>8, <2>2, <1>1
  <2>7. QED
    BY <2>5, <2>6
<1>12. QED
  BY <1>8, <1>10, <1>11

(* The last entry of a sequence of records.                                *)
Latest(kept) == kept[Len(kept)]

LEMMA ArchivedIsLatest ==
    ASSUME NEW kept \in Seq(Versions), NEW v \in Versions
    PROVE  /\ Archived(kept, v) \in Seq(Versions)
           /\ Range(Archived(kept, v)) = Range(kept) \cup {v}
           /\ Archived(kept, v) # <<>> /\ Latest(Archived(kept, v)) = v
           /\ v \in Range(kept) => Len(Archived(kept, v)) <= Len(kept)
           /\ \A i \in 1 .. Len(Archived(kept, v)) - 1 : Archived(kept, v)[i] # v
           /\ kept # <<>> /\ Latest(kept) # v =>
                 /\ Len(Archived(kept, v)) - 1 \in DOMAIN Archived(kept, v)
                 /\ Archived(kept, v)[Len(Archived(kept, v)) - 1] = Latest(kept)
<1> DEFINE others == {i \in DOMAIN kept : kept[i] # v}
           rest == Only(kept, others)
<1>1. DOMAIN kept = 1 .. Len(kept) /\ Len(kept) \in Nat
  BY LenProperties
<1>2. others \in SUBSET DOMAIN kept
  OBVIOUS
<1>3. Archived(kept, v) = Append(rest, v)
  BY DEF Archived
<1>4. /\ rest \in Seq(Versions)
      /\ Len(rest) = Cardinality(others)
      /\ Range(rest) = {kept[i] : i \in others}
      /\ Len(kept) \in others => rest # <<>> /\ rest[Len(rest)] = kept[Len(kept)]
  <2> HIDE DEF others
  <2>1. QED
    BY <1>2, OnlyKeeps
<1> HIDE DEF rest
<1>5. DOMAIN rest = 1 .. Len(rest) /\ Len(rest) \in Nat
  BY <1>4, LenProperties
<1>6. /\ Archived(kept, v) \in Seq(Versions)
      /\ Len(Archived(kept, v)) = Len(rest) + 1
      /\ \A i \in 1 .. Len(rest) : Archived(kept, v)[i] = rest[i]
      /\ Archived(kept, v)[Len(rest) + 1] = v
  BY <1>3, <1>4, AppendProperties
<1>7. DOMAIN Archived(kept, v) = 1 .. Len(rest) + 1
  BY <1>6, LenProperties
<1>8. Range(Archived(kept, v)) = Range(kept) \cup {v}
  <2>1. Range(Archived(kept, v)) = Range(rest) \cup {v}
    <3>1. \A i \in 1 .. Len(rest) + 1 : i \in 1 .. Len(rest) \/ i = Len(rest) + 1
      BY <1>5
    <3>2. 1 .. Len(rest) \subseteq 1 .. Len(rest) + 1 /\ Len(rest) + 1 \in 1 .. Len(rest) + 1
      BY <1>5
    <3>3. \A w \in Range(Archived(kept, v)) : w \in Range(rest) \cup {v}
      BY <1>5, <1>6, <1>7, <3>1 DEF Range
    <3>4. \A w \in Range(rest) \cup {v} : w \in Range(Archived(kept, v))
      BY <1>5, <1>6, <1>7, <3>2 DEF Range
    <3>5. QED
      BY <3>3, <3>4
  <2>2. Range(rest) \cup {v} = Range(kept) \cup {v}
    BY <1>4 DEF Range
  <2>3. QED
    BY <2>1, <2>2
<1>9. Archived(kept, v) # <<>> /\ Latest(Archived(kept, v)) = v
  <2>1. Len(Archived(kept, v)) # 0
    BY <1>5, <1>6
  <2>2. QED
    BY <1>6, <2>1 DEF Latest
<1>10. ASSUME v \in Range(kept)
       PROVE  Len(Archived(kept, v)) <= Len(kept)
  <2>1. PICK i \in DOMAIN kept : kept[i] = v
    BY <1>10 DEF Range
  <2>2. IsFiniteSet(DOMAIN kept) /\ Cardinality(DOMAIN kept) \in Nat
        /\ Cardinality(DOMAIN kept) <= Len(kept)
    BY PlacesAreFinite
  <2>3. IsFiniteSet(DOMAIN kept \ {i}) /\ Cardinality(DOMAIN kept \ {i}) = Cardinality(DOMAIN kept) - 1
    BY <2>2, FS_RemoveElement
  <2>4. others \in SUBSET (DOMAIN kept \ {i})
    BY <2>1
  <2>5. Cardinality(others) <= Cardinality(DOMAIN kept \ {i})
    <3> HIDE DEF others
    <3>1. QED
      BY <2>3, <2>4, FS_Subset
  <2>6. QED
    BY <1>1, <1>4, <1>5, <1>6, <2>2, <2>3, <2>5
<1>11. \A i \in 1 .. Len(Archived(kept, v)) - 1 : Archived(kept, v)[i] # v
  <2>1. \A w \in Range(rest) : w # v
    BY <1>4
  <2>2. \A i \in 1 .. Len(rest) : rest[i] # v
    BY <1>5, <2>1 DEF Range
  <2>3. QED
    BY <1>5, <1>6, <2>2
<1>12. ASSUME kept # <<>>, Latest(kept) # v
       PROVE  /\ Len(Archived(kept, v)) - 1 \in DOMAIN Archived(kept, v)
              /\ Archived(kept, v)[Len(Archived(kept, v)) - 1] = Latest(kept)
  <2>1. Len(kept) \in others
    BY <1>1, <1>12, EmptySeq DEF Latest
  <2>2. rest # <<>> /\ rest[Len(rest)] = Latest(kept)
    BY <1>4, <2>1 DEF Latest
  <2>3. Len(rest) \in 1 .. Len(rest)
    BY <1>4, <1>5, <2>2, EmptySeq
  <2>4. QED
    BY <1>5, <1>6, <1>7, <2>2, <2>3
<1>13. QED
  BY <1>6, <1>8, <1>9, <1>10, <1>11, <1>12

(* Pruning drops no protected version, keeps the order, and leaves at most *)
(* Keep versions that are not protected.                                   *)
LEMMA PrunedKeeps ==
    ASSUME NEW kept \in Seq(Versions), NEW protected
    PROVE  /\ Pruned(kept, protected) \in Seq(Versions)
           /\ Range(Pruned(kept, protected)) \subseteq Range(kept)
           /\ Range(kept) \cap protected \subseteq Range(Pruned(kept, protected))
           /\ Len(Pruned(kept, protected)) <= Len(kept)
           /\ kept # <<>> /\ Latest(kept) \in protected =>
                 /\ Pruned(kept, protected) # <<>>
                 /\ Latest(Pruned(kept, protected)) = Latest(kept)
<1> DEFINE spare == Spare(kept, protected)
           places == {i \in DOMAIN kept :
                         \/ kept[i] \in protected
                         \/ Cardinality({j \in spare : i <= j}) <= Keep}
<1>1. DOMAIN kept = 1 .. Len(kept) /\ Len(kept) \in Nat
  BY LenProperties
<1>2. places \in SUBSET DOMAIN kept
  OBVIOUS
<1>3. Pruned(kept, protected) = Only(kept, places)
  BY DEF Pruned
<1>4. Cardinality(places) <= Len(kept)
  <2> HIDE DEF places
  <2>1. QED
    BY <1>2, PlacesAreFinite
<1>5. /\ Only(kept, places) \in Seq(Versions)
      /\ Len(Only(kept, places)) = Cardinality(places)
      /\ Range(Only(kept, places)) = {kept[i] : i \in places}
      /\ Len(kept) \in places =>
            /\ Only(kept, places) # <<>>
            /\ Only(kept, places)[Len(Only(kept, places))] = kept[Len(kept)]
  <2> HIDE DEF places
  <2>1. QED
    BY <1>2, OnlyKeeps
<1>6. Range(Pruned(kept, protected)) \subseteq Range(kept)
  BY <1>3, <1>5 DEF Range
<1>7. Range(kept) \cap protected \subseteq Range(Pruned(kept, protected))
  BY <1>3, <1>5 DEF Range
<1>8. kept # <<>> /\ Latest(kept) \in protected => Len(kept) \in places
  BY <1>1, EmptySeq DEF Latest
<1> HIDE DEF places
<1>9. QED
  BY <1>3, <1>4, <1>5, <1>6, <1>7, <1>8 DEF Latest

(* If only the last entry is protected, at most Keep others stay; if one   *)
(* may stay, it is the one before the last.                                *)
LEMMA PrunedLeavesFew ==
    ASSUME NEW kept \in Seq(Versions), NEW protected,
           \A i \in 1 .. Len(kept) - 1 : kept[i] \notin protected,
           kept # <<>>, Latest(kept) \in protected
    PROVE  /\ Len(Pruned(kept, protected)) <= Keep + 1
           /\ Keep > 0 /\ Len(kept) - 1 \in DOMAIN kept =>
                 kept[Len(kept) - 1] \in Range(Pruned(kept, protected))
<1> DEFINE n == Len(kept)
           spare == Spare(kept, protected)
           places == {i \in DOMAIN kept :
                         \/ kept[i] \in protected
                         \/ Cardinality({j \in spare : i <= j}) <= Keep}
           few == {i \in spare : Cardinality({j \in spare : i <= j}) <= Keep}
<1>1. DOMAIN kept = 1 .. n /\ n \in Nat /\ Keep \in Nat
  BY LenProperties, ManagerAssumption
<1>2. spare = 1 .. n - 1
  <2>1. n \in 1 .. n
    BY <1>1, EmptySeq
  <2>2. n \notin spare
    BY DEF Spare, Latest
  <2>3. \A i \in 1 .. n - 1 : i \in spare
    BY <1>1 DEF Spare
  <2>4. spare \subseteq 1 .. n
    BY <1>1 DEF Spare
  <2>5. \A i \in 1 .. n : i # n => i \in 1 .. n - 1
    <3>1. \A m \in Nat : \A i \in 1 .. m : i # m => i \in 1 .. m - 1
      OBVIOUS
    <3>2. QED
      BY <1>1, <3>1
  <2> HIDE DEF spare
  <2>6. QED
    BY <2>2, <2>3, <2>4, <2>5
<1>3. IsFiniteSet(spare)
  <2>1. spare \in SUBSET DOMAIN kept
    BY DEF Spare
  <2> HIDE DEF spare
  <2>2. QED
    BY <2>1, PlacesAreFinite
<1>4. IsFiniteSet(few) /\ Cardinality(few) \in Nat /\ Cardinality(few) <= Keep
  <2>1. few \in SUBSET spare
    OBVIOUS
  <2>2. IsFiniteSet(few) /\ Cardinality(few) \in Nat
    <3> HIDE DEF few, spare
    <3>1. QED
      BY <1>3, <2>1, FS_Subset, FS_CardinalityType
  <2>3. CASE few = {}
    <3>1. Cardinality({}) = 0
      BY FS_EmptySet
    <3> HIDE DEF few
    <3>2. QED
      BY <1>1, <2>2, <2>3, <3>1
  <2>4. CASE few # {}
    <3>1. few \in SUBSET Nat
      BY <1>1, <1>2
    <3>2. PICK m \in few : \A i \in few : m <= i
      <4> HIDE DEF few
      <4>1. QED
        BY <2>4, <3>1, HasLeast
    <3> DEFINE above == {j \in spare : m <= j}
    <3>3. few \in SUBSET above /\ above \in SUBSET spare
      BY <3>2
    <3>4. Cardinality(above) <= Keep
      BY <3>2
    <3> HIDE DEF few, above, spare
    <3>5. IsFiniteSet(above) /\ Cardinality(above) \in Nat
      BY <1>3, <3>3, FS_Subset, FS_CardinalityType
    <3>6. Cardinality(few) <= Cardinality(above)
      BY <3>3, <3>5, FS_Subset
    <3>7. QED
      BY <1>1, <2>2, <3>4, <3>5, <3>6
  <2>5. QED
    BY <2>3, <2>4
<1>5. places \subseteq few \cup {n}
  BY <1>1, <1>2 DEF Spare
<1>6. Cardinality(places) <= Keep + 1
  <2>1. places \in SUBSET (few \cup {n})
    BY <1>5
  <2> HIDE DEF few, places
  <2>2. /\ IsFiniteSet(few \cup {n})
        /\ Cardinality(few \cup {n}) = IF n \in few THEN Cardinality(few) ELSE Cardinality(few) + 1
    BY <1>4, FS_AddElement
  <2>3. IsFiniteSet(places) /\ Cardinality(places) <= Cardinality(few \cup {n})
    BY <2>1, <2>2, FS_Subset
  <2>4. Cardinality(places) \in Nat
    BY <2>3, FS_CardinalityType
  <2>5. QED
    BY <1>1, <1>4, <2>2, <2>3, <2>4
<1>7. places \in SUBSET DOMAIN kept
  OBVIOUS
<1>8. /\ Len(Only(kept, places)) = Cardinality(places)
      /\ Range(Only(kept, places)) = {kept[i] : i \in places}
  <2> HIDE DEF places
  <2>1. QED
    BY <1>7, OnlyKeeps
<1>9. Pruned(kept, protected) = Only(kept, places)
  BY DEF Pruned
<1>10. ASSUME Keep > 0, n - 1 \in DOMAIN kept
       PROVE  n - 1 \in places
  <2>1. {j \in spare : n - 1 <= j} = {n - 1}
    BY <1>1, <1>2, <1>10
  <2>2. Cardinality({j \in spare : n - 1 <= j}) = 1
    BY <2>1, FS_Singleton
  <2> HIDE DEF spare
  <2>3. Cardinality({j \in spare : n - 1 <= j}) <= Keep
    BY <1>1, <1>10, <2>2
  <2>4. QED
    BY <1>10, <2>3
<1> HIDE DEF places
<1>11. QED
  BY <1>6, <1>8, <1>9, <1>10

-----------------------------------------------------------------------------
(* What the operations make of a registry.                                 *)
Registers == [active : [Plugin -> Versions \cup {None}], kept : [Plugin -> Seq(Versions)]]

LEMMA RegisterParts ==
    ASSUME NEW reg \in Registers, NEW x \in Plugin
    PROVE  /\ reg.active \in [Plugin -> Versions \cup {None}]
           /\ reg.kept \in [Plugin -> Seq(Versions)]
           /\ reg.active[x] \in Versions \cup {None}
           /\ reg.kept[x] \in Seq(Versions)
BY DEF Registers

LEMMA RegisterMade ==
    ASSUME NEW a \in [Plugin -> Versions \cup {None}], NEW k \in [Plugin -> Seq(Versions)]
    PROVE  [active |-> a, kept |-> k] \in Registers
BY DEF Registers

(* Archiving the active version forgets nothing but surplus records of its *)
(* own plugin; the active version becomes the latest, and v stays.         *)
LEMMA ArchivingKeeps ==
    ASSUME NEW reg \in Registers, Coherent(reg), NEW x \in Plugin, NEW v \in Versions
    PROVE  /\ WithArchived(reg, x, v) \in Registers
           /\ WithArchived(reg, x, v).active = reg.active
           /\ \A y \in Plugin \ {x} : WithArchived(reg, x, v).kept[y] = reg.kept[y]
           /\ Range(WithArchived(reg, x, v).kept[x]) \subseteq Range(reg.kept[x])
           /\ v \in Range(reg.kept[x]) => v \in Range(WithArchived(reg, x, v).kept[x])
           /\ Len(WithArchived(reg, x, v).kept[x]) <= Len(reg.kept[x])
           /\ reg.active[x] # None =>
                 /\ reg.active[x] \in Range(WithArchived(reg, x, v).kept[x])
                 /\ WithArchived(reg, x, v).kept[x] # <<>>
                 /\ Latest(WithArchived(reg, x, v).kept[x]) = reg.active[x]
<1> DEFINE old == reg.active[x]
           kept == reg.kept[x]
           new == Pruned(Archived(kept, old), {old, v})
<1>0. kept \in Seq(Versions) /\ old \in Versions \cup {None} /\ Len(kept) \in Nat
  BY RegisterParts, LenProperties
<1>1. CASE old = None
  <2>1. WithArchived(reg, x, v) = reg
    BY <1>1 DEF WithArchived
  <2>2. kept = <<>>
    BY <1>1 DEF Coherent, Installed
  <2>3. v \notin Range(kept)
    BY <2>2 DEF Range
  <2>4. QED
    BY <1>0, <1>1, <2>1, <2>3
<1>2. CASE old # None
  <2>1. old \in Versions
    BY <1>0, <1>2
  <2>2. old \in Range(kept)
    BY <1>2 DEF Coherent, Installed
  <2>3. /\ Archived(kept, old) \in Seq(Versions)
        /\ Range(Archived(kept, old)) = Range(kept)
        /\ Archived(kept, old) # <<>> /\ Latest(Archived(kept, old)) = old
        /\ Len(Archived(kept, old)) <= Len(kept)
    <3> HIDE DEF kept, old
    <3>1. /\ Archived(kept, old) \in Seq(Versions)
          /\ Range(Archived(kept, old)) = Range(kept) \cup {old}
          /\ Archived(kept, old) # <<>> /\ Latest(Archived(kept, old)) = old
          /\ old \in Range(kept) => Len(Archived(kept, old)) <= Len(kept)
      BY <1>0, <2>1, ArchivedIsLatest
    <3>2. Range(kept) \cup {old} = Range(kept)
      BY <2>2
    <3>3. QED
      BY <2>2, <3>1, <3>2
  <2>4. /\ new \in Seq(Versions)
        /\ Range(new) \subseteq Range(kept)
        /\ Range(kept) \cap {old, v} \subseteq Range(new)
        /\ Len(new) <= Len(Archived(kept, old))
        /\ new # <<>> /\ Latest(new) = old
    <3> DEFINE arch == Archived(kept, old)
    <3>1. arch \in Seq(Versions) /\ arch # <<>> /\ Latest(arch) \in {old, v}
      BY <2>3
    <3>2. new = Pruned(arch, {old, v})
      OBVIOUS
    <3>3. Range(arch) = Range(kept) /\ Latest(arch) = old
      BY <2>3
    <3>4. /\ Pruned(arch, {old, v}) \in Seq(Versions)
          /\ Range(Pruned(arch, {old, v})) \subseteq Range(arch)
          /\ Range(arch) \cap {old, v} \subseteq Range(Pruned(arch, {old, v}))
          /\ Len(Pruned(arch, {old, v})) <= Len(arch)
          /\ Pruned(arch, {old, v}) # <<>>
          /\ Latest(Pruned(arch, {old, v})) = Latest(arch)
      <4> HIDE DEF arch, kept, old
      <4>1. QED
        BY <3>1, PrunedKeeps
    <3>5. QED
      BY <3>2, <3>3, <3>4
  <2>5. WithArchived(reg, x, v) = [reg EXCEPT !.kept[x] = new]
    BY <1>2 DEF WithArchived
  <2>6. Len(new) <= Len(kept)
    <3>1. Len(new) \in Nat /\ Len(Archived(kept, old)) \in Nat
      BY <2>3, <2>4, LenProperties
    <3> HIDE DEF new, kept, old
    <3>2. QED
      BY <1>0, <2>3, <2>4, <3>1
  <2> HIDE DEF new
  <2>7. /\ WithArchived(reg, x, v) = [active |-> reg.active, kept |-> [reg.kept EXCEPT ![x] = new]]
        /\ [reg.kept EXCEPT ![x] = new] \in [Plugin -> Seq(Versions)]
        /\ [reg.kept EXCEPT ![x] = new][x] = new
        /\ \A y \in Plugin \ {x} : [reg.kept EXCEPT ![x] = new][y] = reg.kept[y]
    BY <2>4, <2>5 DEF Registers
  <2>8. WithArchived(reg, x, v) \in Registers
    BY <2>7, RegisterParts, RegisterMade
  <2>9. WithArchived(reg, x, v).kept[x] = new /\ WithArchived(reg, x, v).active = reg.active
        /\ \A y \in Plugin \ {x} : WithArchived(reg, x, v).kept[y] = reg.kept[y]
    BY <2>7
  <2> HIDE DEF kept, old
  <2>10. Range(new) \subseteq Range(kept) /\ (v \in Range(kept) => v \in Range(new))
         /\ old \in Range(new)
    BY <2>2, <2>4
  <2>11. QED
    BY <2>4, <2>6, <2>8, <2>9, <2>10 DEF kept, old
<1>3. QED
  BY <1>1, <1>2

(* The new version is recorded last, within the policy, and, if anything   *)
(* else may be kept, so is the one that was the latest.                    *)
LEMMA EnrollingKeeps ==
    ASSUME NEW reg \in Registers, NEW x \in Plugin, NEW v \in Versions
    PROVE  /\ Enrolled(reg, x, v) \in Registers
           /\ Enrolled(reg, x, v).active = [reg.active EXCEPT ![x] = v]
           /\ \A y \in Plugin \ {x} : Enrolled(reg, x, v).kept[y] = reg.kept[y]
           /\ Range(Enrolled(reg, x, v).kept[x]) \subseteq Range(reg.kept[x]) \cup {v}
           /\ v \in Range(Enrolled(reg, x, v).kept[x])
           /\ Len(Enrolled(reg, x, v).kept[x]) <= Keep + 1
           /\ Keep > 0 /\ reg.kept[x] # <<>> /\ Latest(reg.kept[x]) # v =>
                 Latest(reg.kept[x]) \in Range(Enrolled(reg, x, v).kept[x])
<1> DEFINE kept == reg.kept[x]
           arch == Archived(kept, v)
           new == Pruned(arch, {v})
<1>0. kept \in Seq(Versions)
  BY RegisterParts
<1>1. /\ arch \in Seq(Versions)
      /\ Range(arch) = Range(kept) \cup {v}
      /\ arch # <<>> /\ Latest(arch) = v
      /\ \A i \in 1 .. Len(arch) - 1 : arch[i] # v
      /\ kept # <<>> /\ Latest(kept) # v =>
            Len(arch) - 1 \in DOMAIN arch /\ arch[Len(arch) - 1] = Latest(kept)
  <2> HIDE DEF kept
  <2>1. QED
    BY <1>0, ArchivedIsLatest
<1>2. /\ new \in Seq(Versions)
      /\ Range(new) \subseteq Range(arch)
      /\ Range(arch) \cap {v} \subseteq Range(new)
  <2> HIDE DEF arch
  <2>1. QED
    BY <1>1, PrunedKeeps
<1>3. /\ Len(new) <= Keep + 1
      /\ Keep > 0 /\ Len(arch) - 1 \in DOMAIN arch => arch[Len(arch) - 1] \in Range(new)
  <2> HIDE DEF arch
  <2>1. QED
    BY <1>1, PrunedLeavesFew
<1>4. Enrolled(reg, x, v) = [active |-> [reg.active EXCEPT ![x] = v],
                             kept |-> [reg.kept EXCEPT ![x] = new]]
  BY DEF Enrolled
<1> HIDE DEF new, arch
<1>5. /\ [reg.kept EXCEPT ![x] = new] \in [Plugin -> Seq(Versions)]
      /\ [reg.kept EXCEPT ![x] = new][x] = new
      /\ \A y \in Plugin \ {x} : [reg.kept EXCEPT ![x] = new][y] = reg.kept[y]
      /\ [reg.active EXCEPT ![x] = v] \in [Plugin -> Versions \cup {None}]
  BY <1>2 DEF Registers
<1>6. Enrolled(reg, x, v) \in Registers
  BY <1>4, <1>5, RegisterMade
<1>7. /\ Enrolled(reg, x, v).active = [reg.active EXCEPT ![x] = v]
      /\ Enrolled(reg, x, v).kept[x] = new
      /\ \A y \in Plugin \ {x} : Enrolled(reg, x, v).kept[y] = reg.kept[y]
  BY <1>4, <1>5
<1> HIDE DEF kept
<1>8. Range(new) \subseteq Range(kept) \cup {v} /\ v \in Range(new)
  BY <1>1, <1>2
<1>9. Keep > 0 /\ kept # <<>> /\ Latest(kept) # v => Latest(kept) \in Range(new)
  BY <1>1, <1>3
<1>10. QED
  BY <1>3, <1>6, <1>7, <1>8, <1>9 DEF kept

LEMMA DroppingKeeps ==
    ASSUME NEW reg \in Registers, NEW xs
    PROVE  /\ Dropped(reg, xs) \in Registers
           /\ \A y \in Plugin :
                 /\ Dropped(reg, xs).active[y] = IF y \in xs THEN None ELSE reg.active[y]
                 /\ Dropped(reg, xs).kept[y] = IF y \in xs THEN <<>> ELSE reg.kept[y]
<1> DEFINE a == [x \in Plugin |-> IF x \in xs THEN None ELSE reg.active[x]]
           k == [x \in Plugin |-> IF x \in xs THEN <<>> ELSE reg.kept[x]]
<1>1. Dropped(reg, xs) = [active |-> a, kept |-> k]
  BY DEF Dropped
<1>2. a \in [Plugin -> Versions \cup {None}]
  BY RegisterParts
<1>3. k \in [Plugin -> Seq(Versions)]
  BY RegisterParts, EmptySeq
<1>4. Dropped(reg, xs) \in Registers
  <2> HIDE DEF a, k
  <2>1. QED
    BY <1>1, <1>2, <1>3, RegisterMade
<1>5. QED
  BY <1>1, <1>4

LEMMA RollingBackKeeps ==
    ASSUME NEW reg \in Registers, Coherent(reg), NEW x \in Plugin, NEW v \in Versions
    PROVE  /\ RolledBack(reg, x, v) \in Registers
           /\ RolledBack(reg, x, v).active = [reg.active EXCEPT ![x] = v]
           /\ RolledBack(reg, x, v).kept = WithArchived(reg, x, v).kept
<1>1. WithArchived(reg, x, v) \in Registers /\ WithArchived(reg, x, v).active = reg.active
  BY ArchivingKeeps
<1>2. QED
  BY <1>1 DEF RolledBack, Registers

-----------------------------------------------------------------------------
(* Types, the locks, and what a transaction carries along: the copy of the *)
(* tree and the registry it may put back and, while a mutation is under    *)
(* way, what it works on.                                                  *)
Busy == txn.stage # "none"
Mutating == {"archived", "copied", "enrolled", "accepted", "stored"}
CarriedInv ==
    /\ Busy => txn.tree \subseteq Plugin \X Versions /\ txn.saved \in Registers
    /\ txn.stage \in Mutating => txn.plugin \in Plugin /\ txn.registry \in Registers
    /\ txn.stage \in {"archived", "copied"} => txn.version \in Versions

(* One process holds the locks, and only it has a transaction.             *)
HolderInv ==
    /\ \A p, q \in Process : pc[p] = "holding" /\ pc[q] = "holding" => p = q
    /\ ~Busy => \A p \in Process : pc[p] # "holding"

TypedInv == TypeOK /\ CarriedInv /\ HolderInv

(* The holder's steps, up to the end of its transaction.                   *)
LEMMA HolderGoesOn ==
    ASSUME TypedInv, Busy, UNCHANGED <<read, pc, mishaps>>,
           slots' \subseteq Plugin \X Versions, left' \subseteq Plugin \X Versions, registry' \in Registers,
           settings' \subseteq Plugin,
           txn'.stage \in Forward \cup Backward,
           txn'.tree = txn.tree, txn'.saved = txn.saved,
           txn'.stage \in Mutating => txn'.plugin \in Plugin /\ txn'.registry \in Registers,
           txn'.stage \in {"archived", "copied"} => txn'.version \in Versions
    PROVE  TypedInv'
<1>1. TypeOK'
  BY DEF TypedInv, TypeOK, Registers
<1>2. Busy'
  BY DEF Busy, Forward, Backward
<1>3. CarriedInv'
  BY <1>2 DEF TypedInv, CarriedInv
<1>4. HolderInv'
  BY <1>2 DEF TypedInv, HolderInv
<1>5. QED
  BY <1>1, <1>3, <1>4 DEF TypedInv

(* Its last one, whatever becomes of the settings and the history.         *)
LEMMA HolderLetsGo ==
    ASSUME TypedInv, NEW p \in Process, pc[p] = "holding", Release(p),
           UNCHANGED <<slots, registry, left>>, settings' \subseteq Plugin, mishaps' \subseteq Mishaps
    PROVE  TypedInv'
<1>1. /\ pc' = [pc EXCEPT ![p] = "idle"] /\ read' = [read EXCEPT ![p] = {}]
      /\ txn'.stage = "none"
  BY DEF Release, NoTxn
<1>2. /\ pc \in [Process -> {"idle", "waiting", "holding"}] /\ read \in [Process -> SUBSET Plugin]
  BY DEF TypedInv, TypeOK
<1>3. /\ pc' \in [Process -> {"idle", "waiting", "holding"}] /\ read' \in [Process -> SUBSET Plugin]
  BY <1>1, <1>2
<1>4. TypeOK'
  BY <1>1, <1>3 DEF TypedInv, TypeOK
<1>5. CarriedInv'
  BY <1>1 DEF CarriedInv, Busy, Mutating
<1>6. \A q \in Process : pc'[q] # "holding"
  BY <1>1, <1>2 DEF TypedInv, HolderInv
<1>7. HolderInv'
  BY <1>6 DEF HolderInv
<1>8. QED
  BY <1>4, <1>5, <1>7 DEF TypedInv

LEMMA InitIsTyped == Init => TypedInv
<1> SUFFICES ASSUME Init PROVE TypedInv
  OBVIOUS
<1>1. /\ [x \in Plugin |-> None] \in [Plugin -> Versions \cup {None}]
      /\ [x \in Plugin |-> <<>>] \in [Plugin -> Seq(Versions)]
  BY EmptySeq
<1>2. registry \in Registers
  BY <1>1, RegisterMade DEF Init
<1>3. TypeOK
  BY <1>2 DEF Init, TypeOK, NoTxn, Registers
<1>4. CarriedInv /\ HolderInv
  BY DEF Init, CarriedInv, HolderInv, Busy, Mutating, NoTxn
<1>5. QED
  BY <1>3, <1>4 DEF TypedInv

(* Pruning removes what is there and leaves what is there.                 *)
LEMMA PruningIsTyped ==
    ASSUME slots \subseteq Plugin \X Versions, left \subseteq Plugin \X Versions,
           NEW x, NEW reg, Prunes(x, reg)
    PROVE  slots' \subseteq Plugin \X Versions /\ left' \subseteq Plugin \X Versions
BY DEF Prunes

LEMMA MutationIsTyped ==
    ASSUME TypedInv, NEW p \in Process, Mutates(p)
    PROVE  TypedInv'
<1>0. /\ slots \subseteq Plugin \X Versions /\ left \subseteq Plugin \X Versions
      /\ registry \in Registers /\ settings \subseteq Plugin
      /\ Busy => txn.tree \subseteq Plugin \X Versions /\ txn.saved \in Registers
      /\ txn.stage \in Mutating => txn.plugin \in Plugin /\ txn.registry \in Registers
      /\ txn.stage \in {"archived", "copied"} => txn.version \in Versions
  BY DEF TypedInv, TypeOK, Registers, CarriedInv
<1>1. ASSUME NEW x \in Plugin, NEW v \in Versions, Install(p, x, v)
      PROVE  TypedInv'
  <2>1. Coherent(registry)
    BY <1>1 DEF Install, Valid
  <2>2. WithArchived(registry, x, v) \in Registers
    BY <1>0, <2>1, ArchivingKeeps
  <2>3. slots' \subseteq Plugin \X Versions
    BY <1>0, <1>1 DEF Install
  <2>4. /\ Busy /\ UNCHANGED <<read, pc, mishaps, left, registry, settings>>
        /\ txn'.stage = "copied" /\ txn'.tree = txn.tree /\ txn'.saved = txn.saved
        /\ txn'.plugin = x /\ txn'.version = v /\ txn'.registry = WithArchived(registry, x, v)
    BY <1>1 DEF Install, Works, At, Busy, past
  <2>5. QED
    BY <1>0, <2>2, <2>3, <2>4, HolderGoesOn DEF Forward
<1>2. ASSUME NEW x \in Plugin, NEW v \in Versions, Update(p, x, v)
      PROVE  TypedInv'
  <2>1. Coherent(registry)
    BY <1>2 DEF Update, Valid
  <2>2. WithArchived(registry, x, v) \in Registers
    BY <1>0, <2>1, ArchivingKeeps
  <2>3. slots' \subseteq Plugin \X Versions /\ left' \subseteq Plugin \X Versions
    BY <1>0, <1>2, PruningIsTyped DEF Update
  <2>4. /\ Busy /\ UNCHANGED <<read, pc, mishaps, registry, settings>>
        /\ txn'.stage = "archived" /\ txn'.tree = txn.tree /\ txn'.saved = txn.saved
        /\ txn'.plugin = x /\ txn'.version = v /\ txn'.registry = WithArchived(registry, x, v)
    BY <1>2 DEF Update, Works, At, Busy, past
  <2>5. QED
    BY <1>0, <2>2, <2>3, <2>4, HolderGoesOn DEF Forward
<1>3. ASSUME NEW x \in Plugin, NEW v \in Versions, Rollback(p, x, v)
      PROVE  TypedInv'
  <2>1. Coherent(registry)
    BY <1>3 DEF Rollback, Valid
  <2>2. RolledBack(registry, x, v) \in Registers
    BY <1>0, <2>1, RollingBackKeeps
  <2>3. slots' \subseteq Plugin \X Versions /\ left' \subseteq Plugin \X Versions
    BY <1>0, <1>3, PruningIsTyped DEF Rollback
  <2>4. /\ Busy /\ UNCHANGED <<read, pc, mishaps, registry, settings>>
        /\ txn'.stage = "enrolled" /\ txn'.tree = txn.tree /\ txn'.saved = txn.saved
        /\ txn'.plugin = x /\ txn'.registry = RolledBack(registry, x, v)
    BY <1>3 DEF Rollback, Works, At, Busy, past
  <2>5. QED
    BY <1>0, <2>2, <2>3, <2>4, HolderGoesOn DEF Forward
<1>4. ASSUME NEW x \in Plugin, Enable(p, x) \/ Disable(p, x)
      PROVE  TypedInv'
  <2>1. /\ Busy /\ UNCHANGED <<read, pc, mishaps, left, slots, registry, settings>>
        /\ txn'.stage = "stored" /\ txn'.tree = txn.tree /\ txn'.saved = txn.saved
        /\ txn'.plugin = x /\ txn'.registry = registry
    BY <1>4 DEF Enable, Disable, Works, At, Busy, disk, past
  <2>2. QED
    BY <1>0, <2>1, HolderGoesOn DEF Forward
<1>5. ASSUME NEW x \in Plugin, Uninstall(p, x)
      PROVE  TypedInv'
  <2>1. Dropped(registry, {x}) \in Registers
    BY <1>0, DroppingKeeps
  <2>2. slots' \subseteq Plugin \X Versions
    BY <1>0, <1>5 DEF Uninstall
  <2>3. /\ Busy /\ UNCHANGED <<read, pc, mishaps, left, registry, settings>>
        /\ txn'.stage = "accepted" /\ txn'.tree = txn.tree /\ txn'.saved = txn.saved
        /\ txn'.plugin = x /\ txn'.registry = Dropped(registry, {x})
    BY <1>5 DEF Uninstall, Works, At, Busy, past
  <2>4. QED
    BY <1>0, <2>1, <2>2, <2>3, HolderGoesOn DEF Forward
<1>6. CASE CopyIn(p)
  <2>1. /\ Busy /\ UNCHANGED <<read, pc, mishaps, left, registry, settings>>
        /\ txn.stage = "archived"
        /\ txn'.stage = "copied" /\ txn'.tree = txn.tree /\ txn'.saved = txn.saved
        /\ txn'.plugin = txn.plugin /\ txn'.version = txn.version
        /\ txn'.registry = txn.registry
        /\ slots' = slots \cup {<<txn.plugin, txn.version>>}
    BY <1>6 DEF CopyIn, Goes, Works, At, Busy, past
  <2>2. txn.plugin \in Plugin /\ txn.version \in Versions /\ txn.registry \in Registers
    BY <1>0, <2>1 DEF Mutating
  <2>3. slots' \subseteq Plugin \X Versions
    BY <1>0, <2>1, <2>2
  <2>4. QED
    BY <1>0, <2>1, <2>2, <2>3, HolderGoesOn DEF Forward
<1>7. CASE Enrol(p)
  <2>1. /\ Busy /\ UNCHANGED <<read, pc, mishaps, registry, settings>>
        /\ txn.stage = "copied"
        /\ txn'.stage = "enrolled" /\ txn'.tree = txn.tree /\ txn'.saved = txn.saved
        /\ txn'.plugin = txn.plugin
        /\ txn'.registry = Enrolled(txn.registry, txn.plugin, txn.version)
    BY <1>7 DEF Enrol, Works, At, Busy
  <2>2. txn.plugin \in Plugin /\ txn.version \in Versions /\ txn.registry \in Registers
    BY <1>0, <2>1 DEF Mutating
  <2>3. Enrolled(txn.registry, txn.plugin, txn.version) \in Registers
    BY <2>2, EnrollingKeeps
  <2>4. slots' \subseteq Plugin \X Versions /\ left' \subseteq Plugin \X Versions
    BY <1>0, <1>7, PruningIsTyped DEF Enrol
  <2>5. QED
    BY <1>0, <2>1, <2>2, <2>3, <2>4, HolderGoesOn DEF Forward
<1>8. CASE Accept(p)
  <2>1. /\ Busy /\ UNCHANGED <<read, pc, mishaps, left, slots, registry, settings>>
        /\ txn.stage = "enrolled"
        /\ txn'.stage = "accepted" /\ txn'.tree = txn.tree /\ txn'.saved = txn.saved
        /\ txn'.plugin = txn.plugin /\ txn'.registry = txn.registry
    BY <1>8 DEF Accept, Goes, Works, At, Busy, disk, past
  <2>2. txn.plugin \in Plugin /\ txn.registry \in Registers
    BY <1>0, <2>1 DEF Mutating
  <2>3. QED
    BY <1>0, <2>1, <2>2, HolderGoesOn DEF Forward
<1>9. CASE Store(p)
  <2>1. /\ Busy /\ UNCHANGED <<read, pc, mishaps, left, slots, settings>>
        /\ txn.stage = "accepted" /\ registry' = txn.registry
        /\ txn'.tree = txn.tree /\ txn'.saved = txn.saved
        /\ \/ txn'.stage = "stored" /\ txn'.plugin = txn.plugin /\ txn'.registry = txn.registry
           \/ txn'.stage = "done"
    BY <1>9 DEF Store, Goes, Works, Turns, At, Busy, past
  <2>2. txn.plugin \in Plugin /\ txn.registry \in Registers
    BY <1>0, <2>1 DEF Mutating
  <2>3. QED
    BY <1>0, <2>1, <2>2, HolderGoesOn DEF Forward, Mutating
<1>10. CASE WriteSettings(p)
  <2>1. /\ Busy /\ UNCHANGED <<read, pc, mishaps, left, slots, registry>>
        /\ txn.stage = "stored" /\ txn'.stage = "done"
        /\ txn'.tree = txn.tree /\ txn'.saved = txn.saved
        /\ settings' \subseteq settings \cup {txn.plugin}
    BY <1>10 DEF WriteSettings, Turns, At, Busy, past
  <2>2. txn.plugin \in Plugin
    BY <1>0, <2>1 DEF Mutating
  <2>3. settings' \subseteq Plugin
    BY <1>0, <2>1, <2>2
  <2>4. QED
    BY <1>0, <2>1, <2>3, HolderGoesOn DEF Forward, Mutating
<1>11. CASE Finish(p)
  <2>1. mishaps \subseteq Mishaps
    BY DEF TypedInv, TypeOK
  <2>2. pc[p] = "holding" /\ Release(p) /\ UNCHANGED <<slots, registry, settings, mishaps, left>>
    BY <1>11 DEF Finish, At, disk, past
  <2>3. QED
    BY <1>0, <2>1, <2>2, HolderLetsGo
<1>12. QED
  BY <1>1, <1>2, <1>3, <1>4, <1>5, <1>6, <1>7, <1>8, <1>9, <1>10, <1>11 DEF Mutates

LEMMA RestorationIsTyped ==
    ASSUME TypedInv, NEW p \in Process, Restores(p)
    PROVE  TypedInv'
<1>0. /\ slots \subseteq Plugin \X Versions /\ left \subseteq Plugin \X Versions
      /\ registry \in Registers /\ settings \subseteq Plugin
      /\ Busy => txn.tree \subseteq Plugin \X Versions /\ txn.saved \in Registers
      /\ read[p] \subseteq Plugin /\ mishaps \subseteq Mishaps
  BY DEF TypedInv, TypeOK, Registers, CarriedInv
<1>1. CASE Fails(p)
  <2>1. txn.stage \in Forward /\ txn'.stage = "failed"
        /\ txn'.tree = txn.tree /\ txn'.saved = txn.saved
        /\ UNCHANGED <<slots, registry, settings, read, pc, mishaps, left>>
    BY <1>1 DEF Fails, Turns, disk, past
  <2>2. Busy
    BY <2>1 DEF Busy, Forward
  <2>3. QED
    BY <1>0, <2>1, <2>2, HolderGoesOn DEF Backward, Mutating
<1>2. CASE Wipe(p)
  <2>1. Busy /\ txn'.stage = "wiped" /\ txn'.tree = txn.tree /\ txn'.saved = txn.saved
        /\ slots' = {} /\ UNCHANGED <<registry, settings, read, pc, mishaps, left>>
    BY <1>2 DEF Wipe, Turns, At, Busy, past
  <2>2. slots' \subseteq Plugin \X Versions
    BY <2>1
  <2>3. QED
    BY <1>0, <2>1, <2>2, HolderGoesOn DEF Backward, Mutating
<1>3. CASE CopyBack(p)
  <2>1. Busy /\ txn'.stage = "tree back" /\ txn'.tree = txn.tree /\ txn'.saved = txn.saved
        /\ slots' = txn.tree /\ UNCHANGED <<registry, settings, read, pc, mishaps>> /\ left' \subseteq left
    BY <1>3 DEF CopyBack, Turns, At, Busy, past
  <2>2. QED
    BY <1>0, <2>1, HolderGoesOn DEF Backward, Mutating
<1>4. CASE StoreBack(p)
  <2>1. Busy /\ txn'.stage = "registry back" /\ txn'.tree = txn.tree /\ txn'.saved = txn.saved
        /\ registry' = txn.saved /\ UNCHANGED <<slots, settings, read, pc, mishaps, left>>
    BY <1>4 DEF StoreBack, Turns, At, Busy, past
  <2>2. QED
    BY <1>0, <2>1, HolderGoesOn DEF Backward, Mutating
<1>5. CASE SettingsBack(p)
  <2>1. pc[p] = "holding" /\ Release(p) /\ settings' = read[p]
        /\ UNCHANGED <<slots, registry, mishaps, left>>
    BY <1>5 DEF SettingsBack, At, past
  <2>2. QED
    BY <1>0, <2>1, HolderLetsGo
<1>6. CASE RestoreFails(p)
  <2>1. pc[p] = "holding" /\ Release(p) /\ mishaps' = mishaps \cup {"torn"}
        /\ UNCHANGED <<slots, registry, settings, left>>
    BY <1>6 DEF RestoreFails, disk
  <2>2. mishaps' \subseteq Mishaps
    BY <1>0, <2>1 DEF Mishaps
  <2>3. QED
    BY <1>0, <2>1, <2>2, HolderLetsGo
<1>7. QED
  BY <1>1, <1>2, <1>3, <1>4, <1>5, <1>6 DEF Restores

(* A step of a process that holds no locks and leaves the disk alone.      *)
LEMMA OutsiderIsTyped ==
    ASSUME TypedInv, NEW p \in Process, pc[p] # "holding",
           NEW where \in {"idle", "waiting"}, NEW enabled \in SUBSET Plugin,
           pc' = [pc EXCEPT ![p] = where], read' = [read EXCEPT ![p] = enabled],
           UNCHANGED <<slots, registry, settings, txn, mishaps, left>>
    PROVE  TypedInv'
<1>1. pc \in [Process -> {"idle", "waiting", "holding"}] /\ read \in [Process -> SUBSET Plugin]
  BY DEF TypedInv, TypeOK
<1>2. pc' \in [Process -> {"idle", "waiting", "holding"}] /\ read' \in [Process -> SUBSET Plugin]
  BY <1>1
<1>3. TypeOK'
  BY <1>2 DEF TypedInv, TypeOK
<1>4. CarriedInv'
  BY DEF TypedInv, CarriedInv, Busy
<1>5. \A q \in Process : pc'[q] = "holding" => pc[q] = "holding"
  BY <1>1
<1>6. HolderInv'
  BY <1>5 DEF TypedInv, HolderInv, Busy
<1>7. QED
  BY <1>3, <1>4, <1>6 DEF TypedInv

LEMMA StepIsTyped ==
    ASSUME TypedInv, [Next]_vars
    PROVE  TypedInv'
<1>0. /\ slots \subseteq Plugin \X Versions /\ left \subseteq Plugin \X Versions
      /\ registry \in Registers /\ settings \subseteq Plugin
      /\ read \in [Process -> SUBSET Plugin] /\ mishaps \subseteq Mishaps
      /\ pc \in [Process -> {"idle", "waiting", "holding"}]
  BY DEF TypedInv, TypeOK, Registers
<1>1. CASE UNCHANGED vars
  <2>1. UNCHANGED <<slots, registry, settings, read, pc, txn, mishaps, left>>
    BY <1>1 DEF vars
  <2>2. TypeOK'
    BY <2>1 DEF TypedInv, TypeOK
  <2>3. CarriedInv' /\ HolderInv'
    BY <2>1 DEF TypedInv, CarriedInv, HolderInv, Busy
  <2>4. QED
    BY <2>2, <2>3 DEF TypedInv
<1>2. ASSUME NEW p \in Process, Begin(p)
      PROVE  TypedInv'
  BY <1>0, <1>2, OutsiderIsTyped DEF Begin, disk, past
<1>3. ASSUME NEW p \in Process, GiveUp(p) \/ CrashWaiting(p)
      PROVE  TypedInv'
  <2>1. /\ pc[p] # "holding" /\ pc' = [pc EXCEPT ![p] = "idle"] /\ read' = [read EXCEPT ![p] = {}]
        /\ UNCHANGED <<slots, registry, settings, txn, mishaps, left>>
    BY <1>3 DEF GiveUp, CrashWaiting, disk, past
  <2>2. QED
    BY <2>1, OutsiderIsTyped
<1>4. ASSUME NEW p \in Process, Lock(p)
      PROVE  TypedInv'
  <2>1. /\ ~Busy /\ txn'.stage = "begun" /\ txn'.tree = slots /\ txn'.saved = registry
        /\ pc' = [pc EXCEPT ![p] = "holding"]
        /\ mishaps' \subseteq mishaps \cup {"stale"}
        /\ UNCHANGED <<slots, registry, settings, read, left>>
    BY <1>4 DEF Lock, Free, NoTxn, Busy, disk
  <2>2. pc' \in [Process -> {"idle", "waiting", "holding"}] /\ mishaps' \subseteq Mishaps
    BY <1>0, <2>1 DEF Mishaps
  <2>3. TypeOK'
    BY <1>0, <2>1, <2>2 DEF TypedInv, TypeOK, Forward
  <2>4. CarriedInv'
    BY <1>0, <2>1 DEF CarriedInv, Busy, Mutating
  <2>5. \A q \in Process : pc'[q] = "holding" => q = p
    BY <1>0, <2>1 DEF TypedInv, HolderInv
  <2>6. HolderInv'
    BY <2>1, <2>5 DEF HolderInv, Busy
  <2>7. QED
    BY <2>3, <2>4, <2>6 DEF TypedInv
<1>5. ASSUME NEW p \in Process, Crash(p)
      PROVE  TypedInv'
  <2>1. pc[p] = "holding" /\ Release(p) /\ UNCHANGED <<slots, registry, settings, left>>
        /\ mishaps' \subseteq mishaps \cup {"crash", "torn"}
    BY <1>5 DEF Crash, disk
  <2>2. mishaps' \subseteq Mishaps
    BY <1>0, <2>1 DEF Mishaps
  <2>3. QED
    BY <1>0, <2>1, <2>2, HolderLetsGo
<1>6. ASSUME NEW p \in Process, CleanUp(p)
      PROVE  TypedInv'
  <2>1. registry' = Dropped(registry, Stale) /\ UNCHANGED <<slots, settings, read, pc, txn, mishaps, left>>
    BY <1>6 DEF CleanUp, past
  <2>2. registry' \in Registers
    BY <1>0, <2>1, DroppingKeeps
  <2>3. TypeOK'
    BY <2>1, <2>2 DEF TypedInv, TypeOK, Registers
  <2>4. CarriedInv' /\ HolderInv'
    BY <2>1 DEF TypedInv, CarriedInv, HolderInv, Busy
  <2>5. QED
    BY <2>3, <2>4 DEF TypedInv
<1>7. QED
  BY <1>1, <1>2, <1>3, <1>4, <1>5, <1>6, MutationIsTyped, RestorationIsTyped DEF Next, Proceeds

-----------------------------------------------------------------------------
(* Until the mutated registry is stored the file is the one put aside, and *)
(* it is again at the end of a restoration; the tree then is the copy.     *)
BackInv ==
    /\ txn.stage \in {"begun", "archived", "copied", "enrolled", "accepted", "registry back"} =>
          registry = txn.saved
    /\ txn.stage \in {"begun", "tree back", "registry back"} => slots = txn.tree

(* Until it is enrolled, a new version leaves the active ones and the      *)
(* records of other plugins alone, and what its own plugin has active is   *)
(* what is recorded last.                                                  *)
ComingInv ==
    txn.stage \in {"archived", "copied"} =>
        /\ txn.registry.active = registry.active
        /\ \A y \in Plugin \ {txn.plugin} : txn.registry.kept[y] = registry.kept[y]
        /\ Range(txn.registry.kept[txn.plugin]) \subseteq Range(registry.kept[txn.plugin])
        /\ registry.active[txn.plugin] # None =>
              /\ txn.registry.kept[txn.plugin] # <<>>
              /\ Latest(txn.registry.kept[txn.plugin]) = registry.active[txn.plugin]

PlanInv == BackInv /\ ComingInv

LEMMA ComingStarts ==
    ASSUME TypedInv, Coherent(registry), NEW x \in Plugin, NEW v \in Versions,
           registry' = registry, txn'.plugin = x, txn'.registry = WithArchived(registry, x, v)
    PROVE  ComingInv'
<1> DEFINE reg == WithArchived(registry, x, v)
<1>1. registry \in Registers
  BY DEF TypedInv, TypeOK, Registers
<1>2. /\ reg.active = registry.active
      /\ \A y \in Plugin \ {x} : reg.kept[y] = registry.kept[y]
      /\ Range(reg.kept[x]) \subseteq Range(registry.kept[x])
      /\ registry.active[x] # None => reg.kept[x] # <<>> /\ Latest(reg.kept[x]) = registry.active[x]
  BY <1>1, ArchivingKeeps
<1>3. txn'.registry = reg
  OBVIOUS
<1> HIDE DEF reg
<1>4. QED
  BY <1>2, <1>3 DEF ComingInv, Latest

LEMMA MutationIsPlanned ==
    ASSUME TypedInv, PlanInv, NEW p \in Process, Mutates(p)
    PROVE  PlanInv'
<1>1. ASSUME NEW x \in Plugin, NEW v \in Versions, Install(p, x, v)
      PROVE  PlanInv'
  <2>1. Coherent(registry) /\ txn.stage = "begun" /\ txn'.stage = "copied"
        /\ registry' = registry /\ txn'.saved = txn.saved
        /\ txn'.plugin = x /\ txn'.registry = WithArchived(registry, x, v)
    BY <1>1 DEF Install, Valid, At, Works
  <2>2. BackInv'
    BY <2>1 DEF PlanInv, BackInv
  <2>3. QED
    BY <2>1, <2>2, ComingStarts DEF PlanInv
<1>2. ASSUME NEW x \in Plugin, NEW v \in Versions, Update(p, x, v)
      PROVE  PlanInv'
  <2>1. Coherent(registry) /\ txn.stage = "begun" /\ txn'.stage = "archived"
        /\ registry' = registry /\ txn'.saved = txn.saved
        /\ txn'.plugin = x /\ txn'.registry = WithArchived(registry, x, v)
    BY <1>2 DEF Update, Valid, At, Works
  <2>2. BackInv'
    BY <2>1 DEF PlanInv, BackInv
  <2>3. QED
    BY <2>1, <2>2, ComingStarts DEF PlanInv
<1>3. ASSUME NEW x \in Plugin, NEW v \in Versions, Rollback(p, x, v)
      PROVE  PlanInv'
  BY <1>3 DEF Rollback, At, Works, PlanInv, BackInv, ComingInv
<1>4. ASSUME NEW x \in Plugin, Enable(p, x) \/ Disable(p, x) \/ Uninstall(p, x)
      PROVE  PlanInv'
  <2>1. /\ txn.stage = "begun" /\ txn'.stage \in {"stored", "accepted"}
        /\ registry' = registry /\ txn'.saved = txn.saved
    BY <1>4 DEF Enable, Disable, Uninstall, At, Works, disk
  <2>2. QED
    BY <2>1 DEF PlanInv, BackInv, ComingInv
<1>5. CASE CopyIn(p)
  <2>1. /\ txn.stage = "archived" /\ txn'.stage = "copied" /\ registry' = registry
        /\ txn'.saved = txn.saved
        /\ txn'.plugin = txn.plugin /\ txn'.registry = txn.registry
    BY <1>5 DEF CopyIn, At, Goes, Works
  <2>2. BackInv'
    BY <2>1 DEF PlanInv, BackInv
  <2>3. ComingInv'
    BY <2>1 DEF PlanInv, ComingInv, Latest
  <2>4. QED
    BY <2>2, <2>3 DEF PlanInv
<1>6. CASE Enrol(p)
  BY <1>6 DEF Enrol, At, Works, PlanInv, BackInv, ComingInv
<1>7. CASE Accept(p)
  BY <1>7 DEF Accept, At, Goes, Works, disk, PlanInv, BackInv, ComingInv
<1>8. CASE Store(p)
  <2>1. txn'.stage \in {"stored", "done"}
    BY <1>8 DEF Store, Goes, Works, Turns
  <2>2. QED
    BY <2>1 DEF PlanInv, BackInv, ComingInv
<1>9. CASE WriteSettings(p)
  BY <1>9 DEF WriteSettings, At, Turns, PlanInv, BackInv, ComingInv
<1>10. CASE Finish(p)
  BY <1>10 DEF Finish, Release, NoTxn, PlanInv, BackInv, ComingInv
<1>11. QED
  BY <1>1, <1>2, <1>3, <1>4, <1>5, <1>6, <1>7, <1>8, <1>9, <1>10 DEF Mutates

LEMMA StepIsPlanned ==
    ASSUME TypedInv, PlanInv, [Next]_vars
    PROVE  PlanInv'
<1>1. CASE UNCHANGED vars
  BY <1>1 DEF vars, PlanInv, BackInv, ComingInv, Latest
<1>2. ASSUME NEW p \in Process, Begin(p) \/ GiveUp(p) \/ CrashWaiting(p)
      PROVE  PlanInv'
  <2>1. UNCHANGED <<slots, registry, txn>>
    BY <1>2 DEF Begin, GiveUp, CrashWaiting, disk
  <2>2. QED
    BY <2>1 DEF PlanInv, BackInv, ComingInv, Latest
<1>3. ASSUME NEW p \in Process, Lock(p)
      PROVE  PlanInv'
  BY <1>3 DEF Lock, disk, PlanInv, BackInv, ComingInv
<1>4. ASSUME NEW p \in Process, Crash(p) \/ SettingsBack(p) \/ RestoreFails(p)
      PROVE  PlanInv'
  <2>1. txn'.stage = "none"
    <3>1. Release(p)
      BY <1>4 DEF Crash, SettingsBack, RestoreFails
    <3>2. QED
      BY <3>1 DEF Release, NoTxn
  <2>2. QED
    BY <2>1 DEF PlanInv, BackInv, ComingInv
<1>5. ASSUME NEW p \in Process, CleanUp(p)
      PROVE  PlanInv'
  BY <1>5 DEF CleanUp, Free, NoTxn, PlanInv, BackInv, ComingInv
<1>6. ASSUME NEW p \in Process, Fails(p) \/ Wipe(p) \/ CopyBack(p) \/ StoreBack(p)
      PROVE  PlanInv'
  <2>1. CASE Fails(p) \/ Wipe(p)
    <3>1. txn'.stage \in {"failed", "wiped"}
      BY <2>1 DEF Fails, Wipe, Turns
    <3>2. QED
      BY <3>1 DEF PlanInv, BackInv, ComingInv
  <2>2. CASE CopyBack(p)
    <3>1. txn'.stage = "tree back" /\ slots' = txn.tree /\ txn'.tree = txn.tree
      BY <2>2 DEF CopyBack, Turns
    <3>2. QED
      BY <3>1 DEF PlanInv, BackInv, ComingInv
  <2>3. CASE StoreBack(p)
    <3>1. /\ txn.stage = "tree back" /\ txn'.stage = "registry back"
          /\ slots' = slots /\ txn'.tree = txn.tree
          /\ registry' = txn.saved /\ txn'.saved = txn.saved
      BY <2>3 DEF StoreBack, At, Turns
    <3>2. QED
      BY <3>1 DEF PlanInv, BackInv, ComingInv
  <2>4. QED
    BY <1>6, <2>1, <2>2, <2>3
<1>7. QED
  BY <1>1, <1>2, <1>3, <1>4, <1>5, <1>6, MutationIsPlanned DEF Next, Proceeds, Restores

-----------------------------------------------------------------------------
(* The tree, stage by stage: what is on disk is what is recorded, by the   *)
(* file or by the registry about to be stored, beside what a pruning left. *)
(* A new version is there before it is recorded, and an installed one's    *)
(* surplus versions go only when it is.                                    *)
Tidy == mishaps \subseteq {"stale"}
Neat(reg) == \A x \in Plugin : Len(reg.kept[x]) <= Keep + 1
NewSlot == <<txn.plugin, txn.version>>
Holds(tree, reg, strays) == Recorded(reg) \subseteq tree /\ tree \ Recorded(reg) = strays
ResortedTo ==
    Busy => Holds(txn.tree, txn.saved, left \ Recorded(txn.saved)) /\ Neat(txn.saved)
TreeInv ==
    /\ txn.stage \in {"none", "begun", "stored", "done"} =>
          Holds(slots, registry, left) /\ Neat(registry)
    /\ ResortedTo
    /\ txn.stage \in {"tree back", "registry back"} => left \cap Recorded(txn.saved) = {}
    /\ txn.stage = "archived" =>
          Holds(slots, txn.registry, left) /\ NewSlot \notin slots
    /\ txn.stage = "copied" =>
          /\ Recorded(txn.registry) \cup {NewSlot} \subseteq slots
          /\ slots \subseteq Recorded(registry) \cup {NewSlot} \cup left
          /\ left \subseteq slots \ (Recorded(txn.registry) \cup {NewSlot})
    /\ txn.stage \in {"enrolled", "accepted"} =>
          Holds(slots, txn.registry, left) /\ Neat(txn.registry)

(* A registry that differs from another in the records of x only, and has  *)
(* fewer of these.                                                         *)
Trimmed(reg, old, x) ==
    /\ \A y \in Plugin \ {x} : reg.kept[y] = old.kept[y]
    /\ Range(reg.kept[x]) \subseteq Range(old.kept[x])

LEMMA TrimmedRecords ==
    ASSUME NEW reg, NEW old, NEW x \in Plugin, Trimmed(reg, old, x)
    PROVE  /\ Recorded(reg) \subseteq Recorded(old)
           /\ \A s \in Recorded(old) : s[1] # x => s \in Recorded(reg)
<1>1. ASSUME NEW s \in Recorded(reg)
      PROVE  s \in Recorded(old)
  <2>1. s \in Plugin \X Versions /\ s[1] \in Plugin /\ s[2] \in Range(reg.kept[s[1]])
    BY DEF Recorded
  <2>2. s[2] \in Range(old.kept[s[1]])
    BY <2>1 DEF Trimmed
  <2>3. QED
    BY <2>1, <2>2 DEF Recorded
<1>2. ASSUME NEW s \in Recorded(old), s[1] # x
      PROVE  s \in Recorded(reg)
  <2>1. s \in Plugin \X Versions /\ s[1] \in Plugin /\ s[2] \in Range(old.kept[s[1]])
    BY DEF Recorded
  <2>2. s[2] \in Range(reg.kept[s[1]])
    BY <1>2, <2>1 DEF Trimmed
  <2>3. QED
    BY <2>1, <2>2 DEF Recorded
<1>3. QED
  BY <1>1, <1>2

LEMMA PruningTheTree ==
    ASSUME Holds(slots, registry, left), NEW reg, NEW x \in Plugin,
           Trimmed(reg, registry, x), Prunes(x, reg)
    PROVE  /\ Holds(slots', reg, left')
           /\ slots' \subseteq slots
           /\ left \subseteq left' /\ left' \subseteq left \cup Recorded(registry)
<1> DEFINE old == {s \in slots \ left : s[1] = x /\ s \in Recorded(registry) \ Recorded(reg)}
<1>1. PICK stays \in SUBSET old : slots' = slots \ (old \ stays) /\ left' = left \cup stays
  BY DEF Prunes
<1>2. /\ Recorded(reg) \subseteq Recorded(registry)
      /\ \A s \in Recorded(registry) : s[1] # x => s \in Recorded(reg)
  BY TrimmedRecords
<1>3. Recorded(registry) \subseteq slots /\ slots \ Recorded(registry) = left
  BY DEF Holds
<1>4. old = Recorded(registry) \ Recorded(reg)
  BY <1>2, <1>3
<1> HIDE DEF old
<1>5. Recorded(reg) \subseteq slots' /\ slots' \ Recorded(reg) = left'
  BY <1>1, <1>2, <1>3, <1>4
<1>6. QED
  BY <1>1, <1>4, <1>5 DEF Holds

(* Enrolling the new version: its plugin loses what the new records do not *)
(* name, and nothing else.                                                 *)
LEMMA EnrolledTree ==
    ASSUME TypedInv, PlanInv, TreeInv, txn.stage = "copied",
           NEW reg, reg = Enrolled(txn.registry, txn.plugin, txn.version),
           Prunes(txn.plugin, reg)
    PROVE  /\ Holds(slots', reg, left') /\ Neat(reg)
           /\ left \subseteq left' /\ left' \subseteq left \cup Recorded(registry)
<1> DEFINE x == txn.plugin
           v == txn.version
           plan == txn.registry
<1>1. x \in Plugin /\ v \in Versions /\ plan \in Registers /\ slots \subseteq Plugin \X Versions
  BY DEF TypedInv, TypeOK, CarriedInv, Mutating
<1>2. Trimmed(plan, registry, x) /\ registry = txn.saved
  BY DEF PlanInv, BackInv, ComingInv, Trimmed
<1>3. /\ Recorded(plan) \subseteq slots /\ <<x, v>> \in slots
      /\ \A s \in slots : s \in Recorded(registry) \/ s = <<x, v>> \/ s \in left
      /\ left \subseteq slots /\ left \cap Recorded(plan) = {} /\ <<x, v>> \notin left
  BY DEF TreeInv, NewSlot
<1>4. Neat(registry)
  BY <1>2 DEF TreeInv, ResortedTo, Busy
<1> DEFINE old == {s \in slots \ left : s[1] = x /\ s \in Recorded(registry) \ Recorded(reg)}
<1>5. PICK stays \in SUBSET old : slots' = slots \ (old \ stays) /\ left' = left \cup stays
  BY DEF Prunes
<1> HIDE DEF x, v, plan
<1>6. /\ \A y \in Plugin \ {x} : reg.kept[y] = plan.kept[y]
      /\ Range(reg.kept[x]) \subseteq Range(plan.kept[x]) \cup {v}
      /\ v \in Range(reg.kept[x])
      /\ Len(reg.kept[x]) <= Keep + 1
  <2>1. reg = Enrolled(plan, x, v)
    BY DEF plan, x, v
  <2>2. /\ \A y \in Plugin \ {x} : Enrolled(plan, x, v).kept[y] = plan.kept[y]
        /\ Range(Enrolled(plan, x, v).kept[x]) \subseteq Range(plan.kept[x]) \cup {v}
        /\ v \in Range(Enrolled(plan, x, v).kept[x])
        /\ Len(Enrolled(plan, x, v).kept[x]) <= Keep + 1
    <3>1. \A y \in Plugin \ {x} : Enrolled(plan, x, v).kept[y] = plan.kept[y]
      BY <1>1 DEF Enrolled, Registers
    <3>2. Range(Enrolled(plan, x, v).kept[x]) \subseteq Range(plan.kept[x]) \cup {v}
      BY <1>1, EnrollingKeeps
    <3>3. v \in Range(Enrolled(plan, x, v).kept[x])
      BY <1>1, EnrollingKeeps
    <3>4. Len(Enrolled(plan, x, v).kept[x]) <= Keep + 1
      BY <1>1, EnrollingKeeps
    <3>5. QED
      BY <3>1, <3>2, <3>3, <3>4
  <2>3. QED
    BY <2>1, <2>2
<1>7. ASSUME NEW s \in Recorded(reg)
      PROVE  s \in slots' /\ s \notin left'
  <2>1. s \in Plugin \X Versions /\ s[1] \in Plugin /\ s[2] \in Range(reg.kept[s[1]])
    BY DEF Recorded
  <2>2. s \in Recorded(plan) \/ s = <<x, v>>
    <3>1. CASE s[1] = x /\ s[2] = v
      BY <2>1, <3>1
    <3>2. CASE ~(s[1] = x /\ s[2] = v)
      <4>1. s[2] \in Range(plan.kept[s[1]])
        BY <1>6, <2>1, <3>2
      <4>2. QED
        BY <2>1, <4>1 DEF Recorded
    <3>3. QED
      BY <3>1, <3>2
  <2>3. s \in slots /\ s \notin old /\ s \notin left
    BY <1>3, <2>2
  <2>4. QED
    BY <1>5, <2>3
<1>8. ASSUME NEW s \in slots', s \notin left'
      PROVE  s \in Recorded(reg)
  <2>1. s \in slots /\ s \notin left
        /\ (s \in Recorded(registry) /\ s[1] = x => s \in Recorded(reg))
    BY <1>5, <1>8
  <2>2. CASE s = <<x, v>>
    <3>1. s \in Plugin \X Versions /\ s[1] = x /\ s[2] = v
      BY <1>1, <2>2
    <3>2. s[2] \in Range(reg.kept[s[1]])
      BY <1>6, <3>1
    <3>3. QED
      BY <3>1, <3>2 DEF Recorded
  <2>3. CASE s # <<x, v>> /\ s[1] # x
    <3>1. s \in Recorded(registry)
      BY <1>3, <2>1, <2>3
    <3>2. s \in Recorded(plan)
      BY <1>1, <1>2, <2>3, <3>1, TrimmedRecords
    <3>3. s \in Plugin \X Versions /\ s[1] \in Plugin /\ s[2] \in Range(plan.kept[s[1]])
      BY <3>2 DEF Recorded
    <3>4. s[2] \in Range(reg.kept[s[1]])
      BY <1>6, <2>3, <3>3
    <3>5. QED
      BY <3>3, <3>4 DEF Recorded
  <2>4. QED
    BY <1>3, <2>1, <2>2, <2>3
<1>9. left' \subseteq slots'
  BY <1>3, <1>5
<1>10. Neat(reg)
  <2>1. ASSUME NEW y \in Plugin PROVE Len(reg.kept[y]) <= Keep + 1
    <3>1. CASE y = x
      BY <1>6, <3>1
    <3>2. CASE y # x
      <4>1. reg.kept[y] = registry.kept[y]
        BY <1>2, <1>6, <3>2 DEF Trimmed
      <4>2. QED
        BY <1>4, <4>1 DEF Neat
    <3>3. QED
      BY <3>1, <3>2
  <2>2. QED
    BY <2>1 DEF Neat
<1>11. Holds(slots', reg, left')
  BY <1>7, <1>8, <1>9 DEF Holds
<1>12. left \subseteq left' /\ left' \subseteq left \cup Recorded(registry)
  BY <1>5
<1>13. QED
  BY <1>10, <1>11, <1>12

(* The copy put aside fits the registry put aside, whatever of that        *)
(* registry's records is left over by now.                                 *)
LEMMA CopyStays ==
    ASSUME ResortedTo, Busy, txn'.tree = txn.tree, txn'.saved = txn.saved,
           left' \ Recorded(txn.saved) = left \ Recorded(txn.saved)
    PROVE  ResortedTo'
<1>1. Holds(txn.tree, txn.saved, left \ Recorded(txn.saved)) /\ Neat(txn.saved)
  BY DEF ResortedTo
<1>2. Holds(txn'.tree, txn'.saved, left' \ Recorded(txn'.saved)) /\ Neat(txn'.saved)
  BY <1>1
<1>3. QED
  BY <1>2 DEF ResortedTo, Holds, Neat, Recorded

LEMMA MutationKeepsTree ==
    ASSUME TypedInv, PlanInv, TreeInv, NEW p \in Process, Mutates(p)
    PROVE  TreeInv'
<1>0. registry \in Registers /\ slots \subseteq Plugin \X Versions
  BY DEF TypedInv, TypeOK, Registers
<1>1. ASSUME txn.stage = "begun"
      PROVE  Holds(slots, registry, left) /\ Neat(registry) /\ registry = txn.saved
  BY <1>1 DEF TreeInv, PlanInv, BackInv
<1>2. ASSUME NEW x \in Plugin, NEW v \in Versions, Install(p, x, v)
      PROVE  TreeInv'
  <2> DEFINE reg == WithArchived(registry, x, v)
  <2>1. /\ txn.stage = "begun" /\ Coherent(registry) /\ registry' = registry
        /\ slots' = slots \cup {<<x, v>>} /\ <<x, v>> \notin slots /\ left' = left
        /\ txn'.stage = "copied" /\ txn'.tree = txn.tree /\ txn'.saved = txn.saved
        /\ txn'.plugin = x /\ txn'.version = v /\ txn'.registry = reg
    BY <1>2 DEF Install, IsNew, Valid, At, Works, past
  <2>2. Trimmed(reg, registry, x)
    BY <1>0, <2>1, ArchivingKeeps DEF Trimmed
  <2> HIDE DEF reg
  <2>3. Recorded(reg) \subseteq Recorded(registry)
    BY <2>2, TrimmedRecords
  <2>4. Recorded(registry) \subseteq slots /\ slots \ Recorded(registry) = left
    BY <1>1, <2>1 DEF Holds
  <2>5. ResortedTo'
    BY <2>1, CopyStays DEF TreeInv, Busy
  <2>6. /\ Recorded(reg) \cup {<<x, v>>} \subseteq slots'
        /\ slots' \subseteq Recorded(registry') \cup {<<x, v>>} \cup left'
        /\ left' \subseteq slots' \ (Recorded(reg) \cup {<<x, v>>})
    BY <2>1, <2>3, <2>4
  <2>7. QED
    BY <2>1, <2>5, <2>6 DEF TreeInv, NewSlot, Recorded
<1>3. ASSUME NEW x \in Plugin, NEW v \in Versions, Update(p, x, v)
      PROVE  TreeInv'
  <2> DEFINE reg == WithArchived(registry, x, v)
  <2>1. /\ txn.stage = "begun" /\ Coherent(registry) /\ registry' = registry
        /\ Prunes(x, reg) /\ <<x, v>> \notin slots
        /\ txn'.stage = "archived" /\ txn'.tree = txn.tree /\ txn'.saved = txn.saved
        /\ txn'.plugin = x /\ txn'.version = v /\ txn'.registry = reg
    BY <1>3 DEF Update, IsNew, Valid, At, Works
  <2>2. Trimmed(reg, registry, x)
    <3>1. Coherent(registry)
      BY <2>1
    <3>2. QED
      BY <1>0, <3>1, ArchivingKeeps DEF Trimmed
  <2> HIDE DEF reg
  <2>3. /\ Holds(slots', reg, left') /\ slots' \subseteq slots
        /\ left \subseteq left' /\ left' \subseteq left \cup Recorded(registry)
    BY <1>1, <2>1, <2>2, PruningTheTree
  <2>4. ResortedTo'
    BY <1>1, <2>1, <2>3, CopyStays DEF TreeInv, Busy
  <2>5. QED
    BY <2>1, <2>3, <2>4 DEF TreeInv, NewSlot, Holds, Recorded
<1>4. ASSUME NEW x \in Plugin, NEW v \in Versions, Rollback(p, x, v)
      PROVE  TreeInv'
  <2> DEFINE reg == RolledBack(registry, x, v)
  <2>1. /\ txn.stage = "begun" /\ Coherent(registry) /\ registry' = registry
        /\ Prunes(x, reg)
        /\ txn'.stage = "enrolled" /\ txn'.tree = txn.tree /\ txn'.saved = txn.saved
        /\ txn'.registry = reg
    BY <1>4 DEF Rollback, Valid, At, Works
  <2>2. Trimmed(reg, registry, x) /\ Len(reg.kept[x]) <= Len(registry.kept[x])
        /\ Len(reg.kept[x]) \in Nat /\ Len(registry.kept[x]) \in Nat
    <3>1. reg.kept = WithArchived(registry, x, v).kept /\ reg \in Registers
      BY <1>0, <2>1, RollingBackKeeps
    <3>2. Trimmed(WithArchived(registry, x, v), registry, x)
          /\ Len(WithArchived(registry, x, v).kept[x]) <= Len(registry.kept[x])
      BY <1>0, <2>1, ArchivingKeeps DEF Trimmed
    <3>3. Len(reg.kept[x]) \in Nat /\ Len(registry.kept[x]) \in Nat
      <4> HIDE DEF reg
      <4>1. QED
        BY <1>0, <3>1, RegisterParts, LenProperties
    <3> HIDE DEF reg
    <3>4. QED
      BY <3>1, <3>2, <3>3 DEF Trimmed
  <2> HIDE DEF reg
  <2>3. /\ Holds(slots', reg, left')
        /\ left \subseteq left' /\ left' \subseteq left \cup Recorded(registry)
    BY <1>1, <2>1, <2>2, PruningTheTree
  <2>4. Neat(reg)
    <3>1. ASSUME NEW y \in Plugin PROVE Len(reg.kept[y]) <= Keep + 1
      <4>1. Len(registry.kept[y]) <= Keep + 1
        BY <1>1, <2>1 DEF Neat
      <4>2. CASE y = x
        BY <2>2, <4>1, <4>2, ManagerAssumption
      <4>3. CASE y # x
        BY <2>2, <4>1, <4>3 DEF Trimmed
      <4>4. QED
        BY <4>2, <4>3
    <3>2. QED
      BY <3>1 DEF Neat
  <2>5. ResortedTo'
    BY <1>1, <2>1, <2>3, CopyStays DEF TreeInv, Busy
  <2>6. QED
    BY <2>1, <2>3, <2>4, <2>5 DEF TreeInv, Holds, Recorded, Neat
<1>5. ASSUME NEW x \in Plugin, Enable(p, x) \/ Disable(p, x)
      PROVE  TreeInv'
  <2>1. /\ txn.stage = "begun" /\ txn'.stage = "stored"
        /\ txn'.tree = txn.tree /\ txn'.saved = txn.saved
        /\ UNCHANGED <<slots, registry, left>>
    BY <1>5 DEF Enable, Disable, At, Works, disk, past
  <2>2. ResortedTo'
    BY <2>1, CopyStays DEF TreeInv, Busy
  <2>3. QED
    BY <1>1, <2>1, <2>2 DEF TreeInv, Holds, Recorded, Neat
<1>6. ASSUME NEW x \in Plugin, Uninstall(p, x)
      PROVE  TreeInv'
  <2> DEFINE reg == Dropped(registry, {x})
  <2>1. /\ txn.stage = "begun" /\ registry' = registry
        /\ slots' = slots \ {s \in Recorded(registry) : s[1] = x}
        /\ txn'.stage = "accepted" /\ txn'.tree = txn.tree /\ txn'.saved = txn.saved
        /\ txn'.registry = reg /\ left' = left
    BY <1>6 DEF Uninstall, At, Works, past
  <2>2. \A y \in Plugin : reg.kept[y] = IF y = x THEN <<>> ELSE registry.kept[y]
    BY <1>0, DroppingKeeps
  <2> HIDE DEF reg
  <2>3. Range(<<>>) = {}
    BY DEF Range
  <2>4. Holds(slots', reg, left')
    <3>1. \A s \in Plugin \X Versions : s[1] \in Plugin
      OBVIOUS
    <3>2. \A s \in Plugin \X Versions :
             s[2] \in Range(reg.kept[s[1]]) <=> s[1] # x /\ s[2] \in Range(registry.kept[s[1]])
      BY <2>2, <2>3, <3>1
    <3>3. Recorded(reg) = {s \in Recorded(registry) : s[1] # x}
      BY <3>2 DEF Recorded
    <3>4. Recorded(registry) \subseteq slots /\ slots \ Recorded(registry) = left
      BY <1>1, <2>1 DEF Holds
    <3>5. QED
      BY <2>1, <3>3, <3>4 DEF Holds
  <2>5. Neat(reg)
    <3>1. \A y \in Plugin : Len(registry.kept[y]) <= Keep + 1
      BY <1>1, <2>1 DEF Neat
    <3>2. Len(<<>>) = 0 /\ 0 <= Keep + 1
      BY ManagerAssumption
    <3>3. QED
      BY <2>2, <3>1, <3>2 DEF Neat
  <2>6. ResortedTo'
    BY <2>1, CopyStays DEF TreeInv, Busy
  <2>7. QED
    BY <2>1, <2>4, <2>5, <2>6 DEF TreeInv, Holds, Recorded, Neat
<1>7. CASE CopyIn(p)
  <2>1. /\ txn.stage = "archived" /\ registry' = registry
        /\ slots' = slots \cup {<<txn.plugin, txn.version>>}
        /\ txn'.stage = "copied" /\ txn'.tree = txn.tree /\ txn'.saved = txn.saved
        /\ txn'.plugin = txn.plugin /\ txn'.version = txn.version
        /\ txn'.registry = txn.registry /\ left' = left
    BY <1>7 DEF CopyIn, At, Goes, Works, past
  <2>2. /\ Recorded(txn.registry) \subseteq slots /\ slots \ Recorded(txn.registry) = left
        /\ NewSlot \notin slots
    BY <2>1 DEF TreeInv, Holds
  <2>3. txn.plugin \in Plugin /\ Trimmed(txn.registry, registry, txn.plugin)
    BY <2>1 DEF TypedInv, CarriedInv, Mutating, PlanInv, ComingInv, Trimmed
  <2>4. /\ Recorded(txn.registry) \subseteq Recorded(registry)
        /\ \A s \in Recorded(registry) : s[1] # txn.plugin => s \in Recorded(txn.registry)
    BY <2>3, TrimmedRecords
  <2>5. ResortedTo'
    BY <2>1, CopyStays DEF TreeInv, Busy
  <2>6. /\ Recorded(txn.registry) \cup {NewSlot} \subseteq slots'
        /\ slots' \subseteq Recorded(registry) \cup {NewSlot} \cup left
        /\ left \subseteq slots' \ (Recorded(txn.registry) \cup {NewSlot})
    BY <2>1, <2>2, <2>4 DEF NewSlot
  <2>7. QED
    BY <2>1, <2>5, <2>6 DEF TreeInv, NewSlot, Recorded
<1>8. CASE Enrol(p)
  <2> DEFINE reg == Enrolled(txn.registry, txn.plugin, txn.version)
  <2>1. /\ txn.stage = "copied" /\ Prunes(txn.plugin, reg)
        /\ txn'.stage = "enrolled" /\ txn'.tree = txn.tree /\ txn'.saved = txn.saved
        /\ txn'.registry = reg
    BY <1>8 DEF Enrol, At, Works
  <2>2. registry = txn.saved
    BY <2>1 DEF PlanInv, BackInv
  <2>3. /\ Holds(slots', reg, left') /\ Neat(reg)
        /\ left \subseteq left' /\ left' \subseteq left \cup Recorded(registry)
    BY <2>1, EnrolledTree
  <2> HIDE DEF reg
  <2>4. ResortedTo'
    BY <2>1, <2>2, <2>3, CopyStays DEF TreeInv, Busy
  <2>5. QED
    BY <2>1, <2>3, <2>4 DEF TreeInv, Holds, Recorded, Neat
<1>9. CASE Accept(p)
  <2>1. /\ txn.stage = "enrolled" /\ UNCHANGED <<slots, left>>
        /\ txn'.stage = "accepted" /\ txn'.tree = txn.tree /\ txn'.saved = txn.saved
        /\ txn'.registry = txn.registry
    BY <1>9 DEF Accept, At, Goes, Works, disk, past
  <2>2. Holds(slots, txn.registry, left) /\ Neat(txn.registry)
    BY <2>1 DEF TreeInv
  <2>3. ResortedTo'
    BY <2>1, CopyStays DEF TreeInv, Busy
  <2>4. QED
    BY <2>1, <2>2, <2>3 DEF TreeInv, Holds, Recorded, Neat
<1>10. CASE Store(p)
  <2>1. /\ txn.stage = "accepted" /\ UNCHANGED <<slots, left>> /\ registry' = txn.registry
        /\ txn'.stage \in {"stored", "done"} /\ txn'.tree = txn.tree /\ txn'.saved = txn.saved
    BY <1>10 DEF Store, At, Goes, Works, Turns, past
  <2>2. Holds(slots, txn.registry, left) /\ Neat(txn.registry)
    BY <2>1 DEF TreeInv
  <2>3. ResortedTo'
    BY <2>1, CopyStays DEF TreeInv, Busy
  <2>4. QED
    BY <2>1, <2>2, <2>3 DEF TreeInv, Holds, Recorded, Neat
<1>11. CASE WriteSettings(p)
  <2>1. /\ txn.stage = "stored" /\ UNCHANGED <<slots, registry, left>>
        /\ txn'.stage = "done" /\ txn'.tree = txn.tree /\ txn'.saved = txn.saved
    BY <1>11 DEF WriteSettings, At, Turns, past
  <2>2. Holds(slots, registry, left) /\ Neat(registry)
    BY <2>1 DEF TreeInv
  <2>3. ResortedTo'
    BY <2>1, CopyStays DEF TreeInv, Busy
  <2>4. QED
    BY <2>1, <2>2, <2>3 DEF TreeInv, Holds, Recorded, Neat
<1>12. CASE Finish(p)
  <2>1. txn.stage = "done" /\ UNCHANGED <<slots, registry, left>> /\ txn'.stage = "none"
    BY <1>12 DEF Finish, At, Release, NoTxn, disk, past
  <2>2. Holds(slots, registry, left) /\ Neat(registry)
    BY <2>1 DEF TreeInv
  <2>3. QED
    BY <2>1, <2>2 DEF TreeInv, ResortedTo, Busy, Holds, Recorded, Neat
<1>13. QED
  BY <1>2, <1>3, <1>4, <1>5, <1>6, <1>7, <1>8, <1>9, <1>10, <1>11, <1>12 DEF Mutates

(* Nothing is stale in a coherent registry whose records are in place.     *)
LEMMA NothingStale ==
    ASSUME TypedInv, Coherent(registry), Recorded(registry) \subseteq slots
    PROVE  Stale = {}
<1>1. registry \in Registers
  BY DEF TypedInv, TypeOK, Registers
<1>2. ASSUME NEW x \in Installed(registry)
      PROVE  <<x, registry.active[x]>> \in slots
  <2>1. x \in Plugin /\ registry.active[x] # None
    BY DEF Installed
  <2>2. registry.active[x] \in Versions
    BY <1>1, <2>1, RegisterParts
  <2>3. registry.active[x] \in Range(registry.kept[x])
    BY <2>1 DEF Coherent
  <2> DEFINE s == <<x, registry.active[x]>>
  <2>4. s \in Plugin \X Versions /\ s[1] = x /\ s[2] = registry.active[x]
    BY <2>1, <2>2
  <2>5. s \in Recorded(registry)
    BY <2>3, <2>4 DEF Recorded
  <2>6. QED
    BY <2>5
<1>3. QED
  BY <1>2 DEF Stale

LEMMA StepKeepsTree ==
    ASSUME TypedInv, PlanInv, Coherent(registry), Tidy => TreeInv, [Next]_vars
    PROVE  (Tidy => TreeInv)'
<1> DEFINE Goal == (Tidy => TreeInv)'
<1>1. CASE UNCHANGED vars
  BY <1>1 DEF vars, Tidy, TreeInv, ResortedTo, Busy, Holds, Recorded, Neat, NewSlot
<1>2. ASSUME NEW p \in Process, Begin(p) \/ GiveUp(p) \/ CrashWaiting(p)
      PROVE  Goal
  <2>1. UNCHANGED <<slots, registry, txn, mishaps, left>>
    BY <1>2 DEF Begin, GiveUp, CrashWaiting, disk, past
  <2>2. QED
    BY <2>1 DEF Tidy, TreeInv, ResortedTo, Busy, Holds, Recorded, Neat, NewSlot
<1>3. ASSUME NEW p \in Process, Lock(p)
      PROVE  Goal
  <2>1. /\ txn.stage = "none" /\ txn'.stage = "begun"
        /\ txn'.tree = slots /\ txn'.saved = registry
        /\ mishaps \subseteq mishaps'
        /\ UNCHANGED <<slots, registry, left>>
    BY <1>3 DEF Lock, Free, NoTxn, disk
  <2>2. Tidy' => Holds(slots, registry, left) /\ Neat(registry)
    BY <2>1 DEF Tidy, TreeInv
  <2>3. Tidy' => Holds(slots, registry, left \ Recorded(registry))
    BY <2>2 DEF Holds
  <2>4. QED
    BY <2>1, <2>2, <2>3 DEF TreeInv, ResortedTo, Holds, Recorded, Neat
<1>4. ASSUME NEW p \in Process, Mutates(p)
      PROVE  Goal
  <2>1. mishaps' = mishaps
    BY <1>4 DEF Mutates, Install, Update, Rollback, Enable, Disable, Uninstall,
                CopyIn, Enrol, Accept, Store, WriteSettings, Finish, past
  <2>2. QED
    BY <1>4, <2>1, MutationKeepsTree DEF Tidy
<1>5. ASSUME NEW p \in Process, Crash(p) \/ RestoreFails(p)
      PROVE  Goal
  <2>1. "crash" \in mishaps' \/ "torn" \in mishaps'
    BY <1>5 DEF Crash, RestoreFails
  <2>2. QED
    BY <2>1 DEF Tidy
<1>6. ASSUME NEW p \in Process, SettingsBack(p)
      PROVE  Goal
  <2>1. /\ txn.stage = "registry back" /\ UNCHANGED <<slots, registry, mishaps, left>>
        /\ txn'.stage = "none"
    BY <1>6 DEF SettingsBack, At, Release, NoTxn, past
  <2>2. slots = txn.tree /\ registry = txn.saved
    BY <2>1 DEF PlanInv, BackInv
  <2>3. Tidy => left \cap Recorded(registry) = {} /\ Neat(registry)
                /\ Holds(slots, registry, left \ Recorded(registry))
    BY <2>1, <2>2 DEF TreeInv, ResortedTo, Busy
  <2>4. Tidy => Holds(slots, registry, left)
    BY <2>3 DEF Holds
  <2>5. QED
    BY <2>1, <2>3, <2>4 DEF Tidy, TreeInv, ResortedTo, Busy, Holds, Recorded, Neat
<1>7. ASSUME NEW p \in Process, Fails(p) \/ Wipe(p) \/ CopyBack(p) \/ StoreBack(p)
      PROVE  Goal
  <2>1. /\ Busy /\ txn'.stage \in Backward
        /\ txn'.tree = txn.tree /\ txn'.saved = txn.saved /\ mishaps' = mishaps
        /\ left' \ Recorded(txn.saved) = left \ Recorded(txn.saved)
        /\ txn'.stage \in {"tree back", "registry back"} =>
              \/ left' \cap Recorded(txn.saved) = {}
              \/ txn.stage = "tree back" /\ left' = left
    <3>1. CASE Fails(p)
      BY <3>1 DEF Fails, Turns, Busy, Forward, Backward, past
    <3>2. CASE Wipe(p)
      BY <3>2 DEF Wipe, At, Turns, Busy, Backward, past
    <3>3. CASE CopyBack(p)
      BY <3>3 DEF CopyBack, At, Turns, Busy, Backward
    <3>4. CASE StoreBack(p)
      BY <3>4 DEF StoreBack, At, Turns, Busy, Backward, past
    <3>5. QED
      BY <1>7, <3>1, <3>2, <3>3, <3>4
  <2>2. Tidy => ResortedTo'
    BY <2>1, CopyStays DEF TreeInv
  <2>3. Tidy => (txn'.stage \in {"tree back", "registry back"} =>
                    left' \cap Recorded(txn'.saved) = {})
    BY <2>1 DEF TreeInv
  <2>4. QED
    BY <2>1, <2>2, <2>3 DEF Tidy, TreeInv, Backward, Recorded
<1>8. ASSUME NEW p \in Process, CleanUp(p)
      PROVE  Goal
  <2>1. txn.stage = "none" /\ Stale # {} /\ mishaps' = mishaps
    BY <1>8 DEF CleanUp, Free, NoTxn, past
  <2>2. ~Tidy
    BY <2>1, NothingStale DEF TreeInv, Holds
  <2>3. QED
    BY <2>1, <2>2 DEF Tidy
<1>9. QED
  BY <1>1, <1>2, <1>3, <1>4, <1>5, <1>6, <1>7, <1>8 DEF Next, Proceeds, Restores

-----------------------------------------------------------------------------
(* The active versions, stage by stage: those of the file and, once it is  *)
(* made, those of the registry about to be stored are on disk.             *)
InPlace(reg, tree) == \A x \in Plugin : reg.active[x] # None => <<x, reg.active[x]>> \in tree
PlaceInv ==
    /\ txn.stage \notin Backward /\ ~Uninstalling => InPlace(registry, slots)
    /\ Busy => InPlace(txn.saved, txn.tree)
    /\ txn.stage \in {"archived", "copied"} => registry.active[txn.plugin] # txn.version
    /\ txn.stage = "copied" => NewSlot \in slots
    /\ txn.stage \in {"enrolled", "accepted"} => InPlace(txn.registry, slots)

(* Pruning spares what the new registry records, and other plugins.        *)
LEMMA PruningSpares ==
    ASSUME NEW reg, NEW x \in Plugin, Prunes(x, reg),
           NEW y \in Plugin, NEW w \in Versions, <<y, w>> \in slots,
           y = x => w \in Range(reg.kept[x])
    PROVE  <<y, w>> \in slots'
<1> DEFINE s == <<y, w>>
<1>1. s \in Plugin \X Versions /\ s[1] = y /\ s[2] = w
  OBVIOUS
<1>2. y = x => s \in Recorded(reg)
  BY <1>1 DEF Recorded
<1>3. QED
  BY <1>1, <1>2 DEF Prunes

LEMMA ActivesSurvive ==
    ASSUME TypedInv, InPlace(registry, slots), NEW reg, NEW x \in Plugin, Prunes(x, reg),
           registry.active[x] # None => registry.active[x] \in Range(reg.kept[x])
    PROVE  \A y \in Plugin :
              registry.active[y] # None => <<y, registry.active[y]>> \in slots'
<1>1. registry \in Registers
  BY DEF TypedInv, TypeOK, Registers
<1>2. ASSUME NEW y \in Plugin, registry.active[y] # None
      PROVE  <<y, registry.active[y]>> \in slots'
  <2>1. registry.active[y] \in Versions
    BY <1>1, <1>2, RegisterParts
  <2>2. <<y, registry.active[y]>> \in slots
    BY <1>2 DEF InPlace
  <2>3. y = x => registry.active[y] \in Range(reg.kept[x])
    BY <1>2
  <2>4. QED
    BY <2>1, <2>2, <2>3, PruningSpares
<1>3. QED
  BY <1>2

LEMMA MutationKeepsPlaces ==
    ASSUME Keep > 0, TypedInv, PlanInv, PlaceInv, NEW p \in Process, Mutates(p)
    PROVE  PlaceInv'
<1>0. registry \in Registers /\ slots \subseteq Plugin \X Versions
  BY DEF TypedInv, TypeOK, Registers
<1>1. ASSUME txn.stage \in {"begun", "archived", "copied", "enrolled", "stored", "done"}
      PROVE  InPlace(registry, slots) /\ InPlace(txn.saved, txn.tree)
  BY <1>1 DEF PlaceInv, Busy, Backward, Uninstalling
<1>2. ASSUME NEW x \in Plugin, NEW v \in Versions, Install(p, x, v)
      PROVE  PlaceInv'
  <2>1. /\ txn.stage = "begun" /\ registry' = registry
        /\ <<x, v>> \notin slots /\ slots' = slots \cup {<<x, v>>}
        /\ txn'.stage = "copied" /\ txn'.tree = txn.tree /\ txn'.saved = txn.saved
        /\ txn'.plugin = x /\ txn'.version = v
    BY <1>2 DEF Install, IsNew, At, Works
  <2>2. registry.active[x] # v
    BY <1>1, <2>1, ManagerAssumption DEF InPlace
  <2>3. QED
    BY <1>1, <2>1, <2>2 DEF PlaceInv, InPlace, NewSlot
<1>3. ASSUME NEW x \in Plugin, NEW v \in Versions, Update(p, x, v)
      PROVE  PlaceInv'
  <2> DEFINE reg == WithArchived(registry, x, v)
  <2>1. /\ txn.stage = "begun" /\ Coherent(registry) /\ registry' = registry
        /\ <<x, v>> \notin slots /\ Prunes(x, reg)
        /\ txn'.stage = "archived" /\ txn'.tree = txn.tree /\ txn'.saved = txn.saved
        /\ txn'.plugin = x /\ txn'.version = v
    BY <1>3 DEF Update, Valid, IsNew, At, Works
  <2>2. registry.active[x] # v
    BY <1>1, <2>1, ManagerAssumption DEF InPlace
  <2>3. registry.active[x] # None => registry.active[x] \in Range(reg.kept[x])
    BY <1>0, <2>1, ArchivingKeeps
  <2> HIDE DEF reg
  <2>4. \A y \in Plugin : registry.active[y] # None => <<y, registry.active[y]>> \in slots'
    BY <1>1, <2>1, <2>3, ActivesSurvive
  <2>5. QED
    BY <1>1, <2>1, <2>2, <2>4 DEF PlaceInv, InPlace, NewSlot
<1>4. ASSUME NEW x \in Plugin, NEW v \in Versions, Rollback(p, x, v)
      PROVE  PlaceInv'
  <2> DEFINE reg == RolledBack(registry, x, v)
  <2>1. /\ txn.stage = "begun" /\ Coherent(registry) /\ Recorded(registry) \subseteq slots
        /\ v \in Range(registry.kept[x])
        /\ registry' = registry /\ Prunes(x, reg)
        /\ txn'.stage = "enrolled" /\ txn'.tree = txn.tree /\ txn'.saved = txn.saved
        /\ txn'.plugin = x /\ txn'.registry = reg
    BY <1>4 DEF Rollback, Valid, At, Works
  <2>2. /\ registry.active[x] # None => registry.active[x] \in Range(reg.kept[x])
        /\ v \in Range(reg.kept[x])
        /\ reg.active = [registry.active EXCEPT ![x] = v]
    <3>1. /\ reg.kept = WithArchived(registry, x, v).kept
          /\ reg.active = [registry.active EXCEPT ![x] = v]
      BY <1>0, <2>1, RollingBackKeeps
    <3>2. /\ registry.active[x] # None =>
                registry.active[x] \in Range(WithArchived(registry, x, v).kept[x])
          /\ v \in Range(WithArchived(registry, x, v).kept[x])
      BY <1>0, <2>1, ArchivingKeeps
    <3> HIDE DEF reg
    <3>3. QED
      BY <3>1, <3>2
  <2> HIDE DEF reg
  <2>3. \A y \in Plugin : registry.active[y] # None => <<y, registry.active[y]>> \in slots'
    BY <1>1, <2>1, <2>2, ActivesSurvive
  <2>4. <<x, v>> \in slots'
    <3>1. <<x, v>> \in Recorded(registry)
      BY <2>1 DEF Recorded
    <3>2. QED
      BY <2>1, <2>2, <3>1, PruningSpares
  <2>5. registry.active \in [Plugin -> Versions \cup {None}]
    BY <1>0, RegisterParts
  <2>6. \A y \in Plugin : reg.active[y] # None => <<y, reg.active[y]>> \in slots'
    BY <2>2, <2>3, <2>4, <2>5
  <2>7. QED
    BY <1>1, <2>1, <2>3, <2>6 DEF PlaceInv, InPlace
<1>5. ASSUME NEW x \in Plugin, Enable(p, x) \/ Disable(p, x)
      PROVE  PlaceInv'
  <2>1. /\ txn.stage = "begun" /\ txn'.stage = "stored"
        /\ txn'.tree = txn.tree /\ txn'.saved = txn.saved
        /\ UNCHANGED <<slots, registry>>
    BY <1>5 DEF Enable, Disable, At, Works, disk
  <2>2. QED
    BY <1>1, <2>1 DEF PlaceInv, InPlace
<1>6. ASSUME NEW x \in Plugin, Uninstall(p, x)
      PROVE  PlaceInv'
  <2> DEFINE reg == Dropped(registry, {x})
  <2>1. /\ txn.stage = "begun" /\ registry' = registry
        /\ slots' = slots \ {s \in Recorded(registry) : s[1] = x}
        /\ txn'.stage = "accepted" /\ txn'.tree = txn.tree /\ txn'.saved = txn.saved
        /\ txn'.registry = reg /\ txn'.op = "uninstall"
    BY <1>6 DEF Uninstall, At, Works
  <2>2. \A y \in Plugin : reg.active[y] = IF y = x THEN None ELSE registry.active[y]
    BY <1>0, DroppingKeeps
  <2> HIDE DEF reg
  <2>3. Uninstalling'
    BY <2>1 DEF Uninstalling
  <2>4. \A y \in Plugin : reg.active[y] # None => <<y, reg.active[y]>> \in slots'
    BY <1>1, <2>1, <2>2 DEF InPlace
  <2>5. QED
    BY <1>1, <2>1, <2>3, <2>4 DEF PlaceInv, InPlace
<1>7. CASE CopyIn(p)
  <2>1. /\ txn.stage = "archived" /\ registry' = registry
        /\ slots' = slots \cup {<<txn.plugin, txn.version>>}
        /\ txn'.stage = "copied" /\ txn'.tree = txn.tree /\ txn'.saved = txn.saved
        /\ txn'.plugin = txn.plugin /\ txn'.version = txn.version
    BY <1>7 DEF CopyIn, At, Goes, Works
  <2>2. registry.active[txn.plugin] # txn.version
    BY <2>1 DEF PlaceInv
  <2>3. QED
    BY <1>1, <2>1, <2>2 DEF PlaceInv, InPlace, NewSlot
<1>8. CASE Enrol(p)
  <2> DEFINE x == txn.plugin
             v == txn.version
             old == registry.active[x]
             reg == Enrolled(txn.registry, x, v)
  <2>1. /\ txn.stage = "copied" /\ Prunes(x, reg) /\ registry' = registry
        /\ txn'.stage = "enrolled" /\ txn'.tree = txn.tree /\ txn'.saved = txn.saved
        /\ txn'.registry = reg
    BY <1>8 DEF Enrol, At, Works
  <2>2. x \in Plugin /\ v \in Versions /\ txn.registry \in Registers
    BY <2>1 DEF TypedInv, CarriedInv, Mutating
  <2>3. /\ txn.registry.active = registry.active
        /\ old # None => txn.registry.kept[x] # <<>> /\ Latest(txn.registry.kept[x]) = old
        /\ old # v /\ <<x, v>> \in slots
    BY <2>1 DEF PlanInv, ComingInv, PlaceInv, NewSlot
  <2>4. /\ reg.active = [txn.registry.active EXCEPT ![x] = v]
        /\ v \in Range(reg.kept[x])
        /\ txn.registry.kept[x] # <<>> /\ Latest(txn.registry.kept[x]) # v =>
              Latest(txn.registry.kept[x]) \in Range(reg.kept[x])
    <3> HIDE DEF x, v
    <3>1. QED
      BY <2>2, EnrollingKeeps
  <2> HIDE DEF reg, x, v
  <2>5. old # None => old \in Range(reg.kept[x])
    BY <2>3, <2>4
  <2>6. \A y \in Plugin : registry.active[y] # None => <<y, registry.active[y]>> \in slots'
    BY <1>1, <2>1, <2>2, <2>5, ActivesSurvive
  <2>7. <<x, v>> \in slots'
    BY <2>1, <2>2, <2>3, <2>4, PruningSpares
  <2>8. registry.active \in [Plugin -> Versions \cup {None}]
    BY <1>0 DEF Registers
  <2>9. \A y \in Plugin : reg.active[y] # None => <<y, reg.active[y]>> \in slots'
    BY <2>3, <2>4, <2>6, <2>7, <2>8
  <2>10. QED
    BY <1>1, <2>1, <2>6, <2>9 DEF PlaceInv, InPlace
<1>9. CASE Accept(p)
  <2>1. /\ txn.stage = "enrolled" /\ UNCHANGED <<slots, registry>>
        /\ txn'.stage = "accepted" /\ txn'.tree = txn.tree /\ txn'.saved = txn.saved
        /\ txn'.registry = txn.registry
    BY <1>9 DEF Accept, At, Goes, Works, disk
  <2>2. InPlace(txn.registry, slots)
    BY <2>1 DEF PlaceInv
  <2>3. QED
    BY <1>1, <2>1, <2>2 DEF PlaceInv, InPlace
<1>10. CASE Store(p)
  <2>1. /\ txn.stage = "accepted" /\ UNCHANGED slots /\ registry' = txn.registry
        /\ txn'.stage \in {"stored", "done"} /\ txn'.tree = txn.tree /\ txn'.saved = txn.saved
    BY <1>10 DEF Store, At, Goes, Works, Turns
  <2>2. InPlace(txn.registry, slots) /\ InPlace(txn.saved, txn.tree)
    BY <2>1 DEF PlaceInv, Busy
  <2>3. QED
    BY <2>1, <2>2 DEF PlaceInv, InPlace
<1>11. CASE WriteSettings(p)
  <2>1. /\ txn.stage = "stored" /\ UNCHANGED <<slots, registry>>
        /\ txn'.stage = "done" /\ txn'.tree = txn.tree /\ txn'.saved = txn.saved
    BY <1>11 DEF WriteSettings, At, Turns
  <2>2. QED
    BY <1>1, <2>1 DEF PlaceInv, InPlace
<1>12. CASE Finish(p)
  <2>1. txn.stage = "done" /\ UNCHANGED <<slots, registry>> /\ txn'.stage = "none"
    BY <1>12 DEF Finish, At, Release, NoTxn, disk
  <2>2. QED
    BY <1>1, <2>1 DEF PlaceInv, InPlace, Busy
<1>13. QED
  BY <1>2, <1>3, <1>4, <1>5, <1>6, <1>7, <1>8, <1>9, <1>10, <1>11, <1>12 DEF Mutates

LEMMA StepKeepsPlaces ==
    ASSUME Keep > 0, TypedInv, PlanInv, "torn" \notin mishaps => PlaceInv, [Next]_vars
    PROVE  ("torn" \notin mishaps => PlaceInv)'
<1> DEFINE Goal == ("torn" \notin mishaps => PlaceInv)'
<1>1. CASE UNCHANGED vars
  BY <1>1 DEF vars, PlaceInv, Busy, InPlace, NewSlot, Uninstalling
<1>2. ASSUME NEW p \in Process, Begin(p) \/ GiveUp(p) \/ CrashWaiting(p)
      PROVE  Goal
  <2>1. UNCHANGED <<slots, registry, txn, mishaps>>
    BY <1>2 DEF Begin, GiveUp, CrashWaiting, disk, past
  <2>2. QED
    BY <2>1 DEF PlaceInv, Busy, InPlace, NewSlot, Uninstalling
<1>3. ASSUME NEW p \in Process, Lock(p)
      PROVE  Goal
  <2>1. /\ txn.stage = "none" /\ txn'.stage = "begun"
        /\ txn'.tree = slots /\ txn'.saved = registry
        /\ mishaps \subseteq mishaps'
        /\ UNCHANGED <<slots, registry>>
    BY <1>3 DEF Lock, Free, NoTxn, disk
  <2>2. "torn" \notin mishaps' => InPlace(registry, slots)
    BY <2>1 DEF PlaceInv, Backward, Uninstalling
  <2>3. QED
    BY <2>1, <2>2 DEF PlaceInv, InPlace
<1>4. ASSUME NEW p \in Process, Mutates(p)
      PROVE  Goal
  <2>1. mishaps' = mishaps
    BY <1>4 DEF Mutates, Install, Update, Rollback, Enable, Disable, Uninstall,
                CopyIn, Enrol, Accept, Store, WriteSettings, Finish, past
  <2>2. QED
    BY <1>4, <2>1, MutationKeepsPlaces
<1>5. ASSUME NEW p \in Process, RestoreFails(p)
      PROVE  Goal
  BY <1>5 DEF RestoreFails
<1>6. ASSUME NEW p \in Process, Crash(p)
      PROVE  Goal
  <2>1. /\ txn'.stage = "none" /\ UNCHANGED <<slots, registry>> /\ mishaps \subseteq mishaps'
    <3>1. Release(p)
      BY <1>6 DEF Crash
    <3>2. QED
      BY <1>6, <3>1 DEF Crash, Release, NoTxn, disk
  <2>2. "torn" \notin mishaps' => txn.stage \in Forward /\ ~Uninstalling
    BY <1>6 DEF Crash
  <2>3. "torn" \notin mishaps' => InPlace(registry, slots)
    BY <2>1, <2>2 DEF PlaceInv, Forward, Backward
  <2>4. QED
    BY <2>1, <2>3 DEF PlaceInv, InPlace, Busy
<1>7. ASSUME NEW p \in Process, SettingsBack(p)
      PROVE  Goal
  <2>1. /\ txn.stage = "registry back" /\ UNCHANGED <<slots, registry, mishaps>>
        /\ txn'.stage = "none"
    BY <1>7 DEF SettingsBack, At, Release, NoTxn, past
  <2>2. slots = txn.tree /\ registry = txn.saved
    BY <2>1 DEF PlanInv, BackInv
  <2>3. "torn" \notin mishaps => InPlace(registry, slots)
    BY <2>1, <2>2 DEF PlaceInv, Busy
  <2>4. QED
    BY <2>1, <2>3 DEF PlaceInv, InPlace, Busy
<1>8. ASSUME NEW p \in Process, Fails(p) \/ Wipe(p) \/ CopyBack(p) \/ StoreBack(p)
      PROVE  Goal
  <2>1. /\ Busy /\ txn'.stage \in Backward
        /\ txn'.tree = txn.tree /\ txn'.saved = txn.saved /\ mishaps' = mishaps
    <3>1. CASE Fails(p)
      BY <3>1 DEF Fails, Turns, Busy, Forward, Backward, past
    <3>2. CASE Wipe(p)
      BY <3>2 DEF Wipe, At, Turns, Busy, Backward, past
    <3>3. CASE CopyBack(p)
      BY <3>3 DEF CopyBack, At, Turns, Busy, Backward
    <3>4. CASE StoreBack(p)
      BY <3>4 DEF StoreBack, At, Turns, Busy, Backward, past
    <3>5. QED
      BY <1>8, <3>1, <3>2, <3>3, <3>4
  <2>2. "torn" \notin mishaps => InPlace(txn.saved, txn.tree)
    BY <2>1 DEF PlaceInv
  <2>3. QED
    BY <2>1, <2>2 DEF PlaceInv, Backward, InPlace
<1>9. ASSUME NEW p \in Process, CleanUp(p)
      PROVE  Goal
  <2>1. txn.stage = "none" /\ Stale # {} /\ mishaps' = mishaps
    BY <1>9 DEF CleanUp, Free, NoTxn, past
  <2>2. ~InPlace(registry, slots)
    BY <2>1 DEF Stale, Installed, InPlace
  <2>3. "torn" \in mishaps
    BY <2>1, <2>2 DEF PlaceInv, Backward, Uninstalling
  <2>4. QED
    BY <2>1, <2>3
<1>10. QED
  BY <1>1, <1>2, <1>3, <1>4, <1>5, <1>6, <1>7, <1>8, <1>9 DEF Next, Proceeds, Restores

-----------------------------------------------------------------------------
(* The enabled plugins, stage by stage, as the holder of the locks has     *)
(* read them: what the mutation is to make of them is served by the        *)
(* registry it is to store, and what they were by the one put aside.       *)
Served(reg, enabled) == enabled \subseteq Installed(reg) /\ Satisfied(reg, enabled)
WillBe(enabled) ==
    IF txn.op \in {"install", "enable"} THEN enabled \cup {txn.plugin}
    ELSE IF txn.op \in {"uninstall", "disable"} THEN enabled \ {txn.plugin} ELSE enabled
HolderServedInv(p) ==
    /\ Served(txn.saved, read[p])
    /\ txn.stage \in Forward \ {"done"} => settings = read[p]
    /\ txn.stage = "accepted" => Served(txn.registry, WillBe(read[p]))
    /\ txn.stage = "stored" => Served(registry, WillBe(read[p]))
OpsInv ==
    /\ txn.stage \in {"archived", "copied", "enrolled"} =>
          txn.op \in {"install", "update", "rollback"}
    /\ txn.stage = "enrolled" =>
          /\ txn.registry.active[txn.plugin] # None
          /\ \A x \in Plugin \ {txn.plugin} : txn.registry.active[x] = registry.active[x]
    /\ txn.stage = "accepted" => txn.op \in {"install", "update", "rollback", "uninstall"}
    /\ txn.stage = "stored" => txn.op \in {"install", "enable", "uninstall", "disable"}
ServedInv ==
    /\ txn.stage \in {"none", "done"} => Served(registry, settings)
    /\ \A p \in Process : pc[p] = "holding" => HolderServedInv(p)
    /\ OpsInv

(* Without the plugin that none of them needs, the others are served, and  *)
(* stay so when it is dropped.                                             *)
LEMMA ServedWithout ==
    ASSUME TypedInv, NEW x \in Plugin, NEW enabled \in SUBSET Plugin, Served(registry, enabled),
           Dependents(x, enabled) = {}
    PROVE  /\ Served(registry, enabled \ {x})
           /\ Served(Dropped(registry, {x}), enabled \ {x})
<1> DEFINE reg == Dropped(registry, {x})
<1>0. registry \in Registers
  BY DEF TypedInv, TypeOK, Registers
<1>1. \A y \in Plugin : reg.active[y] = IF y = x THEN None ELSE registry.active[y]
  BY <1>0, DroppingKeeps
<1> HIDE DEF reg
<1>2. ASSUME NEW need \in Needs, need[1] \in enabled \ {x}
      PROVE  /\ need[2] \in enabled \ {x}
             /\ registry.active[need[2]] \in need[3]
  <2>1. need[1] \in enabled \cap Installed(registry)
    BY <1>2 DEF Served
  <2>2. need[2] \in enabled /\ registry.active[need[2]] \in need[3]
    BY <2>1 DEF Served, Satisfied
  <2>3. need[2] # x
    BY <1>2, <2>1 DEF Dependents
  <2>4. QED
    BY <2>2, <2>3
<1>3. Served(registry, enabled \ {x})
  BY <1>2 DEF Served, Satisfied
<1>4. enabled \ {x} \subseteq Installed(reg)
  BY <1>1 DEF Served, Installed
<1>5. Satisfied(reg, enabled \ {x})
  <2>1. ASSUME NEW need \in Needs, need[1] \in enabled \ {x}
        PROVE  need[2] \in enabled \ {x} /\ reg.active[need[2]] \in need[3]
    <3>1. need[2] \in enabled \ {x} /\ registry.active[need[2]] \in need[3]
      BY <1>2, <2>1
    <3>2. reg.active[need[2]] = registry.active[need[2]]
      BY <1>1, <3>1
    <3>3. QED
      BY <3>1, <3>2
  <2>2. QED
    BY <2>1 DEF Satisfied
<1>6. QED
  BY <1>3, <1>4, <1>5 DEF Served, reg

(* The holder's step is the only one that matters to the holder.           *)
LEMMA OnlyTheHolder ==
    ASSUME TypedInv, NEW p \in Process, pc[p] = "holding", UNCHANGED pc, HolderServedInv(p)'
    PROVE  (\A q \in Process : pc[q] = "holding" => HolderServedInv(q))'
<1>1. \A q \in Process : pc'[q] = "holding" => q = p
  BY DEF TypedInv, HolderInv
<1>2. QED
  BY <1>1

LEMMA MutationKeepsServed ==
    ASSUME TypedInv, PlanInv, ServedInv, NEW p \in Process, Mutates(p)
    PROVE  ServedInv'
<1>0. /\ registry \in Registers /\ read[p] \in SUBSET Plugin /\ settings \in SUBSET Plugin
      /\ registry.active \in [Plugin -> Versions \cup {None}]
  BY DEF TypedInv, TypeOK, Registers
<1>1. pc[p] = "holding"
  BY DEF Mutates, Install, Update, Rollback, Enable, Disable, Uninstall,
         CopyIn, Enrol, Accept, Store, WriteSettings, Finish, At
<1>2. /\ Served(txn.saved, read[p])
      /\ txn.stage \in Forward \ {"done"} => settings = read[p]
      /\ txn.stage = "accepted" => Served(txn.registry, WillBe(read[p]))
      /\ txn.stage = "stored" => Served(registry, WillBe(read[p]))
  BY <1>1 DEF ServedInv, HolderServedInv
<1>3. ASSUME txn.stage = "begun"
      PROVE  Served(registry, read[p]) /\ settings = read[p]
  BY <1>2, <1>3 DEF PlanInv, BackInv, Forward
<1>4. ASSUME NEW x \in Plugin, NEW v \in Versions, Install(p, x, v) \/ Update(p, x, v)
      PROVE  ServedInv'
  <2>1. /\ txn.stage = "begun" /\ UNCHANGED <<registry, settings, read, pc>>
        /\ txn'.stage \in {"archived", "copied"} /\ txn'.saved = txn.saved
        /\ txn'.op \in {"install", "update"}
    BY <1>4 DEF Install, Update, At, Works
  <2>2. HolderServedInv(p)'
    BY <1>2, <1>3, <2>1 DEF HolderServedInv, Served, Satisfied, Installed
  <2>3. OpsInv'
    BY <2>1 DEF OpsInv
  <2>4. QED
    BY <1>1, <2>1, <2>2, <2>3, OnlyTheHolder DEF ServedInv
<1>5. ASSUME NEW x \in Plugin, NEW v \in Versions, Rollback(p, x, v)
      PROVE  ServedInv'
  <2>1. /\ txn.stage = "begun" /\ UNCHANGED <<registry, settings, read, pc>>
        /\ Coherent(registry)
        /\ txn'.stage = "enrolled" /\ txn'.saved = txn.saved /\ txn'.op = "rollback"
        /\ txn'.plugin = x /\ txn'.registry = RolledBack(registry, x, v)
    BY <1>5 DEF Rollback, Valid, At, Works
  <2>2. HolderServedInv(p)'
    BY <1>2, <1>3, <2>1 DEF HolderServedInv, Served, Satisfied, Installed
  <2>3. RolledBack(registry, x, v).active = [registry.active EXCEPT ![x] = v] /\ v # None
    BY <1>0, <2>1, RollingBackKeeps, ManagerAssumption
  <2>4. OpsInv'
    BY <1>0, <2>1, <2>3 DEF OpsInv
  <2>5. QED
    BY <1>1, <2>1, <2>2, <2>4, OnlyTheHolder DEF ServedInv
<1>6. ASSUME NEW x \in Plugin, Enable(p, x)
      PROVE  ServedInv'
  <2>1. /\ txn.stage = "begun" /\ UNCHANGED <<registry, settings, read, pc>>
        /\ x \in Installed(registry) /\ Satisfied(registry, read[p] \cup {x})
        /\ txn'.stage = "stored" /\ txn'.saved = txn.saved /\ txn'.op = "enable"
        /\ txn'.plugin = x
    BY <1>6 DEF Enable, At, Works, disk
  <2>2. Served(registry, read[p] \cup {x})
    BY <1>3, <2>1 DEF Served
  <2>3. HolderServedInv(p)'
    BY <1>2, <1>3, <2>1, <2>2 DEF HolderServedInv, Served, Satisfied, Installed, WillBe
  <2>4. OpsInv'
    BY <2>1 DEF OpsInv
  <2>5. QED
    BY <1>1, <2>1, <2>3, <2>4, OnlyTheHolder DEF ServedInv
<1>7. ASSUME NEW x \in Plugin, Disable(p, x)
      PROVE  ServedInv'
  <2>1. /\ txn.stage = "begun" /\ UNCHANGED <<registry, settings, read, pc>>
        /\ Dependents(x, read[p]) = {}
        /\ txn'.stage = "stored" /\ txn'.saved = txn.saved /\ txn'.op = "disable"
        /\ txn'.plugin = x
    BY <1>7 DEF Disable, At, Works, disk
  <2>2. Served(registry, read[p] \ {x})
    BY <1>0, <1>3, <2>1, ServedWithout
  <2>3. HolderServedInv(p)'
    BY <1>2, <1>3, <2>1, <2>2 DEF HolderServedInv, Served, Satisfied, Installed, WillBe
  <2>4. OpsInv'
    BY <2>1 DEF OpsInv
  <2>5. QED
    BY <1>1, <2>1, <2>3, <2>4, OnlyTheHolder DEF ServedInv
<1>8. ASSUME NEW x \in Plugin, Uninstall(p, x)
      PROVE  ServedInv'
  <2> DEFINE reg == Dropped(registry, {x})
  <2>1. /\ txn.stage = "begun" /\ UNCHANGED <<registry, settings, read, pc>>
        /\ Dependents(x, read[p]) = {}
        /\ txn'.stage = "accepted" /\ txn'.saved = txn.saved /\ txn'.op = "uninstall"
        /\ txn'.plugin = x /\ txn'.registry = reg
    BY <1>8 DEF Uninstall, At, Works
  <2>2. Served(reg, read[p] \ {x})
    BY <1>0, <1>3, <2>1, ServedWithout
  <2> HIDE DEF reg
  <2>3. HolderServedInv(p)'
    BY <1>2, <1>3, <2>1, <2>2 DEF HolderServedInv, Served, Satisfied, Installed, WillBe
  <2>4. OpsInv'
    BY <2>1 DEF OpsInv
  <2>5. QED
    BY <1>1, <2>1, <2>3, <2>4, OnlyTheHolder DEF ServedInv
<1>9. CASE CopyIn(p)
  <2>1. /\ txn.stage = "archived" /\ UNCHANGED <<registry, settings, read, pc>>
        /\ txn'.stage = "copied" /\ txn'.saved = txn.saved /\ txn'.op = txn.op
    BY <1>9 DEF CopyIn, At, Goes, Works
  <2>2. HolderServedInv(p)'
    BY <1>2, <2>1 DEF HolderServedInv, Served, Satisfied, Installed, Forward
  <2>3. OpsInv'
    BY <2>1 DEF ServedInv, OpsInv
  <2>4. QED
    BY <1>1, <2>1, <2>2, <2>3, OnlyTheHolder DEF ServedInv
<1>10. CASE Enrol(p)
  <2> DEFINE x == txn.plugin
             v == txn.version
             reg == Enrolled(txn.registry, x, v)
  <2>1. /\ txn.stage = "copied" /\ UNCHANGED <<registry, settings, read, pc>>
        /\ txn'.stage = "enrolled" /\ txn'.saved = txn.saved /\ txn'.op = txn.op
        /\ txn'.plugin = x /\ txn'.registry = reg
    BY <1>10 DEF Enrol, At, Works
  <2>2. x \in Plugin /\ v \in Versions /\ txn.registry \in Registers
    BY <2>1 DEF TypedInv, CarriedInv, Mutating
  <2>3. reg.active = [registry.active EXCEPT ![x] = v]
    <3>1. reg.active = [txn.registry.active EXCEPT ![x] = v]
      <4> HIDE DEF x, v
      <4>1. QED
        BY <2>2, EnrollingKeeps
    <3>2. txn.registry.active = registry.active
      BY <2>1 DEF PlanInv, ComingInv
    <3>3. QED
      BY <3>1, <3>2
  <2>4. v # None
    BY <2>2, ManagerAssumption
  <2> HIDE DEF reg, x, v
  <2>5. HolderServedInv(p)'
    BY <1>2, <2>1 DEF HolderServedInv, Served, Satisfied, Installed, Forward
  <2>6. OpsInv'
    BY <1>0, <2>1, <2>2, <2>3, <2>4 DEF ServedInv, OpsInv
  <2>7. QED
    BY <1>1, <2>1, <2>5, <2>6, OnlyTheHolder DEF ServedInv
<1>11. CASE Accept(p)
  <2> DEFINE x == txn.plugin
             enabled == read[p] \cup (IF txn.op = "install" THEN {x} ELSE {})
  <2>1. /\ txn.stage = "enrolled" /\ UNCHANGED <<registry, settings, read, pc>>
        /\ Satisfied(txn.registry, enabled)
        /\ txn'.stage = "accepted" /\ txn'.saved = txn.saved /\ txn'.op = txn.op
        /\ txn'.plugin = x /\ txn'.registry = txn.registry
    BY <1>11 DEF Accept, At, Goes, Works, disk
  <2>2. /\ txn.op \in {"install", "update", "rollback"}
        /\ txn.registry.active[x] # None
        /\ \A y \in Plugin \ {x} : txn.registry.active[y] = registry.active[y]
    BY <2>1 DEF ServedInv, OpsInv
  <2>3. x \in Plugin
    BY <2>1 DEF TypedInv, CarriedInv, Mutating
  <2>4. read[p] \subseteq Installed(registry)
    BY <1>2, <2>1 DEF PlanInv, BackInv, Served
  <2>5. enabled \subseteq Installed(txn.registry)
    BY <2>2, <2>3, <2>4 DEF Installed
  <2>6. Served(txn.registry, enabled)
    BY <2>1, <2>5 DEF Served
  <2>7. WillBe(read[p]) = enabled
    BY <2>2 DEF WillBe
  <2> HIDE DEF enabled
  <2>8. WillBe(read[p])' = enabled
    BY <2>1, <2>7 DEF WillBe
  <2>9. HolderServedInv(p)'
    <3>1. Served(txn'.registry, WillBe(read[p])')
      BY <2>1, <2>6, <2>8 DEF Served, Satisfied, Installed
    <3>2. Served(txn'.saved, read'[p]) /\ settings' = read'[p]
      BY <1>2, <2>1 DEF Forward
    <3>3. QED
      BY <2>1, <3>1, <3>2 DEF HolderServedInv, Served, Satisfied, Installed
  <2>10. OpsInv'
    BY <2>1, <2>2 DEF OpsInv
  <2>11. QED
    BY <1>1, <2>1, <2>9, <2>10, OnlyTheHolder DEF ServedInv
<1>12. CASE Store(p)
  <2>1. /\ txn.stage = "accepted" /\ registry' = txn.registry /\ UNCHANGED <<settings, read, pc>>
        /\ txn'.saved = txn.saved
        /\ \/ /\ txn.op \in {"install", "uninstall"} /\ txn'.stage = "stored"
              /\ txn'.op = txn.op /\ txn'.plugin = txn.plugin
           \/ txn.op \notin {"install", "uninstall"} /\ txn'.stage = "done"
    BY <1>12 DEF Store, At, Goes, Works, Turns
  <2>2. /\ Served(txn.registry, WillBe(read[p])) /\ settings = read[p]
        /\ txn.op \in {"install", "update", "rollback", "uninstall"}
    BY <1>2, <2>1 DEF Forward, ServedInv, OpsInv
  <2>3. CASE txn'.stage = "stored"
    <3>1. txn'.op = txn.op /\ txn'.plugin = txn.plugin
      BY <2>1, <2>3
    <3>2. WillBe(read[p])' = WillBe(read[p])
      BY <2>1, <3>1 DEF WillBe
    <3>3. Served(registry, WillBe(read[p]))'
      BY <2>1, <2>2, <3>2 DEF Served, Satisfied, Installed
    <3>4. HolderServedInv(p)'
      BY <1>2, <2>1, <2>2, <2>3, <3>3 DEF HolderServedInv, Served, Satisfied, Installed
    <3>5. OpsInv'
      BY <2>1, <2>3 DEF OpsInv
    <3>6. QED
      BY <1>1, <2>1, <2>3, <3>4, <3>5, OnlyTheHolder DEF ServedInv
  <2>4. CASE txn'.stage = "done"
    <3>1. WillBe(read[p]) = read[p]
      BY <2>1, <2>2, <2>4 DEF WillBe
    <3>2. Served(registry, settings)'
      BY <2>1, <2>2, <3>1 DEF Served, Satisfied, Installed
    <3>3. HolderServedInv(p)'
      BY <1>2, <2>1, <2>4 DEF HolderServedInv, Served, Satisfied, Installed
    <3>4. OpsInv'
      BY <2>4 DEF OpsInv
    <3>5. QED
      BY <1>1, <2>1, <3>2, <3>3, <3>4, OnlyTheHolder DEF ServedInv
  <2>5. QED
    BY <2>1, <2>3, <2>4
<1>13. CASE WriteSettings(p)
  <2>1. /\ txn.stage = "stored" /\ txn'.stage = "done" /\ UNCHANGED <<registry, read, pc>>
        /\ txn'.saved = txn.saved
        /\ settings' = IF txn.op \in {"install", "enable"} THEN settings \cup {txn.plugin}
                       ELSE settings \ {txn.plugin}
    BY <1>13 DEF WriteSettings, At, Turns
  <2>2. /\ Served(registry, WillBe(read[p])) /\ settings = read[p]
        /\ txn.op \in {"install", "enable", "uninstall", "disable"}
    BY <1>2, <2>1 DEF Forward, ServedInv, OpsInv
  <2>3. settings' = WillBe(read[p])
    BY <2>1, <2>2 DEF WillBe
  <2>4. Served(registry, settings)'
    BY <2>1, <2>2, <2>3 DEF Served, Satisfied, Installed
  <2>5. HolderServedInv(p)'
    BY <1>2, <2>1 DEF HolderServedInv, Served, Satisfied, Installed
  <2>6. OpsInv'
    BY <2>1 DEF OpsInv
  <2>7. QED
    BY <1>1, <2>1, <2>4, <2>5, <2>6, OnlyTheHolder DEF ServedInv
<1>14. CASE Finish(p)
  <2>1. txn.stage = "done" /\ UNCHANGED <<registry, settings>> /\ txn'.stage = "none"
        /\ pc' = [pc EXCEPT ![p] = "idle"]
    BY <1>14 DEF Finish, At, Release, NoTxn, disk
  <2>2. Served(registry, settings)
    BY <2>1 DEF ServedInv
  <2>3. \A q \in Process : pc'[q] # "holding"
    BY <1>1, <2>1 DEF TypedInv, TypeOK, HolderInv
  <2>4. OpsInv'
    BY <2>1 DEF OpsInv
  <2>5. QED
    BY <2>1, <2>2, <2>3, <2>4 DEF ServedInv, Served, Satisfied, Installed
<1>15. QED
  BY <1>4, <1>5, <1>6, <1>7, <1>8, <1>9, <1>10, <1>11, <1>12, <1>13, <1>14 DEF Mutates

LEMMA StepKeepsServed ==
    ASSUME TypedInv, PlanInv, Coherent(registry), Tidy => TreeInv, mishaps = {} => ServedInv,
           [Next]_vars
    PROVE  (mishaps = {} => ServedInv)'
<1> DEFINE Goal == (mishaps = {} => ServedInv)'
<1>0. /\ pc \in [Process -> {"idle", "waiting", "holding"}] /\ read \in [Process -> SUBSET Plugin]
      /\ txn.stage = "none" => \A q \in Process : pc[q] # "holding"
      /\ \A q, r \in Process : pc[q] = "holding" /\ pc[r] = "holding" => q = r
  BY DEF TypedInv, TypeOK, HolderInv, Busy
<1>1. CASE UNCHANGED vars
  <2>1. UNCHANGED <<slots, registry, settings, read, pc, txn, mishaps>>
    BY <1>1 DEF vars
  <2>2. ASSUME NEW q \in Process, HolderServedInv(q)
        PROVE  HolderServedInv(q)'
    <3>1. WillBe(read[q])' = WillBe(read[q])
      BY <2>1 DEF WillBe
    <3>2. QED
      BY <2>1, <2>2, <3>1 DEF HolderServedInv, Served, Satisfied, Installed
  <2>3. ServedInv => OpsInv'
    BY <2>1 DEF ServedInv, OpsInv
  <2>4. ServedInv => (txn.stage \in {"none", "done"} => Served(registry, settings))'
    BY <2>1 DEF ServedInv, Served, Satisfied, Installed
  <2>5. QED
    BY <2>1, <2>2, <2>3, <2>4 DEF ServedInv
<1>2. ASSUME NEW p \in Process, Begin(p) \/ GiveUp(p) \/ CrashWaiting(p)
      PROVE  Goal
  <2>1. /\ UNCHANGED <<registry, settings, txn, mishaps>>
        /\ pc[p] # "holding" /\ pc'[p] # "holding"
        /\ \A q \in Process \ {p} : pc'[q] = pc[q] /\ read'[q] = read[q]
    BY <1>0, <1>2 DEF Begin, GiveUp, CrashWaiting, disk, past
  <2>2. ASSUME ServedInv, NEW q \in Process, pc'[q] = "holding"
        PROVE  HolderServedInv(q)'
    <3>1. q # p /\ pc[q] = "holding" /\ read'[q] = read[q]
      BY <2>1, <2>2
    <3>2. HolderServedInv(q)
      BY <2>2, <3>1 DEF ServedInv
    <3>3. WillBe(read[q])' = WillBe(read[q])
      BY <2>1, <3>1 DEF WillBe
    <3>4. QED
      BY <2>1, <3>1, <3>2, <3>3 DEF HolderServedInv, Served, Satisfied, Installed
  <2>3. ServedInv => OpsInv'
    BY <2>1 DEF ServedInv, OpsInv
  <2>4. ServedInv => (txn.stage \in {"none", "done"} => Served(registry, settings))'
    BY <2>1 DEF ServedInv, Served, Satisfied, Installed
  <2>5. QED
    BY <2>1, <2>2, <2>3, <2>4 DEF ServedInv
<1>3. ASSUME NEW p \in Process, Lock(p)
      PROVE  Goal
  <2>1. /\ txn.stage = "none" /\ txn'.stage = "begun" /\ txn'.saved = registry
        /\ mishaps' = {} => mishaps = {} /\ read[p] = settings
        /\ pc' = [pc EXCEPT ![p] = "holding"]
        /\ UNCHANGED <<registry, settings, read>>
    BY <1>3 DEF Lock, Free, NoTxn, disk
  <2>2. mishaps' = {} => Served(registry, read[p])
    BY <2>1 DEF ServedInv
  <2>3. \A q \in Process : pc'[q] = "holding" => q = p
    BY <1>0, <2>1
  <2>4. mishaps' = {} => HolderServedInv(p)'
    BY <2>1, <2>2 DEF HolderServedInv, Served, Satisfied, Installed
  <2>5. OpsInv'
    BY <2>1 DEF OpsInv
  <2>6. QED
    BY <2>1, <2>3, <2>4, <2>5 DEF ServedInv
<1>4. ASSUME NEW p \in Process, Mutates(p)
      PROVE  Goal
  <2>1. mishaps' = mishaps
    BY <1>4 DEF Mutates, Install, Update, Rollback, Enable, Disable, Uninstall,
                CopyIn, Enrol, Accept, Store, WriteSettings, Finish, past
  <2>2. QED
    BY <1>4, <2>1, MutationKeepsServed
<1>5. ASSUME NEW p \in Process, Crash(p) \/ RestoreFails(p)
      PROVE  Goal
  BY <1>5 DEF Crash, RestoreFails
<1>6. ASSUME NEW p \in Process, SettingsBack(p)
      PROVE  Goal
  <2>1. /\ txn.stage = "registry back" /\ pc[p] = "holding"
        /\ UNCHANGED <<registry, mishaps>> /\ settings' = read[p]
        /\ txn'.stage = "none" /\ pc' = [pc EXCEPT ![p] = "idle"]
    BY <1>6 DEF SettingsBack, At, Release, NoTxn, past
  <2>2. registry = txn.saved
    BY <2>1 DEF PlanInv, BackInv
  <2>3. mishaps = {} => Served(registry, read[p])
    BY <2>1, <2>2 DEF ServedInv, HolderServedInv
  <2>4. \A q \in Process : pc'[q] # "holding"
    BY <1>0, <2>1
  <2>5. OpsInv'
    BY <2>1 DEF OpsInv
  <2>6. mishaps = {} => Served(registry, settings)'
    BY <2>1, <2>3 DEF Served, Satisfied, Installed
  <2>7. QED
    BY <2>1, <2>4, <2>5, <2>6 DEF ServedInv
<1>7. ASSUME NEW p \in Process, Fails(p) \/ Wipe(p) \/ CopyBack(p) \/ StoreBack(p)
      PROVE  Goal
  <2>1. /\ pc[p] = "holding" /\ txn'.stage \in Backward /\ txn'.saved = txn.saved
        /\ UNCHANGED <<read, pc, mishaps>>
    <3>1. CASE Fails(p)
      BY <3>1 DEF Fails, Turns, Backward, past
    <3>2. CASE Wipe(p)
      BY <3>2 DEF Wipe, At, Turns, Backward, past
    <3>3. CASE CopyBack(p)
      BY <3>3 DEF CopyBack, At, Turns, Backward
    <3>4. CASE StoreBack(p)
      BY <3>4 DEF StoreBack, At, Turns, Backward, past
    <3>5. QED
      BY <1>7, <3>1, <3>2, <3>3, <3>4
  <2>2. ASSUME ServedInv PROVE HolderServedInv(p)'
    <3>1. Served(txn.saved, read[p])
      BY <2>1, <2>2 DEF ServedInv, HolderServedInv
    <3>2. QED
      BY <2>1, <3>1 DEF HolderServedInv, Served, Satisfied, Installed, Forward, Backward
  <2>3. OpsInv'
    BY <2>1 DEF OpsInv, Backward
  <2>4. QED
    BY <2>1, <2>2, <2>3, OnlyTheHolder DEF ServedInv, Backward
<1>8. ASSUME NEW p \in Process, CleanUp(p)
      PROVE  Goal
  <2>1. txn.stage = "none" /\ Stale # {} /\ mishaps' = mishaps
    BY <1>8 DEF CleanUp, Free, NoTxn, past
  <2>2. ~Tidy
    BY <2>1, NothingStale DEF TreeInv, Holds
  <2>3. QED
    BY <2>1, <2>2 DEF Tidy
<1>9. QED
  BY <1>1, <1>2, <1>3, <1>4, <1>5, <1>6, <1>7, <1>8 DEF Next, Proceeds, Restores

-----------------------------------------------------------------------------
(* All of it together.                                                     *)
ManagerInv ==
    /\ TypedInv /\ CoherenceInv /\ PlanInv
    /\ Tidy => TreeInv
    /\ Keep > 0 => ("torn" \notin mishaps => PlaceInv)
    /\ mishaps = {} => ServedInv

LEMMA InitIsSound == Init => ManagerInv
<1> SUFFICES ASSUME Init PROVE ManagerInv
  OBVIOUS
<1>1. TypedInv /\ CoherenceInv
  BY InitIsTyped, InitIsCoherent
<1>2. /\ txn.stage = "none" /\ slots = {} /\ settings = {}
      /\ \A x \in Plugin : registry.active[x] = None /\ registry.kept[x] = <<>>
      /\ \A p \in Process : pc[p] # "holding"
  BY DEF Init, NoTxn
<1>3. PlanInv
  BY <1>2 DEF PlanInv, BackInv, ComingInv
<1>4. TreeInv
  <2>1. \A s \in Plugin \X Versions : s[1] \in Plugin
    OBVIOUS
  <2>2. Recorded(registry) = {}
    BY <1>2, <2>1 DEF Recorded, Range
  <2>3. Neat(registry)
    BY <1>2, ManagerAssumption DEF Neat
  <2>4. QED
    BY <1>2, <2>2, <2>3 DEF TreeInv, ResortedTo, Holds, Busy, Init
<1>5. PlaceInv
  BY <1>2 DEF PlaceInv, InPlace, Busy
<1>6. ServedInv
  <2>1. Served(registry, settings)
    BY <1>2 DEF Served, Satisfied
  <2>2. OpsInv
    BY <1>2 DEF OpsInv
  <2>3. QED
    BY <1>2, <2>1, <2>2 DEF ServedInv
<1>7. QED
  BY <1>1, <1>3, <1>4, <1>5, <1>6 DEF ManagerInv

LEMMA StepIsSound == ManagerInv /\ [Next]_vars => ManagerInv'
<1> SUFFICES ASSUME ManagerInv, [Next]_vars PROVE ManagerInv'
  OBVIOUS
<1>1. /\ TypedInv /\ CoherenceInv /\ PlanInv /\ Coherent(registry)
      /\ Tidy => TreeInv
      /\ Keep > 0 => ("torn" \notin mishaps => PlaceInv)
      /\ mishaps = {} => ServedInv
  BY DEF ManagerInv, CoherenceInv
<1>2. TypedInv' /\ CoherenceInv' /\ PlanInv'
  BY <1>1, StepIsTyped, StepIsCoherent, StepIsPlanned
<1>3. (Tidy => TreeInv)'
  BY <1>1, StepKeepsTree
<1>4. ASSUME Keep > 0 PROVE ("torn" \notin mishaps => PlaceInv)'
  BY <1>1, <1>4, StepKeepsPlaces
<1>5. (mishaps = {} => ServedInv)'
  BY <1>1, StepKeepsServed
<1>6. QED
  BY <1>2, <1>3, <1>4, <1>5 DEF ManagerInv

LEMMA ManagerIsSound == Spec => []ManagerInv
BY InitIsSound, StepIsSound, PTL DEF Spec

\* The registry, the tree and the settings keep their form, and transactions
\* go through the stages of the code, whatever commands, failures and
\* crashes there are.
THEOREM ManagerTypeOK == Spec => []TypeOK
<1>1. ManagerInv => TypeOK
  BY DEF ManagerInv, TypedInv
<1>2. QED
  BY <1>1, ManagerIsSound, PTL

\* Unless a process died or a restoration failed, the tree at rest holds the
\* recorded versions and no others but those a pruning could not remove, and
\* no plugin has more than Keep beside one: copies, prunings, uninstallations,
\* refusals and restorations, in any order and by any processes, agree on what
\* is installed (prune_archived_versions, lib.rs:14719).
THEOREM ManagerTreeIsTheRegistry == Spec => []TreeIsTheRegistry
<1>1. ManagerInv => TreeIsTheRegistry
  BY DEF ManagerInv, TreeIsTheRegistry, Tidy, TreeInv, Holds, Neat, Free, NoTxn
<1>2. QED
  BY <1>1, ManagerIsSound, PTL

\* With keepVersions above 0, the active version of every plugin is on disk
\* at any moment, but for uninstallations and restorations under way or cut
\* short: no listing after a crash in an install, update or rollback takes a
\* plugin for gone.
THEOREM ManagerActiveIsInPlace == Spec => []ActiveIsInPlace
<1>1. ASSUME ManagerInv, Keep > 0, "torn" \notin mishaps, txn.stage \notin Backward, ~Uninstalling
      PROVE  Stale = {}
  <2>1. InPlace(registry, slots)
    BY <1>1 DEF ManagerInv, PlaceInv
  <2>2. QED
    BY <2>1 DEF InPlace, Stale, Installed
<1>2. ManagerInv => ActiveIsInPlace
  BY <1>1 DEF ActiveIsInPlace
<1>3. QED
  BY <1>2, ManagerIsSound, PTL

\* As long as no process died and none acted on settings that had changed
\* since it read them, every plugin enabled at rest is installed and has what
\* it needs, enabled and in versions it accepts.
THEOREM ManagerEnabledAreServed == Spec => []EnabledAreServed
<1>1. ManagerInv => EnabledAreServed
  BY DEF ManagerInv, EnabledAreServed, ServedInv, Served, Free, NoTxn
<1>2. QED
  BY <1>1, ManagerIsSound, PTL
=============================================================================

--------------------------- MODULE ValueTable_proofs ---------------------------
(***************************************************************************)
(* Theorems about ValueTable for any values and any number of handles: a   *)
(* handle denotes its value while Go has it, and no slot is lost.          *)
(***************************************************************************)
EXTENDS ValueTable, FiniteSetTheorems, SequenceTheorems, TLAPS

USE HandlesAssumption, ObjectsAssumption, InfinityAssumption, FreeAssumption,
    BoundAssumption

-----------------------------------------------------------------------------
(***************************************************************************)
(* Data.                                                                   *)
(***************************************************************************)
LEMMA RefFields ==
    ASSUME NEW r \in Ref
    PROVE  /\ r.kind \in {"empty", "bits", "box"}
           /\ r = Empty <=> r.kind = "empty"
           /\ r.kind = "bits" => r.value \in Immediates
           /\ r.kind = "box" => /\ r.id \in Nat /\ r.typed \in BOOLEAN
                                /\ r = Box(r.id, r.typed)
  BY DEF Ref, Empty, Box

LEMMA NewRefs ==
    /\ Empty \in Ref /\ Empty.kind = "empty"
    /\ \A v \in Immediates :
          Bits(v) \in Ref /\ Bits(v).kind = "bits" /\ Bits(v).value = v
    /\ \A i \in Nat, t \in BOOLEAN :
          /\ Box(i, t) \in Ref /\ Box(i, t).kind = "box"
          /\ Box(i, t).id = i /\ Box(i, t).typed = t
  BY DEF Ref, Empty, Bits, Box

LEMMA NaNRef ==
    /\ Box(0, FALSE) \in Ref /\ Box(0, FALSE).kind = "box"
    /\ Box(0, FALSE).id = 0 /\ Box(0, FALSE).typed = FALSE
  <1>1. 0 \in Nat /\ FALSE \in BOOLEAN
    OBVIOUS
  <1>2. /\ Box(0, FALSE).kind = "box"
        /\ Box(0, FALSE).id = 0 /\ Box(0, FALSE).typed = FALSE
    BY Zenon DEF Box
  <1>3. Box(0, FALSE) \in Ref
    BY <1>1, NewRefs, Zenon
  <1>. QED  BY <1>2, <1>3

LEMMA PermanentNames ==
    /\ \A i \in PermanentIDs : Permanent[i + 1] \in PermanentValues
    /\ \A i \in PermanentIDs : Permanent[i + 1] = "NaN" <=> i = 0
    /\ \A v \in PermanentValues : \E i \in PermanentIDs : Permanent[i + 1] = v
  <1>1. /\ Permanent[1] = "NaN" /\ Permanent[2] = "0" /\ Permanent[3] = "null"
        /\ Permanent[4] = "true" /\ Permanent[5] = "false"
        /\ Permanent[6] = "globalThis" /\ Permanent[7] = "go"
    BY DEF Permanent
  <1>2. \A i \in PermanentIDs :
           i = 0 \/ i = 1 \/ i = 2 \/ i = 3 \/ i = 4 \/ i = 5 \/ i = 6
    BY DEF PermanentIDs
  <1>3. /\ 0 \in PermanentIDs /\ 1 \in PermanentIDs /\ 2 \in PermanentIDs
        /\ 3 \in PermanentIDs /\ 4 \in PermanentIDs /\ 5 \in PermanentIDs
        /\ 6 \in PermanentIDs
    BY DEF PermanentIDs
  <1>4. ASSUME NEW i \in PermanentIDs
        PROVE  /\ Permanent[i + 1] \in PermanentValues
               /\ Permanent[i + 1] = "NaN" <=> i = 0
    BY <1>1, <1>2 DEF PermanentValues
  <1>5. ASSUME NEW v \in PermanentValues
        PROVE  \E i \in PermanentIDs : Permanent[i + 1] = v
    BY <1>1, <1>3 DEF PermanentValues
  <1>. QED  BY <1>4, <1>5

LEMMA TypedValues ==
    /\ \A v \in Values : Typed(v) \in BOOLEAN
    /\ Typed("NaN") = FALSE
    /\ \A v \in Objects : Typed(v) <=> v \notin Untyped
  BY DEF Typed, PermanentValues

LEMMA AllButLast ==
    ASSUME NEW S, NEW s \in Seq(S), s # <<>>
    PROVE  /\ Len(s) \in Nat \ {0} /\ Len(s) \in 1..Len(s)
           /\ Len(SubSeq(s, 1, Len(s) - 1)) = Len(s) - 1
           /\ SubSeq(s, 1, Len(s) - 1) \in Seq(S)
           /\ \A m \in 1..(Len(s) - 1) :
                 /\ SubSeq(s, 1, Len(s) - 1)[m] = s[m]
                 /\ m \in 1..Len(s) /\ m # Len(s)
  <1>1. Len(s) \in Nat \ {0} /\ \A m \in 1..Len(s) : s[m] \in S
    OBVIOUS
  <1>. PICK n \in Nat : n = Len(s) - 1
    BY <1>1
  <1>2. \A m \in 1..n : s[m] \in S /\ m \in 1..Len(s) /\ m # Len(s)
    BY <1>1
  <1>3. /\ SubSeq(s, 1, n) \in Seq(S) /\ Len(SubSeq(s, 1, n)) = n
        /\ \A m \in 1..n : SubSeq(s, 1, n)[m] = s[m]
    <2>1. /\ SubSeq(s, 1, n) \in Seq(S)
          /\ Len(SubSeq(s, 1, n)) = IF 1 <= n THEN n - 1 + 1 ELSE 0
          /\ \A m \in 1..(n - 1 + 1) : SubSeq(s, 1, n)[m] = s[1 + m - 1]
      BY <1>2, SubSeqProperties
    <2>2. /\ n - 1 + 1 = n /\ (1 <= n \/ n = 0)
          /\ \A m \in 1..n : 1 + m - 1 = m
      OBVIOUS
    <2>. QED  BY <2>1, <2>2
  <1>4. n = Len(s) - 1 /\ Len(s) \in 1..Len(s)
    BY <1>1
  <1>. QED  BY <1>1, <1>2, <1>3, <1>4, Zenon

LEMMA PermanentsAreLow ==
    \A j \in PermanentIDs :
        /\ \A l \in Nat : l >= 7 => j \in 0..(l - 1)
        /\ \A i \in Nat : i >= 7 => j # i
  BY DEF PermanentIDs

LEMMA PoolGrows ==
    \A k, l \in Nat : \A j \in 7..(k - 1) : k <= l => j \in 7..(l - 1)
  OBVIOUS

LEMMA GrowsByOne ==
    ASSUME NEW l \in Nat, NEW m \in Nat, NEW i, m = l \/ (m = l + 1 /\ i = l)
    PROVE  \A j \in 7..(m - 1) : j # i => j \in 7..(l - 1)
  OBVIOUS

-----------------------------------------------------------------------------
(***************************************************************************)
(* The inductive invariant.  The slots of the seven permanent values stay  *)
(* theirs; _ids and _values agree; the slots in _idPool are in it once and *)
(* no value's, and every other slot is some value's; a js.Value has the    *)
(* slot of the value it was made for; and the count of a typed value is    *)
(* the number of js.Values that hold it.                                   *)
(***************************************************************************)
Fixed ==
    /\ length >= 7
    /\ \A i \in PermanentIDs : values[i] = Permanent[i + 1] /\ counts[i] = Infinity
    /\ \A v \in PermanentValues \ {"NaN"} : v \in DOMAIN ids /\ ids[v] \in PermanentIDs

Found ==
    /\ DOMAIN ids \subseteq (PermanentValues \ {"NaN"}) \cup Objects
    /\ \A v \in DOMAIN ids : values[ids[v]] = v

Pooled ==
    /\ \A n \in 1..Len(idPool) : idPool[n] \in 7..(length - 1)
    /\ \A m, n \in 1..Len(idPool) : idPool[m] = idPool[n] => m = n
    /\ \A n \in 1..Len(idPool) : \A v \in DOMAIN ids : ids[v] # idPool[n]

NoneLost ==
    \A j \in 7..(length - 1) :
        \/ \E n \in 1..Len(idPool) : idPool[n] = j
        \/ \E v \in DOMAIN ids : ids[v] = j

Held ==
    \A h \in Handles :
        /\ refs[h].kind = "bits" => refs[h].value = made[h]
        /\ refs[h].kind = "box" =>
              /\ refs[h].typed = Typed(made[h])
              /\ \/ made[h] = "NaN" /\ refs[h].id = 0
                 \/ made[h] \in DOMAIN ids /\ refs[h].id = ids[made[h]]

Holders(v) == {h \in Handles : refs[h].kind = "box" /\ made[h] = v}

Counted ==
    \A v \in DOMAIN ids \cap (Objects \ Untyped) :
        /\ counts[ids[v]] = Cardinality(Holders(v))
        /\ Holders(v) # {}

IInv == TypeOK /\ Fixed /\ Found /\ Pooled /\ NoneLost /\ Held /\ Counted

-----------------------------------------------------------------------------
LEMMA InitIInv == Init => IInv
  <1>. SUFFICES ASSUME Init PROVE IInv
    OBVIOUS
  <1>1. PermanentIDs = 0..(length - 1) /\ length = 7
    BY DEF Init, PermanentIDs
  <1>2. /\ DOMAIN ids = PermanentValues \ {"NaN"}
        /\ \A v \in DOMAIN ids :
              ids[v] \in PermanentIDs /\ Permanent[ids[v] + 1] = v
    BY PermanentNames DEF Init
  <1>3. /\ \A i \in PermanentIDs : values[i] = Permanent[i + 1] /\ counts[i] = Infinity
        /\ values \in [PermanentIDs -> PermanentValues]
        /\ counts \in [PermanentIDs -> {Infinity}]
    BY PermanentNames DEF Init
  <1>4. refs \in [Handles -> Ref] /\ \A h \in Handles : refs[h].kind = "empty"
    BY NewRefs DEF Init
  <1>5. "null" \in Values
    BY DEF Values, PermanentValues
  <1>6. idPool = <<>> /\ idPool \in Seq(0..(length - 1)) /\ Len(idPool) = 0
    BY DEF Init
  <1>7. TypeOK
    <2>1. made \in [Handles -> Values]
      BY <1>5 DEF Init
    <2>2. DOMAIN ids \subseteq Values /\ PermanentValues \subseteq Values
      BY <1>2 DEF Values
    <2>. QED  BY <1>1, <1>2, <1>3, <1>4, <1>6, <2>1, <2>2 DEF TypeOK
  <1>8. Fixed /\ Found
    BY <1>1, <1>2, <1>3 DEF Fixed, Found
  <1>9. Pooled /\ NoneLost /\ Held
    BY <1>1, <1>4, <1>6 DEF Pooled, NoneLost, Held
  <1>10. Counted
    BY <1>2 DEF Counted
  <1>. QED  BY <1>7, <1>8, <1>9, <1>10 DEF IInv

LEMMA StoreBitsIInv ==
    ASSUME IInv, NEW h \in Handles, NEW v \in Values, refs[h] = Empty,
           made' = [made EXCEPT ![h] = v], StoreBits(h, v)
    PROVE  IInv'
  <1>1. UNCHANGED <<values, length, counts, ids, idPool>>
    BY DEF StoreBits, table
  <1>2. /\ refs \in [Handles -> Ref] /\ made \in [Handles -> Values]
        /\ refs[h].kind = "empty"
    BY NewRefs DEF IInv, TypeOK
  <1>3. \/ v = "NaN" /\ refs'[h] = Box(0, FALSE)
        \/ v \in Immediates /\ refs'[h] = Bits(v)
    BY <1>2 DEF StoreBits, Refer
  <1>4. \/ v = "NaN" /\ refs'[h].kind = "box" /\ refs'[h].id = 0 /\ refs'[h].typed = FALSE
        \/ v \in Immediates /\ refs'[h].kind = "bits" /\ refs'[h].value = v
    <2>1. CASE v = "NaN" /\ refs'[h] = Box(0, FALSE)
      BY <2>1, NaNRef
    <2>2. CASE v \in Immediates /\ refs'[h] = Bits(v)
      BY <2>2, NewRefs
    <2>. QED  BY <1>3, <2>1, <2>2
  <1>5. /\ refs' \in [Handles -> Ref] /\ made' \in [Handles -> Values]
        /\ made'[h] = v
        /\ \A o \in Handles : o # h => refs'[o] = refs[o] /\ made'[o] = made[o]
    <2>1. refs'[h] \in Ref
      <3>1. CASE refs'[h] = Box(0, FALSE)
        BY <3>1, NaNRef, Zenon
      <3>2. CASE v \in Immediates /\ refs'[h] = Bits(v)
        BY <3>2, NewRefs
      <3>. QED  BY <1>3, <3>1, <3>2
    <2>. QED  BY <1>2, <2>1 DEF StoreBits, Refer
  <1>6. TypeOK' /\ Fixed' /\ Found' /\ Pooled' /\ NoneLost'
    <2>1. TypeOK'
      BY <1>1, <1>5 DEF IInv, TypeOK
    <2>2. Fixed' /\ Found'
      BY <1>1 DEF IInv, Fixed, Found
    <2>3. Pooled' /\ NoneLost'
      BY <1>1 DEF IInv, Pooled, NoneLost
    <2>. QED  BY <2>1, <2>2, <2>3
  <1>7. Held'
    <2>1. CASE v = "NaN" /\ refs'[h].kind = "box" /\ refs'[h].id = 0
                         /\ refs'[h].typed = FALSE
      <3>1. refs'[h].typed = Typed(made'[h])
        BY <1>5, <2>1, TypedValues, Zenon
      <3>. QED  BY <1>1, <1>5, <2>1, <3>1 DEF IInv, Held
    <2>2. CASE v \in Immediates /\ refs'[h].kind = "bits" /\ refs'[h].value = v
      BY <1>1, <1>5, <2>2 DEF IInv, Held
    <2>. QED  BY <1>4, <2>1, <2>2
  <1>8. Counted'
    <2>1. SUFFICES ASSUME NEW x \in DOMAIN ids \cap (Objects \ Untyped)
                   PROVE  Holders(x)' = Holders(x)
      BY <1>1, <2>1 DEF IInv, Counted
    <2>2. refs'[h].kind = "box" => made'[h] # x
      BY <1>4, <1>5 DEF PermanentValues
    <2>. QED  BY <1>2, <1>5, <2>2 DEF Holders
  <1>. QED  BY <1>6, <1>7, <1>8 DEF IInv

LEMMA StoreAgainIInv ==
    ASSUME IInv, NEW h \in Handles, NEW v \in Values, refs[h] = Empty,
           made' = [made EXCEPT ![h] = v], StoreAgain(h, v)
    PROVE  IInv'
  <1>1. /\ UNCHANGED <<values, length, ids, idPool>>
        /\ v \in DOMAIN ids /\ ids[v] \in 0..(length - 1)
        /\ counts' = [counts EXCEPT ![ids[v]] = Plus(counts[ids[v]])]
    BY DEF StoreAgain, IInv, TypeOK
  <1>2. /\ refs \in [Handles -> Ref] /\ made \in [Handles -> Values]
        /\ refs[h].kind = "empty"
        /\ counts \in [0..(length - 1) -> Nat \cup {Infinity}]
    BY NewRefs DEF IInv, TypeOK
  <1>3. /\ refs' = [refs EXCEPT ![h] = Box(ids[v], Typed(v))]
        /\ ids[v] \in Nat /\ Typed(v) \in BOOLEAN
    BY <1>1, TypedValues DEF StoreAgain, Refer, IInv, TypeOK
  <1>4. /\ refs'[h].kind = "box" /\ refs'[h].id = ids[v]
        /\ refs'[h].typed = Typed(v) /\ refs'[h] \in Ref
    BY <1>2, <1>3, NewRefs
  <1>5. /\ refs' \in [Handles -> Ref] /\ made' \in [Handles -> Values]
        /\ made'[h] = v
        /\ \A o \in Handles : o # h => refs'[o] = refs[o] /\ made'[o] = made[o]
    BY <1>2, <1>3, <1>4
  <1>6. /\ counts' \in [0..(length - 1) -> Nat \cup {Infinity}]
        /\ counts'[ids[v]] = Plus(counts[ids[v]])
        /\ \A i \in 0..(length - 1) : i # ids[v] => counts'[i] = counts[i]
    BY <1>1, <1>2 DEF Plus
  <1>7. TypeOK'
    BY <1>1, <1>5, <1>6 DEF IInv, TypeOK
  <1>8. Fixed'
    <2>1. \A i \in PermanentIDs : i \in 0..(length - 1)
      BY DEF IInv, TypeOK, Fixed, PermanentIDs
    <2>2. \A i \in PermanentIDs : counts'[i] = Infinity
      BY <1>6, <2>1 DEF IInv, Fixed, Plus
    <2>. QED  BY <1>1, <2>2 DEF IInv, Fixed
  <1>9. Found' /\ Pooled' /\ NoneLost'
    BY <1>1 DEF IInv, Found, Pooled, NoneLost
  <1>10. Held'
    BY <1>1, <1>4, <1>5 DEF IInv, Held
  <1>11. Counted'
    <2>. SUFFICES ASSUME NEW x \in DOMAIN ids \cap (Objects \ Untyped)
                  PROVE  /\ counts'[ids[x]] = Cardinality(Holders(x)')
                         /\ Holders(x)' # {}
      BY <1>1 DEF Counted
    <2>1. /\ counts[ids[x]] = Cardinality(Holders(x)) /\ Holders(x) # {}
          /\ IsFiniteSet(Holders(x)) /\ Cardinality(Holders(x)) \in Nat
          /\ h \notin Holders(x)
      BY <1>2, FS_Subset, FS_CardinalityType DEF IInv, Counted, Holders
    <2>2. CASE x = v
      <3>1. Holders(x)' = Holders(x) \cup {h}
        BY <1>2, <1>4, <1>5, <2>2 DEF Holders
      <3>2. Cardinality(Holders(x)') = Cardinality(Holders(x)) + 1
        BY <2>1, <3>1, FS_AddElement
      <3>3. Plus(counts[ids[x]]) = Cardinality(Holders(x)) + 1
        BY <2>1 DEF Plus
      <3>. QED  BY <1>6, <2>2, <3>1, <3>2, <3>3
    <2>3. CASE x # v
      <3>1. Holders(x)' = Holders(x)
        BY <1>2, <1>5, <2>3 DEF Holders
      <3>2. ids[x] # ids[v] /\ ids[x] \in 0..(length - 1)
        BY <1>1, <2>3 DEF IInv, TypeOK, Found
      <3>. QED  BY <1>6, <2>1, <3>1, <3>2
    <2>. QED  BY <2>2, <2>3
  <1>. QED  BY <1>7, <1>8, <1>9, <1>10, <1>11 DEF IInv

LEMMA StoreNewIInv ==
    ASSUME IInv, NEW h \in Handles, NEW v \in Values, refs[h] = Empty,
           made' = [made EXCEPT ![h] = v], StoreNew(h, v)
    PROVE  IInv'
  <1>. DEFINE i == NewID
              n == Len(idPool)
  <1>1. /\ v \in Objects /\ v \notin DOMAIN ids /\ length \in Nat /\ length >= 7
        /\ v \notin PermanentValues /\ n \in Nat
    BY DEF StoreNew, IInv, TypeOK, Fixed
  <1>2. \/ idPool = <<>> /\ i = length /\ length' = length + 1 /\ idPool' = <<>>
        \/ /\ n > 0 /\ i = idPool[n] /\ length' = length
           /\ idPool' = SubSeq(idPool, 1, n - 1)
           /\ i \in 7..(length - 1)
    <2>1. CASE idPool = <<>>
      BY <2>1 DEF StoreNew, NewID, NewLength
    <2>2. CASE idPool # <<>>
      <3>1. n > 0 /\ n \in 1..n
        BY <2>2 DEF IInv, TypeOK
      <3>. QED  BY <2>2, <3>1 DEF StoreNew, NewID, NewLength, IInv, Pooled
    <2>. QED  BY <2>1, <2>2
  <1>3. /\ i \in Nat /\ i >= 7 /\ i \in 0..(length' - 1) /\ length' \in Nat
        /\ length' >= length /\ length' >= 7
        /\ 0..(length' - 1) = 0..(length - 1) \cup {i}
    BY <1>1, <1>2
  <1>4. \A x \in DOMAIN ids : ids[x] # i /\ ids[x] \in 0..(length - 1)
    <2>1. CASE i = length
      BY <1>1, <2>1 DEF IInv, TypeOK
    <2>2. CASE n > 0 /\ i = idPool[n]
      BY <1>1, <2>2 DEF IInv, TypeOK, Pooled
    <2>. QED  BY <1>2, <2>1, <2>2
  <1>5. /\ values' = [j \in 0..(length' - 1) |-> IF j = i THEN v ELSE values[j]]
        /\ counts' = [j \in 0..(length' - 1) |-> IF j = i THEN 1 ELSE counts[j]]
        /\ ids' = [x \in DOMAIN ids \cup {v} |-> IF x = v THEN i ELSE ids[x]]
    BY <1>3 DEF StoreNew, Set, IInv, TypeOK
  <1>6. /\ refs \in [Handles -> Ref] /\ made \in [Handles -> Values]
        /\ refs[h].kind = "empty"
    BY NewRefs DEF IInv, TypeOK
  <1>7. /\ refs' = [refs EXCEPT ![h] = Box(i, Typed(v))]
        /\ Typed(v) \in BOOLEAN
    BY TypedValues DEF StoreNew, Refer
  <1>8. /\ refs'[h].kind = "box" /\ refs'[h].id = i
        /\ refs'[h].typed = Typed(v) /\ refs'[h] \in Ref
    BY <1>3, <1>6, <1>7, NewRefs
  <1>9. /\ refs' \in [Handles -> Ref] /\ made' \in [Handles -> Values]
        /\ made'[h] = v
        /\ \A o \in Handles : o # h => refs'[o] = refs[o] /\ made'[o] = made[o]
    BY <1>6, <1>7, <1>8
  <1>10. /\ Len(idPool') \in Nat /\ idPool' \in Seq(0..(length' - 1))
         /\ \A m \in 1..Len(idPool') :
              /\ m \in 1..n /\ idPool'[m] = idPool[m]
              /\ idPool'[m] # i
         /\ \A m \in 1..n : idPool[m] = i \/ \E l \in 1..Len(idPool') : idPool'[l] = idPool[m]
    <2>1. CASE idPool = <<>> /\ idPool' = <<>>
      BY <2>1
    <2>2. CASE /\ n > 0 /\ i = idPool[n] /\ length' = length
               /\ idPool' = SubSeq(idPool, 1, n - 1)
      <3>1. idPool \in Seq(0..(length - 1)) /\ idPool # <<>>
        BY <2>2 DEF IInv, TypeOK
      <3>2. /\ Len(idPool') = n - 1 /\ idPool' \in Seq(0..(length - 1)) /\ n \in 1..n
            /\ \A m \in 1..(n - 1) : idPool'[m] = idPool[m] /\ m \in 1..n /\ m # n
        BY <2>2, <3>1, AllButLast
      <3>3. \A m \in 1..(n - 1) : idPool[m] # idPool[n]
        BY <3>2 DEF IInv, Pooled
      <3>4. idPool' \in Seq(0..(length' - 1)) /\ Len(idPool') = n - 1
        BY <2>2, <3>2
      <3>5. \A m \in 1..(n - 1) :
               m \in 1..n /\ idPool'[m] = idPool[m] /\ idPool'[m] # i
        BY <2>2, <3>2, <3>3
      <3>6. n - 1 \in Nat /\ \A m \in 1..n : m = n \/ m \in 1..(n - 1)
        BY <1>1, <2>2
      <3>7. \A m \in 1..n :
               idPool[m] = i \/ \E l \in 1..Len(idPool') : idPool'[l] = idPool[m]
        BY <2>2, <3>2, <3>6
      <3>. QED  BY <3>4, <3>5, <3>6, <3>7, Zenon
    <2>. QED  BY <1>2, <2>1, <2>2
  <1>11. TypeOK'
    <2>1. /\ values' \in [0..(length' - 1) -> Values]
          /\ counts' \in [0..(length' - 1) -> Nat \cup {Infinity}]
      BY <1>3, <1>5 DEF IInv, TypeOK
    <2>2. /\ DOMAIN ids' \subseteq Values
          /\ \A x \in DOMAIN ids' : ids'[x] \in 0..(length' - 1)
      BY <1>3, <1>4, <1>5 DEF IInv, TypeOK
    <2>. QED  BY <1>3, <1>9, <1>10, <2>1, <2>2 DEF TypeOK
  <1>12. Fixed'
    <2>1. \A j \in PermanentIDs : j \in 0..(length' - 1) /\ j # i
      <3>1. i \in Nat /\ i >= 7 /\ length' \in Nat /\ length' >= 7
        BY <1>3
      <3>. QED  BY <3>1, PermanentsAreLow
    <2>2. \A x \in PermanentValues \ {"NaN"} :
             x \in DOMAIN ids' /\ ids'[x] \in PermanentIDs
      BY <1>1, <1>5 DEF IInv, Fixed
    <2>3. \A j \in PermanentIDs : values'[j] = values[j] /\ counts'[j] = counts[j]
      BY <1>5, <2>1
    <2>4. length' >= 7
      BY <1>3
    <2>. QED  BY <2>2, <2>3, <2>4 DEF IInv, Fixed
  <1>13. Found'
    <2>1. \A x \in DOMAIN ids' : values'[ids'[x]] = x
      BY <1>3, <1>4, <1>5 DEF IInv, Found
    <2>. QED  BY <1>1, <1>5, <2>1 DEF IInv, Found
  <1>14. Pooled'
    <2>1. \A m \in 1..Len(idPool') : idPool'[m] \in 7..(length' - 1)
      <3>1. \A m \in 1..Len(idPool') : idPool'[m] \in 7..(length - 1)
        BY <1>10 DEF IInv, Pooled
      <3>. QED  BY <1>1, <1>3, <3>1, PoolGrows
    <2>2. \A l, m \in 1..Len(idPool') : idPool'[l] = idPool'[m] => l = m
      BY <1>10 DEF IInv, Pooled
    <2>3. \A m \in 1..Len(idPool') : \A x \in DOMAIN ids' : ids'[x] # idPool'[m]
      BY <1>5, <1>10 DEF IInv, Pooled
    <2>. QED  BY <2>1, <2>2, <2>3 DEF Pooled
  <1>15. Held'
    BY <1>1, <1>5, <1>8, <1>9 DEF IInv, Held
  <1>17. NoneLost'
    <2>. SUFFICES ASSUME NEW j \in 7..(length' - 1)
                  PROVE  \/ \E m \in 1..Len(idPool') : idPool'[m] = j
                         \/ \E x \in DOMAIN ids' : ids'[x] = j
      BY DEF NoneLost
    <2>1. ids'[v] = i /\ v \in DOMAIN ids'
      BY <1>5
    <2>2. CASE j # i
      <3>1. j \in 7..(length - 1)
        <4>1. length \in Nat /\ length' \in Nat
          BY <1>1, <1>3
        <4>2. length' = length \/ (length' = length + 1 /\ i = length)
          BY <1>2
        <4>. QED  BY <2>2, <4>1, <4>2, GrowsByOne
      <3>2. CASE \E m \in 1..n : idPool[m] = j
        BY <1>10, <2>2, <3>2
      <3>3. CASE \E x \in DOMAIN ids : ids[x] = j
        BY <1>1, <1>5, <3>3
      <3>. QED  BY <3>1, <3>2, <3>3 DEF IInv, NoneLost
    <2>. QED  BY <2>1, <2>2
  <1>16. Counted'
    <2>. SUFFICES ASSUME NEW x \in DOMAIN ids' \cap (Objects \ Untyped)
                  PROVE  /\ counts'[ids'[x]] = Cardinality(Holders(x)')
                         /\ Holders(x)' # {}
      BY DEF Counted
    <2>1. CASE x = v
      <3>1. \A o \in Handles : refs[o].kind = "box" => made[o] # v
        BY <1>1 DEF IInv, Held, PermanentValues
      <3>2. Holders(x)' = {h}
        BY <1>8, <1>9, <2>1, <3>1 DEF Holders
      <3>3. counts'[ids'[x]] = 1
        BY <1>3, <1>5, <2>1
      <3>. QED  BY <3>2, <3>3, FS_Singleton
    <2>2. CASE x # v
      <3>1. Holders(x)' = Holders(x)
        BY <1>6, <1>9, <2>2 DEF Holders
      <3>2. x \in DOMAIN ids /\ counts'[ids'[x]] = counts[ids[x]]
        BY <1>3, <1>4, <1>5, <2>2
      <3>. QED  BY <3>1, <3>2 DEF IInv, Counted
    <2>. QED  BY <2>1, <2>2
  <1>. QED  BY <1>11, <1>12, <1>13, <1>14, <1>15, <1>16, <1>17 DEF IInv

\* A js.Value that Go drops is not among the holders of a value any more.
LEMMA DroppedHolders ==
    ASSUME IInv, NEW h \in Handles, refs' = [refs EXCEPT ![h] = Empty],
           UNCHANGED made, NEW v
    PROVE  /\ refs' \in [Handles -> Ref] /\ refs'[h].kind = "empty"
           /\ \A o \in Handles : o # h => refs'[o] = refs[o]
           /\ Holders(v)' = Holders(v) \ {h}
  <1>1. refs \in [Handles -> Ref]
    BY DEF IInv, TypeOK
  <1>2. /\ refs' \in [Handles -> Ref] /\ refs'[h].kind = "empty"
        /\ \A o \in Handles : o # h => refs'[o] = refs[o]
    BY <1>1, NewRefs
  <1>3. Holders(v)' = Holders(v) \ {h}
    BY <1>2 DEF Holders
  <1>. QED  BY <1>2, <1>3

LEMMA ForgetIInv ==
    ASSUME IInv, NEW h \in Handles, Forget(h)
    PROVE  IInv'
  <1>1. /\ UNCHANGED <<values, length, counts, ids, idPool, made>>
        /\ refs' = [refs EXCEPT ![h] = Empty]
    BY DEF Forget, Refer
  <1>2. /\ refs' \in [Handles -> Ref] /\ refs'[h].kind = "empty"
        /\ \A o \in Handles : o # h => refs'[o] = refs[o]
        /\ \A v \in Objects : Holders(v)' = Holders(v) \ {h}
    BY <1>1, DroppedHolders
  <1>3. TypeOK' /\ Fixed' /\ Found' /\ Pooled' /\ NoneLost'
    BY <1>1, <1>2 DEF IInv, TypeOK, Fixed, Found, Pooled, NoneLost
  <1>4. Held'
    BY <1>1, <1>2 DEF IInv, Held
  <1>5. ASSUME NEW v \in DOMAIN ids \cap (Objects \ Untyped)
        PROVE  Holders(v)' = Holders(v)
    <2>1. h \notin Holders(v)
      BY TypedValues DEF Holders, IInv, Held, Forget, Values
    <2>. QED  BY <1>2, <2>1
  <1>6. Counted'
    BY <1>1, <1>5 DEF IInv, Counted
  <1>. QED  BY <1>3, <1>4, <1>6 DEF IInv

LEMMA FinalizeRefIInv ==
    ASSUME IInv, NEW h \in Handles, FinalizeRef(h)
    PROVE  IInv'
  <1>. DEFINE i == refs[h].id
              n == Minus(counts[i])
  <1>. PICK v : v = made[h]
    OBVIOUS
  <1>1. /\ refs[h].kind = "box" /\ refs[h].typed /\ UNCHANGED <<length, made>>
        /\ refs' = [refs EXCEPT ![h] = Empty]
        /\ counts' = [counts EXCEPT ![i] = n]
        /\ \/ /\ n = 0 /\ values' = [values EXCEPT ![i] = "null"]
              /\ ids' = Delete(ids, values[i]) /\ idPool' = Append(idPool, i)
           \/ n # 0 /\ UNCHANGED <<values, ids, idPool>>
    BY DEF FinalizeRef, Refer
  <1>2. /\ v \in DOMAIN ids /\ i = ids[v] /\ Typed(v) /\ i \in 0..(length - 1)
        /\ values[i] = v /\ length \in Nat
    BY <1>1, TypedValues DEF IInv, TypeOK, Held, Found
  <1>3. /\ refs' \in [Handles -> Ref] /\ refs'[h].kind = "empty"
        /\ \A o \in Handles : o # h => refs'[o] = refs[o]
        /\ \A x \in Objects : Holders(x)' = Holders(x) \ {h}
    BY <1>1, DroppedHolders
  <1>4. \A x \in DOMAIN ids : x # v => ids[x] # i
    BY <1>2 DEF IInv, Found
  <1>5. /\ counts \in [0..(length - 1) -> Nat \cup {Infinity}]
        /\ counts'[i] = n
        /\ \A j \in 0..(length - 1) : j # i => counts'[j] = counts[j]
    BY <1>1, <1>2 DEF IInv, TypeOK
  <1>6. CASE v \in PermanentValues
    <2>1. i \in PermanentIDs /\ counts[i] = Infinity /\ n = Infinity
      BY <1>2, <1>6 DEF IInv, Found, Fixed, Minus
    <2>2. /\ UNCHANGED <<values, ids, idPool>>
          /\ counts' = counts
      BY <1>1, <1>5, <2>1
    <2>3. TypeOK' /\ Fixed' /\ Found' /\ Pooled'
      BY <1>1, <1>3, <2>2 DEF IInv, TypeOK, Fixed, Found, Pooled
    <2>7. NoneLost'
      BY <1>1, <2>2 DEF IInv, NoneLost
    <2>4. Held'
      BY <1>1, <1>3, <2>2 DEF IInv, Held
    <2>5. ASSUME NEW x \in DOMAIN ids \cap (Objects \ Untyped)
          PROVE  Holders(x)' = Holders(x)
      BY <1>3, <1>6 DEF Holders
    <2>6. Counted'
      BY <2>2, <2>5 DEF IInv, Counted
    <2>. QED  BY <2>3, <2>4, <2>6, <2>7 DEF IInv
  <1>7. CASE v \notin PermanentValues
    <2>1. v \in DOMAIN ids \cap (Objects \ Untyped) /\ h \in Holders(v)
      BY <1>1, <1>2, <1>7, TypedValues DEF IInv, Found, Holders
    <2>2. /\ IsFiniteSet(Holders(v)) /\ Cardinality(Holders(v)) \in Nat
          /\ Cardinality(Holders(v)) # 0
          /\ counts[i] = Cardinality(Holders(v))
      BY <1>2, <2>1, FS_Subset, FS_CardinalityType, FS_EmptySet
         DEF IInv, Counted, Holders
    <2>3. /\ n = Cardinality(Holders(v)) - 1 /\ n \in Nat
      BY <2>2 DEF Minus
    <2>4. /\ Holders(v)' = Holders(v) \ {h} /\ IsFiniteSet(Holders(v)')
          /\ Cardinality(Holders(v)') = n
          /\ n = 0 <=> Holders(v)' = {}
      <3>1. Holders(v)' = Holders(v) \ {h}
        BY <1>3, <2>1
      <3>2. IsFiniteSet(Holders(v)') /\ Cardinality(Holders(v)') = n
        BY <2>1, <2>2, <2>3, <3>1, FS_RemoveElement
      <3>. QED  BY <3>1, <3>2, FS_EmptySet
    <2>5. i \in 7..(length - 1)
      <3>1. \A j \in PermanentIDs : values[j] \in PermanentValues
        BY PermanentNames DEF IInv, Fixed
      <3>. QED  BY <1>2, <1>7, <3>1 DEF PermanentIDs
    <2>6. counts' \in [0..(length - 1) -> Nat \cup {Infinity}]
      BY <1>1, <1>5, <2>3
    <2>7. \A x \in Objects : x # v => Holders(x)' = Holders(x)
      BY <1>3 DEF Holders
    <2>8. \A x \in DOMAIN ids : x # v => counts'[ids[x]] = counts[ids[x]]
      BY <1>4, <1>5 DEF IInv, TypeOK
    <2>9. \A j \in PermanentIDs : j # i /\ j \in 0..(length - 1)
      BY <2>5, <1>2 DEF PermanentIDs
    <2>10. CASE n # 0
      <3>1. UNCHANGED <<values, ids, idPool>>
        BY <1>1, <2>10
      <3>2. TypeOK' /\ Found' /\ Pooled'
        BY <1>1, <1>3, <2>6, <3>1 DEF IInv, TypeOK, Found, Pooled
      <3>6. NoneLost'
        BY <1>1, <3>1 DEF IInv, NoneLost
      <3>3. Fixed'
        BY <1>1, <1>5, <2>9, <3>1 DEF IInv, Fixed
      <3>4. Held'
        BY <1>1, <1>3, <3>1 DEF IInv, Held
      <3>5. Counted'
        <4>1. ASSUME NEW x \in DOMAIN ids \cap (Objects \ Untyped)
              PROVE  /\ counts'[ids[x]] = Cardinality(Holders(x)')
                     /\ Holders(x)' # {}
          <5>1. CASE x = v
            BY <1>2, <1>5, <2>4, <2>10, <5>1
          <5>2. CASE x # v
            BY <2>7, <2>8, <5>2 DEF IInv, Counted
          <5>. QED  BY <5>1, <5>2
        <4>. QED  BY <3>1, <4>1 DEF Counted
      <3>. QED  BY <3>2, <3>3, <3>4, <3>5, <3>6 DEF IInv
    <2>11. CASE n = 0
      <3>1. /\ values' = [values EXCEPT ![i] = "null"]
            /\ ids' = [x \in DOMAIN ids \ {v} |-> ids[x]]
            /\ idPool' = Append(idPool, i)
        BY <1>1, <1>2, <2>11 DEF Delete
      <3>2. \A o \in Handles : o # h /\ refs[o].kind = "box" => made[o] # v
        BY <2>4, <2>11 DEF Holders
      <3>3. /\ Len(idPool') = Len(idPool) + 1 /\ Len(idPool) \in Nat
            /\ idPool' \in Seq(0..(length - 1))
            /\ \A m \in 1..Len(idPool) : idPool'[m] = idPool[m] /\ idPool[m] # i
            /\ idPool'[Len(idPool) + 1] = i
        BY <1>2, <3>1 DEF IInv, TypeOK, Pooled
      <3>4. TypeOK'
        <4>1. "null" \in Values
          BY DEF Values, PermanentValues
        <4>. QED  BY <1>1, <1>3, <2>6, <3>1, <3>3, <4>1 DEF IInv, TypeOK
      <3>5. Fixed'
        BY <1>1, <1>5, <1>7, <2>9, <3>1 DEF IInv, TypeOK, Fixed
      <3>6. Found'
        BY <1>4, <3>1 DEF IInv, TypeOK, Found
      <3>7. Pooled'
        <4>1. \A m \in 1..Len(idPool') :
                 \/ m \in 1..Len(idPool) /\ idPool'[m] = idPool[m]
                 \/ m = Len(idPool) + 1 /\ idPool'[m] = i
          BY <3>3
        <4>2. \A m \in 1..Len(idPool') : idPool'[m] \in 7..(length - 1)
          BY <2>5, <4>1 DEF IInv, Pooled
        <4>3. \A l, m \in 1..Len(idPool') : idPool'[l] = idPool'[m] => l = m
          BY <3>3, <4>1 DEF IInv, Pooled
        <4>4. \A m \in 1..Len(idPool') : \A x \in DOMAIN ids' : ids'[x] # idPool'[m]
          BY <1>4, <3>1, <4>1 DEF IInv, Pooled
        <4>. QED  BY <1>1, <4>2, <4>3, <4>4 DEF Pooled
      <3>8. Held'
        BY <1>1, <1>3, <3>1, <3>2 DEF IInv, Held
      <3>9. Counted'
        BY <2>7, <2>8, <3>1 DEF IInv, Counted
      <3>10. NoneLost'
        <4>. SUFFICES ASSUME NEW j \in 7..(length - 1)
                      PROVE  \/ \E m \in 1..Len(idPool') : idPool'[m] = j
                             \/ \E x \in DOMAIN ids' : ids'[x] = j
          BY <1>1 DEF NoneLost
        <4>1. CASE j = i
          BY <3>3, <4>1
        <4>2. CASE \E m \in 1..Len(idPool) : idPool[m] = j
          BY <3>3, <4>2
        <4>3. CASE \E x \in DOMAIN ids : ids[x] = j
          BY <1>2, <3>1, <4>1, <4>3
        <4>. QED  BY <4>1, <4>2, <4>3 DEF IInv, NoneLost
      <3>. QED  BY <3>4, <3>5, <3>6, <3>7, <3>8, <3>9, <3>10 DEF IInv
    <2>. QED  BY <2>10, <2>11
  <1>. QED  BY <1>6, <1>7

LEMMA NextIInv == IInv /\ [Next]_vars => IInv'
  <1>. SUFFICES ASSUME IInv, [Next]_vars PROVE IInv'
    OBVIOUS
  <1>1. ASSUME NEW h \in Handles, Result(h) PROVE IInv'
    BY <1>1, StoreBitsIInv, StoreAgainIInv, StoreNewIInv DEF Result, StoreValue
  <1>2. CASE UNCHANGED vars
    <2>1. \A v \in Objects : Holders(v)' = Holders(v)
      BY <1>2 DEF vars, Holders
    <2>2. TypeOK' /\ Fixed' /\ Found' /\ Pooled' /\ NoneLost' /\ Held'
      BY <1>2 DEF vars, IInv, TypeOK, Fixed, Found, Pooled, NoneLost, Held
    <2>3. Counted'
      BY <1>2, <2>1 DEF vars, IInv, Counted
    <2>. QED  BY <2>2, <2>3 DEF IInv
  <1>. QED  BY <1>1, <1>2, FinalizeRefIInv, ForgetIInv DEF Next

-----------------------------------------------------------------------------
(***************************************************************************)
(* Theorems.                                                               *)
(***************************************************************************)
(* What the invariant says holds in every state.                           *)
THEOREM Invariance == Spec => []IInv
  BY InitIInv, NextIInv, PTL DEF Spec

(* The slots, counts and numbers of the table have their types.            *)
THEOREM TypeCorrect == Spec => []TypeOK
  <1>1. IInv => TypeOK
    BY DEF IInv
  <1>. QED  BY <1>1, Invariance, PTL

LEMMA HeldDenotes == IInv => HandleDenotesItsValue
  <1>. SUFFICES ASSUME IInv, NEW h \in Handles, refs[h] # Empty
                PROVE  LoadValue(refs[h]) = made[h]
    BY DEF HandleDenotesItsValue
  <1>1. refs[h].kind = "bits" \/ refs[h].kind = "box"
    BY RefFields DEF IInv, TypeOK
  <1>2. 0 \in PermanentIDs /\ values[0] = "NaN"
    BY PermanentNames DEF IInv, Fixed, PermanentIDs
  <1>. QED  BY <1>1, <1>2 DEF IInv, Held, Found, LoadValue

(* wasm_exec.js:126-309: a js.Value that Go has denotes the value that it  *)
(* was made for, whatever slots are freed and reused in between.           *)
THEOREM Denotes == Spec => []HandleDenotesItsValue
  BY HeldDenotes, Invariance, PTL

LEMMA HeldSlots == IInv => SlotsAreUsedOrFree
  <1>. SUFFICES ASSUME IInv PROVE SlotsAreUsedOrFree
    OBVIOUS
  <1>1. ASSUME NEW v \in DOMAIN ids \cap (Objects \ Untyped)
        PROVE  \E h \in Handles : refs[h] = Box(ids[v], TRUE)
    <2>1. PICK h \in Handles : refs[h].kind = "box" /\ made[h] = v
      BY DEF IInv, Counted, Holders
    <2>2. refs[h] = Box(refs[h].id, refs[h].typed)
      BY <2>1, RefFields DEF IInv, TypeOK
    <2>3. refs[h].id = ids[v] /\ refs[h].typed = TRUE
      BY <2>1, TypedValues DEF IInv, Held, Typed, PermanentValues
    <2>. QED  BY <2>2, <2>3
  <1>2. \A i \in PermanentIDs : values[i] = Permanent[i + 1]
    BY DEF IInv, Fixed
  <1>3. \A m, n \in 1..Len(idPool) : idPool[m] = idPool[n] => m = n
    BY DEF IInv, Pooled
  <1>4. \A v \in DOMAIN ids \cap Objects : ids[v] \in 7..(length - 1)
    <2>1. \A i \in PermanentIDs : values[i] \in PermanentValues
      BY PermanentNames DEF IInv, Fixed
    <2>2. ASSUME NEW v \in DOMAIN ids \cap Objects PROVE ids[v] \notin PermanentIDs
      BY <2>1 DEF IInv, Found
    <2>3. length \in Nat /\ \A v \in DOMAIN ids : ids[v] \in 0..(length - 1)
      BY DEF IInv, TypeOK
    <2>. QED  BY <2>2, <2>3 DEF PermanentIDs
  <1>5. \A v \in DOMAIN ids \ Objects : ids[v] \in PermanentIDs
    BY DEF IInv, Found, Fixed
  <1>6. FreeSlots \cup UsedSlots \subseteq 7..(length - 1)
    BY <1>4 DEF IInv, Pooled, FreeSlots, UsedSlots
  <1>7. ASSUME NEW j \in 7..(length - 1) PROVE j \in FreeSlots \cup UsedSlots
    <2>1. CASE \E n \in 1..Len(idPool) : idPool[n] = j
      BY <2>1 DEF FreeSlots
    <2>2. CASE \E v \in DOMAIN ids : ids[v] = j
      BY <1>5, <2>2 DEF PermanentIDs, UsedSlots
    <2>. QED  BY <2>1, <2>2 DEF IInv, NoneLost
  <1>8. FreeSlots \cap UsedSlots = {}
    BY DEF IInv, Pooled, FreeSlots, UsedSlots
  <1>. QED  BY <1>1, <1>2, <1>3, <1>6, <1>7, <1>8 DEF SlotsAreUsedOrFree

(* wasm_exec.js:157-167, 299-309: a slot in use has a js.Value that holds  *)
(* its value, and every other slot is in _idPool, once: none is lost.      *)
THEOREM Slots == Spec => []SlotsAreUsedOrFree
  BY HeldSlots, Invariance, PTL

-----------------------------------------------------------------------------
(***************************************************************************)
(* Refinement: storeValue creates the handle of one value, finalizeRef     *)
(* drops one, and neither changes what the others denote.                  *)
(***************************************************************************)
LEMMA DenotedOf ==
    ASSUME IInv
    PROVE  \A h \in Handles :
              /\ Denoted[h] = IF refs[h] = Empty THEN Free ELSE made[h]
              /\ Denoted[h] = Free <=> refs[h] = Empty
  BY HeldDenotes DEF HandleDenotesItsValue, Denoted, IInv, TypeOK

LEMMA StepImplements ==
    ASSUME IInv, IInv', [Next]_vars
    PROVE  [Abstract!Next]_Denoted
  <1>1. /\ \A h \in Handles : Denoted'[h] = IF refs'[h] = Empty THEN Free ELSE made'[h]
        /\ \A h \in Handles : Denoted[h] = IF refs[h] = Empty THEN Free ELSE made[h]
        /\ \A h \in Handles : Denoted[h] = Free <=> refs[h] = Empty
    <2>1. HandleDenotesItsValue'
      BY HeldDenotes, PTL
    <2>2. \A h \in Handles :
             Denoted'[h] = IF refs'[h] = Empty THEN Free ELSE made'[h]
      BY <2>1 DEF HandleDenotesItsValue, Denoted
    <2>. QED  BY <2>2, DenotedOf
  <1>2. /\ Denoted = [h \in Handles |-> Denoted[h]]
        /\ Denoted' = [h \in Handles |-> Denoted'[h]]
    BY DEF Denoted
  <1>3. ASSUME NEW h \in Handles, Result(h) PROVE Abstract!Create(h)
    <2>1. PICK v \in Values : StoreValue(h, v)
      BY <1>3 DEF Result
    <2>2. /\ refs[h] = Empty /\ made' = [made EXCEPT ![h] = v]
          /\ \E r : r # Empty /\ refs' = [refs EXCEPT ![h] = r]
      <3>1. \A i, t : Box(i, t) # Empty
        BY DEF Box, Empty
      <3>2. Bits(v) # Empty
        BY DEF Bits, Empty
      <3>. QED  BY <2>1, <3>1, <3>2
                DEF StoreValue, StoreBits, StoreAgain, StoreNew, Refer
    <2>3. /\ \A o \in Handles : o # h => refs'[o] = refs[o] /\ made'[o] = made[o]
          /\ refs'[h] # Empty /\ made'[h] = v
      BY <2>2 DEF IInv, TypeOK
    <2>4. Denoted' = [Denoted EXCEPT ![h] = v]
      BY <1>1, <1>2, <2>3
    <2>. QED  BY <1>1, <2>2, <2>4 DEF Abstract!Create
  <1>4. ASSUME NEW h \in Handles, FinalizeRef(h) \/ Forget(h) PROVE Abstract!Drop(h)
    <2>1. /\ refs' = [refs EXCEPT ![h] = Empty] /\ made' = made
          /\ refs[h] # Empty
      BY <1>4, NewRefs DEF FinalizeRef, Forget, Refer
    <2>2. /\ \A o \in Handles : o # h => refs'[o] = refs[o]
          /\ refs'[h] = Empty
      BY <2>1 DEF IInv, TypeOK
    <2>3. Denoted' = [Denoted EXCEPT ![h] = Free]
      BY <1>1, <1>2, <2>1, <2>2
    <2>. QED  BY <1>1, <2>1, <2>3 DEF Abstract!Drop
  <1>5. CASE UNCHANGED vars
    BY <1>5 DEF vars, Denoted, LoadValue
  <1>. QED  BY <1>3, <1>4, <1>5 DEF Next, Abstract!Next

(* The table implements the handles of JsHandles.                          *)
THEOREM Implements == Spec => ImplementsHandles
  <1>1. Init => Abstract!Init
    BY DEF Init, Abstract!Init, Denoted
  <1>2. IInv /\ IInv' /\ [Next]_vars => [Abstract!Next]_Denoted
    BY StepImplements
  <1>. QED  BY <1>1, <1>2, Invariance, PTL DEF Spec, Abstract!Spec, ImplementsHandles

=============================================================================

------------------------------ MODULE ValueTable ------------------------------
(***************************************************************************)
(* wasm_exec.js, class Go: the table of the Javascript values that the Go  *)
(* program refers to.  WebAssembly can only hold numbers, so a js.Value of *)
(* Go is 64 bits that are the number itself or name a slot of `_values'.   *)
(* Slots are counted in `_goRefCounts', found again through `_ids', and    *)
(* reused through `_idPool' when Go's garbage collector has finalized the  *)
(* last js.Value that named them.                                          *)
(***************************************************************************)
EXTENDS Integers, Sequences, FiniteSets

CONSTANTS
    Handles,     \* the js.Values that Go can have at once (bound)
    Objects,     \* Javascript values that need a slot: objects, strings, ...
    Untyped,     \* those of them whose typeof gets no type flag (a bigint)
    Immediates,  \* values that fit in the bits: undefined, numbers but 0, NaN
    Infinity,    \* the count of the slots that are never freed
    Free,        \* what a handle denotes that Go does not have
    MaxUntyped   \* how often an untyped value may be stored (bound)

Permanent == <<"NaN", "0", "null", "true", "false", "globalThis", "go">>
PermanentValues == {"NaN", "0", "null", "true", "false", "globalThis", "go"}
PermanentIDs == 0..6
Values == PermanentValues \cup Objects \cup Immediates

ASSUME HandlesAssumption == IsFiniteSet(Handles)
ASSUME ObjectsAssumption ==
    /\ Objects \cap PermanentValues = {}
    /\ Immediates \cap (Objects \cup PermanentValues) = {}
    /\ Untyped \subseteq Objects
ASSUME InfinityAssumption == Infinity \notin Int
ASSUME FreeAssumption == Free \notin Values
ASSUME BoundAssumption == MaxUntyped \in Nat \ {0}

(***************************************************************************)
(* The 64 bits of a js.Value: those of the value itself, or a NaN with the *)
(* ID of a slot and a type flag.  Go installs a finalizer if the flag says *)
(* object, string, symbol or function, which is all `typed' keeps of it.   *)
(***************************************************************************)
Empty == [kind |-> "empty"]
Bits(v) == [kind |-> "bits", value |-> v]
Box(i, t) == [kind |-> "box", id |-> i, typed |-> t]
Ref == {Empty} \cup [kind: {"bits"}, value: Immediates]
               \cup [kind: {"box"}, id: Nat, typed: BOOLEAN]

VARIABLES
    values,    \* _values, the slots
    length,    \* _values.length
    counts,    \* _goRefCounts
    ids,       \* _ids, a Map from values to their slots
    idPool,    \* _idPool, a stack
    refs,      \* the js.Values of the Go program
    made       \* history: the value each of them was created for

table == <<values, length, counts, ids, idPool>>
vars == <<values, length, counts, ids, idPool, refs, made>>

TypeOK ==
    /\ length \in Nat
    /\ values \in [0..(length - 1) -> Values]
    /\ counts \in [0..(length - 1) -> Nat \cup {Infinity}]
    /\ DOMAIN ids \subseteq Values
    /\ \A v \in DOMAIN ids : ids[v] \in 0..(length - 1)
    /\ idPool \in Seq(0..(length - 1))
    /\ refs \in [Handles -> Ref]
    /\ made \in [Handles -> Values]

Init ==
    /\ length = 7
    /\ values = [i \in PermanentIDs |-> Permanent[i + 1]]
    /\ counts = [i \in PermanentIDs |-> Infinity]
    /\ ids = [v \in PermanentValues \ {"NaN"} |->
                 CHOOSE i \in PermanentIDs : Permanent[i + 1] = v]
    /\ idPool = <<>>
    /\ refs = [h \in Handles |-> Empty]
    /\ made = [h \in Handles |-> "null"]

-----------------------------------------------------------------------------
(* Arrays and Maps of Javascript: setting may add an index, deleting        *)
(* removes a key.                                                           *)
Set(f, x, y) == [z \in DOMAIN f \cup {x} |-> IF z = x THEN y ELSE f[z]]
Delete(f, x) == [z \in DOMAIN f \ {x} |-> f[z]]

Plus(n) == IF n = Infinity THEN Infinity ELSE n + 1
Minus(n) == IF n = Infinity THEN Infinity ELSE n - 1

Typed(v) == v \in (Objects \ Untyped) \cup {"globalThis", "go"}

LoadValue(r) == IF r.kind = "bits" THEN r.value ELSE values[r.id]

-----------------------------------------------------------------------------
(* storeValue: numbers and undefined are their own bits, NaN has a slot     *)
(* that is not counted, a value with a slot gets one reference more, and    *)
(* any other value gets a slot: the one freed last, or else a new one.      *)
(* 0, null, true and false have no type flag but have counted slots.        *)

Refer(h, r) == refs' = [refs EXCEPT ![h] = r]

StoreBits(h, v) ==
    /\ v \in Immediates \cup {"NaN"}
    /\ Refer(h, IF v = "NaN" THEN Box(0, FALSE) ELSE Bits(v))
    /\ UNCHANGED table

(* A value that has a slot already is not counted again.                   *)
StoreAgain_uncounted(h, v) ==
    /\ v \in DOMAIN ids
    /\ Refer(h, Box(ids[v], Typed(v)))
    /\ UNCHANGED table

StoreAgain(h, v) ==
    /\ v \in DOMAIN ids
    /\ v \in Untyped => counts[ids[v]] < MaxUntyped
    /\ counts' = [counts EXCEPT ![ids[v]] = Plus(@)]
    /\ Refer(h, Box(ids[v], Typed(v)))
    /\ UNCHANGED <<values, length, ids, idPool>>

(* The slot that a new value gets, and the length of the array after it.     *)
NewID_last == IF idPool = <<>> THEN length - 1 ELSE idPool[Len(idPool)]

NewID == IF idPool = <<>> THEN length ELSE idPool[Len(idPool)]

NewLength_grows == length + 1

NewLength == IF idPool = <<>> THEN length + 1 ELSE length

StoreNew(h, v) ==
    /\ v \in Objects \ DOMAIN ids
    /\ values' = Set(values, NewID, v)
    /\ counts' = Set(counts, NewID, 1)
    /\ ids' = Set(ids, v, NewID)
    /\ idPool' = IF idPool = <<>> THEN <<>> ELSE SubSeq(idPool, 1, Len(idPool) - 1)
    /\ length' = NewLength
    /\ Refer(h, Box(NewID, Typed(v)))

StoreValue(h, v) ==
    /\ refs[h] = Empty
    /\ made' = [made EXCEPT ![h] = v]
    /\ StoreBits(h, v) \/ StoreAgain(h, v) \/ StoreNew(h, v)

(* valueGet, valueIndex, valueCall, valueInvoke and valueNew: what Reflect  *)
(* returns or throws may be any value; stringVal and valuePrepareString     *)
(* make a string and an array, which are among them.                        *)
Result(h) == \E v \in Values : StoreValue(h, v)

(* The slot is freed but never put into _idPool.                            *)
FinalizeRef_notPooled(h) ==
    LET i == refs[h].id
        n == Minus(counts[i])
    IN  /\ refs[h].kind = "box" /\ refs[h].typed
        /\ counts' = [counts EXCEPT ![i] = n]
        /\ values' = IF n = 0 THEN [values EXCEPT ![i] = "null"] ELSE values
        /\ ids' = IF n = 0 THEN Delete(ids, values[i]) ELSE ids
        /\ Refer(h, Empty)
        /\ UNCHANGED <<length, idPool, made>>

(* finalizeRef, for a js.Value with a type flag that Go has dropped.        *)
FinalizeRef(h) ==
    LET i == refs[h].id
        n == Minus(counts[i])
    IN  /\ refs[h].kind = "box" /\ refs[h].typed
        /\ counts' = [counts EXCEPT ![i] = n]
        /\ \/ /\ n = 0
              /\ values' = [values EXCEPT ![i] = "null"]
              /\ ids' = Delete(ids, values[i])
              /\ idPool' = Append(idPool, i)
           \/ /\ n # 0
              /\ UNCHANGED <<values, ids, idPool>>
        /\ Refer(h, Empty)
        /\ UNCHANGED <<length, made>>

(* Go drops a js.Value that has no finalizer.                               *)
Forget(h) ==
    /\ refs[h].kind = "bits" \/ (refs[h].kind = "box" /\ ~refs[h].typed)
    /\ Refer(h, Empty)
    /\ UNCHANGED <<values, length, counts, ids, idPool, made>>

Next == \E h \in Handles : Result(h) \/ FinalizeRef(h) \/ Forget(h)

Spec == Init /\ [][Next]_vars

-----------------------------------------------------------------------------
(* A js.Value that Go has denotes the value it was created for, however     *)
(* often its slot, or others, have been freed and reused: storeValue and    *)
(* finalizeRef keep slots, counts, _ids and _idPool in step.                *)
HandleDenotesItsValue ==
    \A h \in Handles : refs[h] # Empty => LoadValue(refs[h]) = made[h]

(* No slot is kept for a value that Go does not refer to any more (but for  *)
(* the untyped ones, which have no finalizer); every other slot is in       *)
(* _idPool, once, and there it is nobody's.  So the slots are those in use  *)
(* and the free ones, and a long-lived program does not fill the table.     *)
FreeSlots == {idPool[n] : n \in 1..Len(idPool)}
UsedSlots == {ids[v] : v \in DOMAIN ids \cap Objects}

SlotsAreUsedOrFree ==
    /\ \A v \in DOMAIN ids \cap (Objects \ Untyped) :
          \E h \in Handles : refs[h] = Box(ids[v], TRUE)
    /\ \A i \in PermanentIDs : values[i] = Permanent[i + 1]
    /\ \A m, n \in 1..Len(idPool) : idPool[m] = idPool[n] => m = n
    /\ 7..(length - 1) = FreeSlots \cup UsedSlots
    /\ FreeSlots \cap UsedSlots = {}

(* The table implements the handles it is there for.                        *)
Denoted == [h \in Handles |-> IF refs[h] = Empty THEN Free ELSE LoadValue(refs[h])]

Abstract == INSTANCE JsHandles WITH
    Handles <- Handles, Values <- Values, Free <- Free, denotes <- Denoted

ImplementsHandles == Abstract!Spec

=============================================================================

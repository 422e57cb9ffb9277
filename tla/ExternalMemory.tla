--------------------------- MODULE ExternalMemory ---------------------------
(***************************************************************************)
(* The external-memory entry points of the generated library              *)
(* (DaCeCodeGenerator.generate_external_memory_management,                 *)
(* framecode.py:353-403) and the caller that uses them.  For every storage *)
(* with External arrays the library exports a size query, returning the    *)
(* sum of the arrays' byte sizes, and a bind function, which points each   *)
(* array at base + offset, the offsets running over the same list.  The   *)
(* caller asks for the size, allocates a region of that many bytes        *)
(* (aligned as malloc aligns it) and binds it.                            *)
(*                                                                         *)
(* An array of sdfg.arrays_recursive() is a record [storage, lifetime,     *)
(* elems (total_size), bytes (dtype.bytes)].  total_size is evaluated      *)
(* with the init parameters, which the caller passes alike to both calls. *)
(***************************************************************************)
EXTENDS Integers, Sequences, SequencesExt

CONSTANTS
    Storages,    \* dtypes.StorageType values
    Elems,       \* total_size values
    ElemBytes,   \* dtype.bytes values
    MaxArrays    \* most arrays of one program

None == -1    \* no size and no offset is negative

VARIABLES
    arrays,      \* sdfg.arrays_recursive(), in its order
    region,      \* region[s]: bytes the caller allocated for storage s, or None
    ptr          \* ptr[j]: byte offset array j is bound to, or None

vars == <<arrays, region, ptr>>

Array == [storage: Storages, lifetime: {"External", "Persistent"},
          elems: Elems, bytes: ElemBytes]

ArrayBytes(a) == a.elems * a.bytes

\* ext_arrays[s]: the indices of the External arrays of storage s, in order.
ExtArrays(s) ==
    SelectSeq([j \in 1..Len(arrays) |-> j],
              LAMBDA j : arrays[j].lifetime = "External" /\ arrays[j].storage = s)

\* The storages the functions are generated for.
UsedStorages == {s \in Storages : ExtArrays(s) # <<>>}

\* size += arr.total_size * arr.dtype.bytes, over the first n arrays of s.
SizeOf(s, n) ==
    FoldLeft(LAMBDA acc, j : acc + ArrayBytes(arrays[j]), 0, SubSeq(ExtArrays(s), 1, n))

\* __dace_get_external_memory_size_<s>: the size over all arrays of s.
Size(s) == SizeOf(s, Len(ExtArrays(s)))

\* Mutant: offset advanced before the pointer of the array is written.
OffsetAfter(s, n) == SizeOf(s, n)

\* __dace_set_external_memory_<s>: the offset of the n-th array of s.
Offset(s, n) == SizeOf(s, n - 1)

-----------------------------------------------------------------------------

Init ==
    /\ arrays \in BoundedSeq(Array, MaxArrays)
    /\ region = [s \in Storages |-> None]
    /\ ptr = [j \in 1..Len(arrays) |-> None]

\* The caller queries the size of storage s and allocates that many bytes.
QueryAndAllocate(s) ==
    /\ s \in UsedStorages
    /\ region[s] = None
    /\ region' = [region EXCEPT ![s] = Size(s)]
    /\ UNCHANGED <<arrays, ptr>>

\* The caller binds the region of storage s.
SetExternalMemory(s) ==
    /\ region[s] # None
    /\ ptr[ExtArrays(s)[1]] = None
    /\ ptr' = [j \in DOMAIN ptr |->
                 IF \E n \in 1..Len(ExtArrays(s)) : ExtArrays(s)[n] = j
                 THEN Offset(s, CHOOSE n \in 1..Len(ExtArrays(s)) : ExtArrays(s)[n] = j)
                 ELSE ptr[j]]
    /\ UNCHANGED <<arrays, region>>

\* Every used storage is bound; the program runs on the arrays.
Bound ==
    /\ \A s \in UsedStorages : ptr[ExtArrays(s)[1]] # None
    /\ UNCHANGED vars

Next ==
    \/ \E s \in Storages : QueryAndAllocate(s) \/ SetExternalMemory(s)
    \/ Bound

Spec == Init /\ [][Next]_vars

-----------------------------------------------------------------------------

BoundIn(j) == ptr[j] # None

\* Spec section 6: one region per storage holds all its External arrays.
\* Every bound array lies inside the region the size query made the caller
\* allocate, and no two arrays bound in one region overlap.
BoundArraysFitAndDisjoint ==
    \A j \in DOMAIN ptr : BoundIn(j) =>
        /\ ptr[j] + ArrayBytes(arrays[j]) <= region[arrays[j].storage]
        /\ \A j2 \in DOMAIN ptr \ {j} :
             BoundIn(j2) /\ arrays[j2].storage = arrays[j].storage =>
                \/ ptr[j] + ArrayBytes(arrays[j]) <= ptr[j2]
                \/ ptr[j2] + ArrayBytes(arrays[j2]) <= ptr[j]
=============================================================================

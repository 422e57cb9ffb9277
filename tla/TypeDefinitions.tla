-------------------------- MODULE TypeDefinitions --------------------------
(***************************************************************************)
(* The custom-type definitions of the file header                          *)
(* (DaCeCodeGenerator.generate_fileheader, framecode.py:153-182).  The     *)
(* dtypes of all arrays of the SDFG and its nested SDFGs are gathered in a *)
(* Python set; for each, in the set's iteration order, _emit_definitions   *)
(* first recurses into the base type of a pointer or the field types of a  *)
(* struct, then writes the definition of a type that has one (a struct),   *)
(* unless the set emitted already holds it.                                *)
(*                                                                         *)
(* A typeclass can only name types that exist when it is built, so types *)
(* are numbered 1..N in construction order and a pointer or struct names  *)
(* lower numbers only.  A type is a record [kind, base, fields].           *)
(***************************************************************************)
EXTENDS Naturals, Sequences, SequencesExt, FiniteSets, Functions

CONSTANTS
    NTypes,      \* typeclasses built
    MaxFields    \* most fields of one struct

Types == 1..NTypes

\* The typeclasses type t may be built as.
TypeClass(t) ==
    {[kind |-> "scalar", base |-> 0, fields |-> <<>>]}
    \cup {[kind |-> "pointer", base |-> b, fields |-> <<>>] : b \in 1..(t - 1)}
    \cup {[kind |-> "struct", base |-> 0, fields |-> f] : f \in BoundedSeq(1..(t - 1), MaxFields)}

\* Every way of building types 1..n.
RECURSIVE TypeTables(_)
TypeTables(n) ==
    IF n = 0 THEN {<<>>}
    ELSE {Append(tt, c) : tt \in TypeTables(n - 1), c \in TypeClass(n)}

VARIABLES
    dtype,       \* dtype[t]: the typeclass t
    datatypes,   \* {arr.dtype for arr in sdfg.arrays_recursive()}
    todo,        \* the elements of datatypes the loop has not taken yet
    emitted,     \* emitted
    out          \* the definitions written to global_stream, in order

vars == <<dtype, datatypes, todo, emitted, out>>

\* hasattr(dtype, 'emit_definition')
HasDefinition(t) == dtype[t].kind = "struct"

-----------------------------------------------------------------------------

\* Mutant: the definition is written before the types it names.
RECURSIVE EmitPreorder(_, _)
EmitPreorder(t, st) ==
    LET mid == IF HasDefinition(t) /\ t \notin st.emitted
               THEN [emitted |-> st.emitted \cup {t}, out |-> Append(st.out, t)]
               ELSE st
    IN  CASE dtype[t].kind = "pointer" -> EmitPreorder(dtype[t].base, mid)
          [] dtype[t].kind = "struct" ->
                FoldLeft(LAMBDA s, f : EmitPreorder(f, s), mid, dtype[t].fields)
          [] OTHER -> mid

\* _emit_definitions(dtype) with emitted and the written definitions as st:
\* the state after the call.
RECURSIVE EmitDefinitions(_, _)
EmitDefinitions(t, st) ==
    LET after ==
          CASE dtype[t].kind = "pointer" -> EmitDefinitions(dtype[t].base, st)
            [] dtype[t].kind = "struct" ->
                  FoldLeft(LAMBDA s, f : EmitDefinitions(f, s), st, dtype[t].fields)
            [] OTHER -> st
    IN  IF HasDefinition(t) /\ t \notin after.emitted
        THEN [emitted |-> after.emitted \cup {t}, out |-> Append(after.out, t)]
        ELSE after

Init ==
    /\ dtype \in TypeTables(NTypes)
    /\ datatypes \in SUBSET Types
    /\ todo = datatypes
    /\ emitted = {}
    /\ out = <<>>

\* One iteration of `for typ in datatypes`, in any order of the set.
EmitFor(typ) ==
    /\ typ \in todo
    /\ LET st == EmitDefinitions(typ, [emitted |-> emitted, out |-> out])
       IN  /\ emitted' = st.emitted
           /\ out' = st.out
    /\ todo' = todo \ {typ}
    /\ UNCHANGED <<dtype, datatypes>>

\* The loop is over; the constants and the state struct follow.
Done ==
    /\ todo = {}
    /\ UNCHANGED vars

Next == (\E typ \in Types : EmitFor(typ)) \/ Done

Spec == Init /\ [][Next]_vars

-----------------------------------------------------------------------------

\* The types whose definitions the C++ definition of t names, directly or
\* through other types.
RECURSIVE Below(_)
Below(t) ==
    LET direct == CASE dtype[t].kind = "pointer" -> {dtype[t].base}
                    [] dtype[t].kind = "struct" -> ToSet(dtype[t].fields)
                    [] OTHER -> {}
    IN  direct \cup UNION {Below(u) : u \in direct}

Needed == {t \in datatypes \cup UNION {Below(d) : d \in datatypes} : HasDefinition(t)}

\* Spec section 4.2 (b): each custom-type definition is written at most
\* once however many arrays and structs name it, and only after the
\* definitions of every struct it names through fields and pointers, in
\* whatever order the set of dtypes is iterated; when the loop is over,
\* every struct an array uses, directly or not, is defined.
DefinitionsOnceBeforeUse ==
    /\ IsInjective(out)
    /\ \A i \in DOMAIN out : \A u \in Below(out[i]) :
          HasDefinition(u) => \E j \in 1..(i - 1) : out[j] = u
    /\ todo = {} => ToSet(out) = Needed
=============================================================================

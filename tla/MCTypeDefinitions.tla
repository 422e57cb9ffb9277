------------------------- MODULE MCTypeDefinitions -------------------------
(* Four typeclasses, structs of up to two fields, and every subset of them  *)
(* as the dtypes of the arrays: pointers to structs, structs sharing a     *)
(* field type and structs reached only through another are all built.     *)
EXTENDS TypeDefinitions

MCNTypes == 4
MCMaxFields == 2
=============================================================================

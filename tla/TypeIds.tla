------------------------------ MODULE TypeIds ------------------------------
(***************************************************************************)
(* The types of the programs whose members the type checker resolves, and  *)
(* their ids (ast/ids.h): a pair of a base and a number of dimensions.     *)
(*                                                                         *)
(* A world is the types of one program in topological order, with their    *)
(* implicit parents: [name, kind, abstract, package, parents, fields,      *)
(* methods, broken].  The parents are the extended types and then the      *)
(* implemented ones.  A type is broken if it is in a cycle of parents or   *)
(* below one.  A field is [name, tid, static, protected], a method         *)
(* [isConstructor, name, params, ret, static, protected, abstract]; those  *)
(* of interfaces are public and abstract.                                  *)
(***************************************************************************)
EXTENDS Naturals, Sequences

CONSTANT Worlds

Ref(t) == <<t, 0>>
ArrayOf(t) == <<t, 1>>
IsArray(tid) == tid[2] > 0

kError == Ref("error")
kNull == Ref("null")
kType == Ref("type")
kVoid == Ref("void")
kBool == Ref("boolean")
kChar == Ref("char")
kInt == Ref("int")

NoExpr == [k |-> "none"]   \* what is left out of a statement or an expression

IsValid(tid) == tid # kError

Numeric == {"byte", "char", "short", "int"}
Primitives == Numeric \cup {"boolean"}
NotReferences == Primitives \cup {"error", "null", "type", "void"}

IsNumeric(tid) == tid \in {Ref(t) : t \in Numeric}
IsPrimitive(tid) == tid \in {Ref(t) : t \in Primitives}
IsReference(tid) == IsArray(tid) \/ tid[1] \notin NotReferences \/ tid = kNull

TypeNamed(types, t) == CHOOSE i \in DOMAIN types : types[i].name = t
=============================================================================

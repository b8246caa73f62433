-------------------------------- MODULE Joos --------------------------------
(***************************************************************************)
(* The programs the back end compiles: typed expressions and statements as *)
(* the type checker leaves them, the widths of their types, and the world  *)
(* of the compiled method: the classes, fields and other methods it uses.  *)
(*                                                                         *)
(* A byte of memory has Radix values, where the machine's has 256; a short *)
(* and a char have two bytes, an int and a pointer four.                   *)
(***************************************************************************)
EXTENDS Integers, Sequences

CONSTANT Radix

ASSUME RadixAssumption == Radix \in Nat /\ Radix > 1 /\ Radix % 2 = 0

-----------------------------------------------------------------------------
(* Types.                                                                  *)

Type(b) == [base |-> b, ndims |-> 0]
ArrayOf(b) == [base |-> b, ndims |-> 1]

kBool == Type("bool")
kByte == Type("byte")
kShort == Type("short")
kChar == Type("char")
kInt == Type("int")
kNull == Type("null")
Object == Type("Object")
String == Type("String")

IsNumeric(t) == t \in {kByte, kShort, kChar, kInt}
IsPrimitive(t) == IsNumeric(t) \/ t = kBool
IsReference(t) == ~IsPrimitive(t)

IsPrimitiveWidening(lhs, rhs) ==
    \/ rhs = kByte /\ lhs \in {kShort, kInt}
    \/ rhs \in {kShort, kChar} /\ lhs = kInt

SizeClassFrom(t) ==
    IF t = kBool THEN "BOOL" ELSE IF t = kByte THEN "BYTE" ELSE IF t = kShort THEN "SHORT"
    ELSE IF t = kChar THEN "CHAR" ELSE IF t = kInt THEN "INT" ELSE "PTR"

ByteSizeFrom(size) ==
    IF size \in {"BOOL", "BYTE"} THEN 1 ELSE IF size \in {"SHORT", "CHAR"} THEN 2 ELSE 4

-----------------------------------------------------------------------------
(* Values of n bytes.                                                      *)

\* Radix ^ n: how many values n bytes have.
Modulus(n) ==
    CASE n = 0 -> 1
      [] n = 1 -> Radix
      [] n = 2 -> Radix * Radix
      [] n = 3 -> Radix * Radix * Radix
      [] n = 4 -> (Radix * Radix) * (Radix * Radix)
Signed(v, n) == LET u == v % Modulus(n)
                IN  IF 2 * u >= Modulus(n) THEN u - Modulus(n) ELSE u

\* What a value of type t is after a conversion to t keeps its low bytes.
Narrow(v, t) ==
    CASE t = kByte -> Signed(v, 1)
      [] t = kShort -> Signed(v, 2)
      [] t = kChar -> v % Modulus(2)
      [] t = kInt -> Signed(v, 4)
      [] OTHER -> v

\* Division truncates towards zero and the remainder has the dividend's sign.
Abs(n) == IF n < 0 THEN -n ELSE n
Quotient(a, b) ==
    LET q == Abs(a) \div Abs(b) IN IF (a < 0) = (b < 0) THEN q ELSE -q
Remainder(a, b) == a - b * Quotient(a, b)

\* What the operators of numbers and booleans give, both operands evaluated.
Truth(b) == IF b THEN 1 ELSE 0
Operation(op, l, r) ==
    CASE op = "ADD" -> Narrow(l + r, kInt)
      [] op = "SUB" -> Narrow(l - r, kInt)
      [] op = "MUL" -> Narrow(l * r, kInt)
      [] op = "DIV" -> Narrow(Quotient(l, r), kInt)
      [] op = "MOD" -> Narrow(Remainder(l, r), kInt)
      [] op = "EQ" -> Truth(l = r)
      [] op = "NEQ" -> Truth(l # r)
      [] op = "LT" -> Truth(l < r)
      [] op = "LE" -> Truth(l <= r)
      [] op = "GT" -> Truth(l > r)
      [] op = "GE" -> Truth(l >= r)
      [] op = "BAND" -> Truth(l = 1 /\ r = 1)
      [] op = "BOR" -> Truth(l = 1 \/ r = 1)
      [] op = "XOR" -> Truth(l # r)

-----------------------------------------------------------------------------
(* Typed programs.  BinExpr gets its type as in TypeChecker::BinExpr.      *)

Lit(t, v) == [k |-> "lit", tid |-> t, value |-> v]
Null == Lit(kNull, 0)
Name(t, vid) == [k |-> "name", tid |-> t, vid |-> vid]
This(t) == [k |-> "this", tid |-> t]
Field(t, base, fid) == [k |-> "field", tid |-> t, base |-> base, fid |-> fid]
StaticField(t, fid) == [k |-> "static", tid |-> t, fid |-> fid]
Index(t, array, index) == [k |-> "index", tid |-> t, array |-> array, index |-> index]
Unary(op, e) == [k |-> "unary", op |-> op, e |-> e, tid |-> IF op = "NOT" THEN kBool ELSE kInt]
Cast(t, e) == [k |-> "cast", tid |-> t, e |-> e]
InstanceOfExpr(e, t) == [k |-> "instanceof", tid |-> kBool, e |-> e, type |-> t]
CallExpr(t, base, mid, args) ==
    [k |-> "call", tid |-> t, base |-> base, mid |-> mid, args |-> args]
StaticRef == [k |-> "static_ref", tid |-> kNull]
NewArray(t, e) == [k |-> "new_array", tid |-> ArrayOf(t.base), elem |-> t, e |-> e]
NewClass(t, mid, args) == [k |-> "new_class", tid |-> t, mid |-> mid, args |-> args]

BinaryType(op, lhs, rhs) ==
    CASE op = "ASSG" -> lhs
      [] op \in {"AND", "OR", "BAND", "BOR", "XOR",
                 "EQ", "NEQ", "LT", "LE", "GT", "GE"} -> kBool
      [] op = "ADD" /\ String \in {lhs, rhs} -> String
      [] OTHER -> kInt
Binary(op, l, r) ==
    [k |-> "binary", op |-> op, l |-> l, r |-> r, tid |-> BinaryType(op, l.tid, r.tid)]
Assign(l, r) == Binary("ASSG", l, r)

ExprStmt(e) == [k |-> "expr", e |-> e]
LocalDecl(t, vid, e) == [k |-> "local", t |-> t, vid |-> vid, e |-> e]
Block(stmts) == [k |-> "block", stmts |-> stmts]
If(cond, then, else) == [k |-> "if", cond |-> cond, then |-> then, else |-> else]
While(cond, body) == [k |-> "while", cond |-> cond, body |-> body]
For(init, cond, update, body) ==
    [k |-> "for", init |-> init, cond |-> cond, update |-> update, body |-> body]
Return(e) == [k |-> "return", e |-> e]
Empty == Block(<< >>)

\* A method: its parameters [vid, tid] with `this' first, and its return type.
Method(params, ret, body) == [params |-> params, ret |-> ret, body |-> body]

-----------------------------------------------------------------------------
(* The world of the compiled method.  Class A has a field of each width and *)
(* B extends A; arrays have the class Array of the run-time library.        *)

Classes == {"Object", "String", "A", "B", "Array"}
Parent == [String |-> "Object", A |-> "Object", B |-> "A", Array |-> "Object"]
IsSubclass(c, d) ==
    \/ c = d
    \/ c # "Object" /\ (Parent[c] = d \/ (Parent[c] # "Object" /\ Parent[Parent[c]] = d)
                        \/ d = "Object")

\* An array's fields come after its pointer to a table; OffsetTable places the
\* wider fields of a class first.
ArrayLengthOffset == 4
ElemTypeOffset == 8
ArrayOverhead == 12
Fields == [g |-> Object, f |-> kInt, b |-> kByte]
FieldOffset == [g |-> 4, f |-> 8, b |-> 12]
SizeOf(c) == IF c \in {"A", "B"} THEN 16 ELSE 4

Statics == [s |-> kInt, t |-> kByte]

\* The other methods: each notes its call and hands back its last argument, but
\* the ones string addition calls hand back a string and a constructor nothing.
ReturnType(mid) ==
    CASE mid = "int" -> kInt
      [] mid = "bool" -> kBool
      [] mid = "byte" -> kByte
      [] mid \in {"StringOps.str", "String.valueOf", "String.concat"} -> String
      [] OTHER -> Object
Result(mid, args, string) ==
    IF ReturnType(mid) = String THEN string ELSE args[Len(args)]

\* An object, its type (of the elements, for an array) and what it holds.
NewObject(c) == [array |-> FALSE, type |-> Type(c),
                 cells |-> [f \in IF c \in {"A", "B"} THEN DOMAIN Fields ELSE {} |-> 0]]
NewArrayObject(t, n) == [array |-> TRUE, type |-> t, cells |-> [i \in 0..(n - 1) |-> 0]]

\* Whether object o belongs to type t (TypeInfo.InstanceOf for classes).
Belongs(o, t) ==
    IF t.ndims > 0
    THEN /\ o.array
         /\ \/ o.type = Type(t.base)
            \/ /\ IsReference(o.type) /\ IsReference(Type(t.base))
               /\ IsSubclass(o.type.base, t.base)
    ELSE IsSubclass(IF o.array THEN "Array" ELSE o.type.base, t.base)
=============================================================================

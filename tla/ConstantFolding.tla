--------------------------- MODULE ConstantFolding ---------------------------
(***************************************************************************)
(* Constant folding (src/types/constant_folding.cpp).                      *)
(*                                                                         *)
(* The last pass of the type checker rewrites the program's expressions:   *)
(* one with constant operands becomes a ConstExpr around a literal.  It    *)
(* also numbers every string the program will need; the back end writes    *)
(* those strings out and asks for their numbers.                           *)
(*                                                                         *)
(* A program is the sequence of its expressions in the order in which the  *)
(* visitor is done with them: the operands of each, given by their places, *)
(* come before it.  A step rewrites one expression.  The rewritten ones    *)
(* have the places that follow: they refer to each other, and to the       *)
(* expressions of the original that the visitor kept.                      *)
(*                                                                         *)
(* A string is the sequence of its characters' codes, so a char has to be  *)
(* able to hold the codes of the digits and letters used.                  *)
(***************************************************************************)
EXTENDS Joos, SequencesExt, FiniteSets

CONSTANTS
    Programs,   \* the programs, as the type checker leaves them
    Valuations  \* what the variables of an expression may hold

VARIABLES
    original,   \* the program
    folded,     \* what became of each expression rewritten so far
    strings     \* the strings with an id, in the order of their ids

vars == <<original, folded, strings>>

-----------------------------------------------------------------------------
(* Well-typed programs (TypeChecker::BinExpr, UnaryExpr, CastExpr).  A name  *)
(* stands for every expression that the pass leaves as it is.  Casts that    *)
(* may fail are left out.                                                    *)

Numeric == {kByte, kShort, kChar, kInt}

OperandsFit(op, lhs, rhs) ==
    \/ op \in {"ADD", "SUB", "MUL", "DIV", "MOD", "LT", "LE", "GT", "GE", "EQ", "NEQ"}
       /\ IsNumeric(lhs) /\ IsNumeric(rhs)
    \/ op = "ADD" /\ String \in {lhs, rhs}
    \/ op \in {"AND", "OR", "BAND", "BOR", "XOR", "EQ", "NEQ"} /\ lhs = kBool /\ rhs = kBool
    \/ op \in {"EQ", "NEQ"} /\ IsReference(lhs) /\ IsReference(rhs)

CastAllowed(to, from) ==
    \/ IsNumeric(to) /\ IsNumeric(from)
    \/ to = from
    \/ to = Object /\ IsReference(from)

LitFits(e) ==
    \/ e.tid = kInt /\ e.value \in -(Modulus(4) \div 2)..(Modulus(4) \div 2 - 1)
    \/ e.tid = kChar /\ e.value \in 0..(Modulus(2) - 1)
    \/ e.tid = kBool /\ e.value \in {0, 1}
    \/ e.tid \in {String, kNull}

\* Expression i of program p.
WellTyped(p, i) ==
    LET e == p[i]
    IN  \/ e.k = "lit" /\ e = Lit(e.tid, e.value) /\ LitFits(e)
        \/ e.k = "name" /\ e = Name(e.tid, e.vid)
        \/ /\ e.k = "unary" /\ e.e \in 1..(i - 1)
           /\ \/ e = Unary("SUB", e.e) /\ IsNumeric(p[e.e].tid)
              \/ e = Unary("NOT", e.e) /\ p[e.e].tid = kBool
        \/ /\ e.k = "cast" /\ e.e \in 1..(i - 1)
           /\ e = Cast(e.tid, e.e) /\ CastAllowed(e.tid, p[e.e].tid)
        \/ /\ e.k = "binary" /\ e.l \in 1..(i - 1) /\ e.r \in 1..(i - 1)
           /\ OperandsFit(e.op, p[e.l].tid, p[e.r].tid)
           /\ e = [k |-> "binary", op |-> e.op, l |-> e.l, r |-> e.r,
                   tid |-> BinaryType(e.op, p[e.l].tid, p[e.r].tid)]

WellTypedProgram(p) == \A i \in DOMAIN p : WellTyped(p, i)

ASSUME ProgramsAssumption ==
    \A p \in Programs : p \in Seq(Range(p)) /\ WellTypedProgram(p)

ASSUME ValuationsAssumption == Valuations # {}

-----------------------------------------------------------------------------

\* ConstExpr: the folded literal; the expression it replaces is kept for messages.
Const(lit) == [k |-> "const", tid |-> lit.tid, constant |-> lit]
IsConst(e) == e.k = "const"
Bool(b) == Const(Lit(kBool, Truth(b)))
IsNumericOp(op) == op \in {"ADD", "SUB", "MUL", "DIV", "MOD"}

\* Mutant: a string may get a second id.
AddStringAgain(strs, s) == Append(strs, s)

AddString(strs, s) == IF Contains(strs, s) THEN strs ELSE Append(strs, s)

Digits[n \in Nat] == (IF n < 10 THEN << >> ELSE Digits[n \div 10]) \o << 48 + (n % 10) >>
TrueText == << 116, 114, 117, 101 >>
FalseText == << 102, 97, 108, 115, 101 >>

Stringify(lit) ==
    CASE lit.tid = String -> lit.value
      [] lit.tid = kChar -> << lit.value >>
      [] lit.tid = kBool -> IF lit.value = 1 THEN TrueText ELSE FalseText
      [] OTHER -> IF lit.value < 0 THEN << 45 >> \o Digits[-lit.value] ELSE Digits[lit.value]

\* The four operators of booleans it knows; any other gives false.
FoldBool(op, l, r) ==
    CASE op = "OR" -> l = 1 \/ r = 1
      [] op = "AND" -> l = 1 /\ r = 1
      [] op = "EQ" -> l = r
      [] op = "NEQ" -> l # r
      [] OTHER -> FALSE

\* Mutant: the operands are not taken back to signed ones.
FoldIntUnsigned(op, l, r) ==
    LET u(v) == v % Modulus(4)
    IN  Narrow(CASE op = "DIV" -> u(l) \div u(r) [] op = "MOD" -> u(l) % u(r)
                 [] op = "ADD" -> l + r [] op = "SUB" -> l - r [] op = "MUL" -> l * r, kInt)
FoldInt(op, l, r) ==
    Narrow(CASE op = "ADD" -> l + r
             [] op = "SUB" -> l - r
             [] op = "MUL" -> l * r
             [] op = "DIV" -> Quotient(l, r)
             [] op = "MOD" -> Remainder(l, r), kInt)

FoldRelation(op, l, r) ==
    CASE op = "LE" -> l <= r
      [] op = "GE" -> l >= r
      [] op = "LT" -> l < r
      [] op = "GT" -> l > r
      [] op = "EQ" -> l = r
      [] op = "NEQ" -> l # r

\* The low bytes of the value, as if they were unsigned.
FoldCast(t, v) ==
    CASE t = kInt -> v
      [] t \in {kChar, kShort} -> v % Modulus(2)
      [] t = kByte -> v % Modulus(1)

\* What a visit leaves: the rewritten expression and the strings.
Done(e, strs) == [e |-> e, strings |-> strs]
FoldedString(s, strs) == Done(Const(Lit(String, s)), AddString(strs, s))

\* Both operands are constants.
FoldBinary(e, l, r, strs) ==
    IF l.tid = kBool /\ r.tid = kBool THEN Done(Bool(FoldBool(e.op, l.value, r.value)), strs)
    ELSE IF IsNumericOp(e.op) /\ String \in {l.tid, r.tid}
    THEN FoldedString(Stringify(l) \o Stringify(r), strs)
    ELSE IF e.op \in {"DIV", "MOD"} /\ r.value = 0 THEN Done(e, strs)
    ELSE IF IsNumericOp(e.op) THEN Done(Const(Lit(kInt, FoldInt(e.op, l.value, r.value))), strs)
    ELSE Done(Bool(FoldRelation(e.op, l.value, r.value)), strs)

\* The place of what became of expression i.
Rewritten(i) == Len(original) + i

BinExpr(e, strs) ==
    LET l == folded[e.l]
        r == folded[e.r]
    IN  IF IsConst(l) /\ IsConst(r) THEN FoldBinary(e, l.constant, r.constant, strs)
        ELSE Done([e EXCEPT !.l = Rewritten(e.l), !.r = Rewritten(e.r)], strs)

\* Mutant: only a minus is folded.
UnaryExprMinusOnly(e, strs) ==
    LET rhs == folded[e.e]
    IN  IF ~IsConst(rhs) \/ e.op = "NOT" THEN Done(e, strs)
        ELSE Done(Const(Lit(kInt, Narrow(-rhs.constant.value, kInt))), strs)

\* If the operand is no constant, its rewritten form is dropped.
UnaryExpr(e, strs) ==
    LET rhs == folded[e.e]
    IN  IF ~IsConst(rhs) THEN Done(e, strs)
        ELSE IF e.op = "SUB" THEN Done(Const(Lit(kInt, Narrow(-rhs.constant.value, kInt))), strs)
        ELSE Done(Bool(rhs.constant.value = 0), strs)

\* A constant cast to another type of reference stays a cast.
CastExpr(e, strs) ==
    LET inner == folded[e.e]
        cast == [e EXCEPT !.e = Rewritten(e.e)]
    IN  IF ~IsConst(inner) THEN Done(cast, strs)
        ELSE IF e.tid = inner.tid THEN Done(inner, strs)
        ELSE IF IsPrimitive(e.tid)
        THEN Done(Const(Lit(e.tid, FoldCast(e.tid, inner.constant.value))), strs)
        ELSE Done(cast, strs)

LitExpr(e, strs) ==
    CASE e.tid = kNull -> Done(e, strs)
      [] e.tid = String -> FoldedString(e.value, strs)
      [] OTHER -> Done(Const(e), strs)

Rewrite(e, strs) ==
    CASE e.k = "lit" -> LitExpr(e, strs)
      [] e.k = "binary" -> BinExpr(e, strs)
      [] e.k = "unary" -> UnaryExpr(e, strs)
      [] e.k = "cast" -> CastExpr(e, strs)
      [] e.k = "name" -> Done(e, strs)

\* The least int divided by -1 traps: the compiler ends there.
Traps(e) ==
    /\ e.k = "binary" /\ e.op \in {"DIV", "MOD"}
    /\ IsConst(folded[e.l]) /\ folded[e.l].constant.value = -(Modulus(4) \div 2)
    /\ IsConst(folded[e.r]) /\ folded[e.r].constant.value = -1

-----------------------------------------------------------------------------

Init ==
    /\ original \in Programs
    /\ folded = << >>
    /\ strings = << >>

\* The visitor is done with the operands of the next expression.
ConstantFold ==
    /\ Len(folded) < Len(original)
    /\ LET e == original[Len(folded) + 1]
           next == Rewrite(e, strings)
       IN  /\ ~Traps(e)
           /\ folded' = Append(folded, next.e)
           /\ strings' = next.strings
    /\ UNCHANGED original

Spec == Init /\ [][ConstantFold]_vars

-----------------------------------------------------------------------------
(* What an expression means: whether it is a constant expression of the      *)
(* language, and its value unless it throws an exception.  A reference is    *)
(* the text it has as a string and an object: null, the program's own string *)
(* of that text, a string made while the expression is evaluated, which no   *)
(* other reference refers to, or the object a variable holds.                *)

Throws == << >>
Gives(v) == << v >>
Meaning(constant, value) == [constant |-> constant, value |-> value]

Reference(text, object) == [text |-> text, object |-> object]
NullReference == Reference(<< 110, 117, 108, 108 >>, "null")

ValueOf(lit) ==
    CASE lit.tid = kNull -> NullReference
      [] lit.tid = String -> Reference(lit.value, "interned")
      [] OTHER -> lit.value

TextOf(t, v) == IF IsReference(t) THEN v.text ELSE Stringify(Lit(t, v))

MeaningOfUnary(op, m) ==
    Meaning(m.constant,
            IF m.value = Throws THEN Throws
            ELSE Gives(IF op = "SUB" THEN Narrow(-m.value[1], kInt) ELSE 1 - m.value[1]))

MeaningOfCast(t, m) ==
    Meaning(m.constant /\ (IsPrimitive(t) \/ t = String),
            IF m.value = Throws THEN Throws ELSE Gives(Narrow(m.value[1], t)))

\* A division by zero is no constant.
ConstantOperation(op, l, r) ==
    l.constant /\ r.constant /\ (op \in {"DIV", "MOD"} => r.value # Gives(0))

\* The operation on the values of both operands, whose types are lhs and rhs.
Operate(op, lhs, rhs, l, r, constant) ==
    IF String \in {lhs, rhs} /\ op = "ADD"
    THEN Gives(Reference(TextOf(lhs, l) \o TextOf(rhs, r), IF constant THEN "interned" ELSE "fresh"))
    ELSE IF IsReference(lhs) THEN Gives(Truth((l = r /\ l.object # "fresh") = (op = "EQ")))
    ELSE IF op \in {"DIV", "MOD"} /\ r = 0 THEN Throws
    ELSE IF op \in {"AND", "OR"} THEN Gives(r)
    ELSE Gives(Operation(op, l, r))

MeaningOfBinary(op, lhs, rhs, l, r) ==
    Meaning(ConstantOperation(op, l, r),
            IF \/ l.value = Throws
               \/ op = "AND" /\ l.value = Gives(0)
               \/ op = "OR" /\ l.value = Gives(1)
            THEN l.value
            ELSE IF r.value = Throws THEN Throws
            ELSE Operate(op, lhs, rhs, l.value[1], r.value[1], ConstantOperation(op, l, r)))

\* What e means among the expressions p, whose meanings are m.
MeaningOf(e, p, m, env) ==
    CASE e.k = "const" -> Meaning(TRUE, Gives(ValueOf(e.constant)))
      [] e.k = "lit" -> Meaning(e.tid # kNull, Gives(ValueOf(e)))
      [] e.k = "name" -> Meaning(FALSE, Gives(env[e.vid]))
      [] e.k = "unary" -> MeaningOfUnary(e.op, m[e.e])
      [] e.k = "cast" -> MeaningOfCast(e.tid, m[e.e])
      [] e.k = "binary" -> MeaningOfBinary(e.op, p[e.l].tid, p[e.r].tid, m[e.l], m[e.r])

Meanings(p, env) == LET m[i \in DOMAIN p] == MeaningOf(p[i], p, m, env) IN m

-----------------------------------------------------------------------------

\* The program and what became of it so far.
Nodes == original \o folded

\* Folding changes no type (ConstExpr's CHECK), no value and no exception, whatever
\* the variables hold.
MeaningPreserved ==
    /\ \A i \in DOMAIN folded : folded[i].tid = original[i].tid
    /\ \A env \in Valuations :
          LET m == Meanings(Nodes, env)
          IN  \A i \in DOMAIN folded : m[Rewritten(i)].value = m[i].value

\* Expression i of program p is a constant expression of the language.
IsConstant(p, i) == \A env \in Valuations : Meanings(p, env)[i].constant

\* The reachability analysis takes a loop's condition for constant only if it was
\* folded: every constant expression is.
ConstantsFold ==
    \A i \in DOMAIN folded : IsConstant(original, i) => IsConst(folded[i])

\* Each string left in the program has one id, which the back end will ask for.
HasId(lit) == lit.tid = String => Contains(strings, lit.value)
StringsHaveIds ==
    /\ IsInjective(strings)
    /\ \A i \in DOMAIN folded :
          /\ original[i].k = "lit" => HasId(original[i])
          /\ folded[i].k = "lit" => HasId(folded[i])
          /\ IsConst(folded[i]) => HasId(folded[i].constant)

\* The programs that folding gets right: those without an operation &, | or ^ on
\* constants, and without a cast of a constant to a byte or a short of which the
\* low bytes are another number when they are read as unsigned.
FoldsRight(p) ==
    \A env \in Valuations :
       LET m == Meanings(p, env)
       IN  \A i \in DOMAIN p :
              /\ p[i].k = "binary" /\ p[i].op \in {"BAND", "BOR", "XOR"}
                   => ~(m[p[i].l].constant /\ m[p[i].r].constant)
              /\ p[i].k = "cast" /\ p[i].tid \in {kByte, kShort} /\ m[p[i].e].constant
                   => FoldCast(p[i].tid, m[p[i].e].value[1]) = Narrow(m[p[i].e].value[1], p[i].tid)
=============================================================================

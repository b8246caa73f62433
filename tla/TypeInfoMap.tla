---------------------------- MODULE TypeInfoMap ----------------------------
(***************************************************************************)
(* What the type checker asks about types and their members                *)
(* (types/type_info_map.cpp): the tables of fields and methods of each     *)
(* type, who is whose ancestor, and which member an access or a call means *)
(* and whether the caller may use it.  MemberTables has the rules of       *)
(* overriding; here a method that a type has already is kept as it is.     *)
(***************************************************************************)
EXTENDS TypeIds, FiniteSets, SequencesExt, TLC

\* All arrays share one TypeInfo, called array.
Entry(types, tid) == TypeNamed(types, IF IsArray(tid) THEN "array" ELSE tid[1])

-----------------------------------------------------------------------------
(***************************************************************************)
(* BuildFieldTable, BuildMethodTable and MakeResolvedMethodTable.          *)
(***************************************************************************)
AllBlacklisted == [good |-> {}, bad |-> {}, badConstructor |-> TRUE, all |-> TRUE]

Signature(m) == [isConstructor |-> m.isConstructor, name |-> m.name, params |-> m.params]

\* What a table is keyed by.
Key(m) == IF "params" \in DOMAIN m THEN Signature(m) ELSE m.name

\* The members of a type that are declared once, and the names of the others.
OwnTable(type, members) ==
  LET Once(k) == \A l \in DOMAIN members : Key(members[l]) = Key(members[k]) => l = k
  IN  [good |-> {[owner |-> type.name, info |-> members[k]] : k \in {j \in DOMAIN members : Once(j)}},
       bad |-> {members[k].name : k \in {j \in DOMAIN members : ~Once(j)}},
       badConstructor |-> FALSE,
       all |-> FALSE]

\* Hidden and blacklisted members are not inherited.
Inherited(table, parent) ==
  IF table.all \/ parent.all THEN AllBlacklisted
  ELSE [table EXCEPT
          !.good = @ \cup {m \in parent.good : /\ m.info.name \notin table.bad
                                               /\ \A o \in @ : Key(o.info) # Key(m.info)},
          !.bad = @ \cup parent.bad]

FieldTables(types) ==
  LET Table[i \in DOMAIN types] ==
        IF types[i].broken THEN AllBlacklisted
        ELSE FoldLeft(LAMBDA table, p : Inherited(table, Table[TypeNamed(types, p)]),
                      OwnTable(types[i], types[i].fields), types[i].parents)
  IN  Table

\* Constructors are not inherited.
WithoutConstructors(table) ==
  [table EXCEPT !.good = {m \in @ : ~m.info.isConstructor}]

MethodTables(types) ==
  LET HasBadConstructor(type) ==
        \E k \in DOMAIN type.methods : type.methods[k].isConstructor /\ type.methods[k].name # type.name
      Table[i \in DOMAIN types] ==
        IF types[i].broken THEN AllBlacklisted
        ELSE FoldLeft(LAMBDA table, p :
                        Inherited(table, WithoutConstructors(Table[TypeNamed(types, p)])),
                      [OwnTable(types[i], types[i].methods) EXCEPT !.badConstructor = HasBadConstructor(types[i])],
                      types[i].parents)
  IN  Table

\* A class that is extended needs a constructor without parameters.  The error is
\* about that class, which is in error itself once all tables are built.
Unextendable(types, methods) ==
  LET Extended(i) == /\ types[i].kind = "class"
                     /\ \E t \in ToSet(types) : ~t.broken /\ types[i].name \in ToSet(t.parents)
      HasEmptyConstructor(i) ==
        \E m \in methods[i].good : m.info.isConstructor /\ m.info.params = <<>>
  IN  {i \in DOMAIN types : Extended(i) /\ ~HasEmptyConstructor(i)}

\* The ancestors of each type, without itself.
Ancestors(types) ==
  LET Above[i \in DOMAIN types] ==
        ToSet(types[i].parents) \cup UNION {Above[TypeNamed(types, p)] : p \in ToSet(types[i].parents)}
  IN  Above

\* The map of each world.
Build ==
  [w \in DOMAIN Worlds |->
    LET types == Worlds[w]
        methods == MethodTables(types)
    IN  [types |-> types, fields |-> FieldTables(types), methods |-> methods, ancestors |-> Ancestors(types),
         inError |-> {i \in DOMAIN types : types[i].broken} \cup Unextendable(types, methods)]]

\* The entry of a type in error is kErrorTypeInfo, of no package and with no members.
LookupTypeInfo(map, tid) ==
  LET i == Entry(map.types, tid)
      none == [name |-> "", kind |-> "class", package |-> "", abstract |-> FALSE, parents |-> <<>>,
               fields |-> AllBlacklisted, methods |-> AllBlacklisted]
  IN  IF i \in map.inError THEN [valid |-> FALSE] @@ none
      ELSE [valid |-> TRUE, fields |-> map.fields[i], methods |-> map.methods[i]] @@ map.types[i]

-----------------------------------------------------------------------------
\* A type in error has every ancestor, and so have its heirs.  (inherit_map_ only
\* remembers the answers.)
IsAncestor(map, child, ancestor) ==
  LET i == Entry(map.types, child)
  IN  \/ \E j \in {i} \cup {TypeNamed(map.types, t) : t \in map.ancestors[i]} : j \in map.inError
      \/ ancestor \in {Ref(t) : t \in map.ancestors[i]}

-----------------------------------------------------------------------------
(***************************************************************************)
(* ResolveAccess and ResolveCall.  The context is INSTANCE, STATIC or      *)
(* CONSTRUCTOR; the answer is a member and its owner, or errors.           *)
(***************************************************************************)
Found(m) == [found |-> TRUE, member |-> m, errs |-> {}]
NotFound(errs) == [found |-> FALSE, errs |-> errs]

\* What kind of error it is, and the types or the member it is about.
Error(kind, about) == <<kind, about>>
NotFoundBut(kind, about) == NotFound({Error(kind, about)})

\* Mutant of IsAccessible: any heir may use the members of any object.
IsAccessibleToHeirs(map, m, ctx, caller, callee) ==
  \/ caller = m.owner
  \/ ~m.info.protected
  \/ LookupTypeInfo(map, Ref(m.owner)).package = LookupTypeInfo(map, Ref(caller)).package
  \/ /\ ctx # "CONSTRUCTOR"
     /\ IsAncestor(map, Ref(caller), Ref(m.owner))

IsAccessible(map, m, ctx, caller, callee) ==
  \/ caller = m.owner
  \/ ~m.info.protected
  \/ LookupTypeInfo(map, Ref(m.owner)).package = LookupTypeInfo(map, Ref(caller)).package
  \/ /\ ctx # "CONSTRUCTOR"
     /\ IsAncestor(map, Ref(caller), Ref(m.owner))
     /\ ctx = "STATIC" \/ callee = Ref(caller) \/ IsAncestor(map, callee, Ref(caller))

Permitted(map, m, ctx, caller, callee) ==
  IF IsAccessible(map, m, ctx, caller, callee) THEN Found(m)
  ELSE NotFoundBut("Permission", <<m, ctx, caller, callee>>)

ResolveAccess(map, caller, ctx, callee, name) ==
  LET table == LookupTypeInfo(map, callee).fields
      named == {f \in table.good : f.info.name = name}
      f == CHOOSE f \in named : TRUE
  IN  CASE named = {} /\ (table.all \/ name \in table.bad) -> NotFound({})
        [] named = {} -> NotFoundBut("UndefinedReference", <<callee, name>>)
        [] f.info.static /\ ctx # "STATIC" -> NotFoundBut("StaticFieldOnInstance", <<callee, name>>)
        [] ~f.info.static /\ ctx = "STATIC" -> NotFoundBut("InstanceFieldOnStatic", <<callee, name>>)
        [] OTHER -> Permitted(map, f, ctx, caller, callee)

IsBlacklisted(table, ctx, name) ==
  \/ table.all
  \/ IF ctx = "CONSTRUCTOR" THEN table.badConstructor ELSE name \in table.bad

ResolveCall(map, caller, ctx, callee, params, name) ==
  LET table == LookupTypeInfo(map, callee).methods
      sig == [isConstructor |-> ctx = "CONSTRUCTOR", name |-> name, params |-> params]
      called == {m \in table.good : Signature(m.info) = sig}
      m == CHOOSE m \in called : TRUE
  IN  CASE called = {} /\ IsBlacklisted(table, ctx, name) -> NotFound({})
        [] called = {} -> NotFoundBut("UndefinedMethod", <<callee, sig>>)
        [] ctx = "CONSTRUCTOR" /\ LookupTypeInfo(map, callee).abstract ->
             NotFoundBut("NewAbstractClass", <<callee>>)
        [] m.info.static /\ ctx # "STATIC" -> NotFoundBut("InstanceMethodOnStatic", <<callee, sig>>)
        [] ~m.info.static /\ ctx = "STATIC" -> NotFoundBut("StaticMethodOnInstance", <<callee, sig>>)
        [] OTHER -> Permitted(map, m, ctx, caller, callee)
=============================================================================

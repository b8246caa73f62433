----------------------------- MODULE SymbolTable -----------------------------
(***************************************************************************)
(* The table of local variables the type checker keeps while it rewrites   *)
(* one method (src/types/symbol_table.cpp).                                *)
(*                                                                         *)
(* The table does not keep one environment per block.  It keeps a single   *)
(* map of the visible variables, cur_symbols, and an undo log: scopes is   *)
(* the list of the names declared since the method began, cut into the     *)
(* open blocks by scope_lengths and cur_scope_len.  Leaving a block pops    *)
(* that block's names and erases them from the map.                        *)
(*                                                                         *)
(* The actions are the table's operations, called the way the type checker *)
(* calls them: blocks and declarations are nested by the guard objects     *)
(* ScopeGuard and VarDeclGuard.                                            *)
(***************************************************************************)
EXTENDS Naturals, Sequences, FiniteSets

CONSTANTS
    Names,      \* the names a program may give to parameters and locals
    MaxParams,  \* bound: parameters of a method
    MaxVars,    \* bound: variable ids one table may issue
    MaxDepth    \* bound: open scopes, the parameter scope included

ASSUME BoundsAssumption ==
    /\ MaxParams \in Nat
    /\ MaxVars \in Nat
    /\ MaxParams <= MaxVars
    /\ MaxDepth \in Nat \ {0}

\* No identifier is empty.
ASSUME NamesAssumption == << >> \notin Names

VARIABLES
    cur_symbols,         \* visible name -> variable id
    cur_scope_len,       \* names declared in the innermost scope
    scopes,              \* names declared so far, outermost first
    scope_lengths,       \* cur_scope_len of each enclosing scope
    var_id_counter,      \* the next variable id
    currently_declaring, \* the variable whose initializer is being rewritten
    alive,               \* a table exists (one method is being checked)
    in_decl,             \* a VarDeclGuard exists
    failed,              \* a CHECK failed: the compiler aborts
    outcome              \* what the last operation answered its caller

table == <<cur_symbols, cur_scope_len, scopes, scope_lengths,
           var_id_counter, currently_declaring>>
vars == <<table, alive, in_decl, failed, outcome>>

\* Mutant: a signed sentinel for an unsigned id.
SignedUnassigned == 0 - 1

kVarUnassigned == 0
kVarFirst == 100

Errors == {"none", "DuplicateDefinition", "VariableInitializerSelfReference"}

Answer(vid, error) == [vid |-> vid, error |-> error]

ParamLists == UNION {[1..n -> Names] : n \in 0..MaxParams}

\* The parameters std::map::insert enters: it keeps the first entry of a key.
Inserted(params) ==
    {i \in DOMAIN params : \A j \in 1..(i - 1) : params[j] # params[i]}

\* Mutant: the counter is not advanced between parameters.
ParamsShareId(params) ==
    [name \in {params[i] : i \in Inserted(params)} |-> kVarFirst]

ParamSymbols(params) ==
    [name \in {params[i] : i \in Inserted(params)} |->
        kVarFirst - 1 + CHOOSE i \in Inserted(params) : params[i] = name]

TypeOK ==
    /\ DOMAIN cur_symbols \subseteq Names
    /\ \A name \in DOMAIN cur_symbols : cur_symbols[name] \in Nat
    /\ cur_scope_len \in Nat
    /\ scopes \in Seq(Names)
    /\ scope_lengths \in Seq(Nat)
    /\ var_id_counter \in Nat
    /\ currently_declaring \in Nat
    /\ alive \in BOOLEAN
    /\ in_decl \in BOOLEAN
    /\ failed \in BOOLEAN
    /\ outcome \in [vid : Nat, error : Errors]

-----------------------------------------------------------------------------

Init ==
    /\ cur_symbols = [name \in {} |-> kVarUnassigned]
    /\ cur_scope_len = 0
    /\ scopes = << >>
    /\ scope_lengths = << >>
    /\ var_id_counter = kVarFirst
    /\ currently_declaring = kVarUnassigned
    /\ alive = FALSE
    /\ in_decl = FALSE
    /\ failed = FALSE
    /\ outcome = Answer(kVarUnassigned, "none")

\* A failed CHECK ends the process; the table's state no longer matters.
Abort ==
    /\ failed' = TRUE
    /\ UNCHANGED <<table, alive, in_decl, outcome>>

\* The constructor: enter the parameter scope and insert the parameters, which
\* are not entered in the undo log.  A repeated name is reported and dropped,
\* but uses up an id.
Construct(params) ==
    /\ ~failed /\ ~alive
    /\ cur_symbols' = ParamSymbols(params)
    /\ cur_scope_len' = 0
    /\ scopes' = << >>
    /\ scope_lengths' = << 0 >>
    /\ var_id_counter' = kVarFirst + Len(params)
    /\ currently_declaring' = kVarUnassigned
    /\ alive' = TRUE
    /\ outcome' = Answer(kVarUnassigned,
                         IF Inserted(params) # DOMAIN params
                         THEN "DuplicateDefinition" ELSE "none")
    /\ UNCHANGED <<in_decl, failed>>

EnterScope ==
    /\ ~failed /\ alive /\ ~in_decl
    /\ Len(scope_lengths) < MaxDepth
    /\ scope_lengths' = Append(scope_lengths, cur_scope_len)
    /\ cur_scope_len' = 0
    /\ outcome' = Answer(kVarUnassigned, "none")
    /\ UNCHANGED <<cur_symbols, scopes, var_id_counter, currently_declaring,
                   alive, in_decl, failed>>

\* The names the innermost scope declared, and the log without them.
Innermost == {scopes[i] : i \in (Len(scopes) - cur_scope_len + 1)..Len(scopes)}
OuterScopes == SubSeq(scopes, 1, Len(scopes) - cur_scope_len)

\* The CHECKs of LeaveScope: the log is long enough, there is a scope to
\* return to, and each popped name is still in the map when it is erased.
LeaveScopeChecks ==
    /\ Len(scopes) >= cur_scope_len
    /\ Len(scope_lengths) > 0
    /\ \A i \in (Len(scopes) - cur_scope_len + 1)..Len(scopes) :
          /\ scopes[i] \in DOMAIN cur_symbols
          /\ \A j \in (i + 1)..Len(scopes) : scopes[j] # scopes[i]

\* Mutant: the length of the scope returned to is not restored.
PopScopeForgetLength ==
    /\ cur_symbols' = [name \in DOMAIN cur_symbols \ Innermost |-> cur_symbols[name]]
    /\ scopes' = OuterScopes
    /\ cur_scope_len' = 0
    /\ scope_lengths' = SubSeq(scope_lengths, 1, Len(scope_lengths) - 1)
    /\ UNCHANGED <<var_id_counter, currently_declaring>>

PopScope ==
    /\ cur_symbols' = [name \in DOMAIN cur_symbols \ Innermost |-> cur_symbols[name]]
    /\ scopes' = OuterScopes
    /\ cur_scope_len' = scope_lengths[Len(scope_lengths)]
    /\ scope_lengths' = SubSeq(scope_lengths, 1, Len(scope_lengths) - 1)
    /\ UNCHANGED <<var_id_counter, currently_declaring>>

\* ~ScopeGuard of a block or for statement.
LeaveScope ==
    /\ ~failed /\ alive /\ ~in_decl
    /\ Len(scope_lengths) > 1
    /\ IF LeaveScopeChecks
       THEN /\ PopScope
            /\ outcome' = Answer(kVarUnassigned, "none")
            /\ UNCHANGED <<alive, in_decl, failed>>
       ELSE Abort

\* The destructor, run when every block of the method has been left.
Destroy ==
    /\ ~failed /\ alive /\ ~in_decl
    /\ Len(scope_lengths) = 1
    /\ IF LeaveScopeChecks /\ OuterScopes = << >>
       THEN /\ PopScope
            /\ alive' = FALSE
            /\ outcome' = Answer(kVarUnassigned, "none")
            /\ UNCHANGED <<in_decl, failed>>
       ELSE Abort

\* VarDeclGuard's constructor.  A method body is a block, so there is a scope
\* inside the parameter scope.
DeclareLocalStart(name) ==
    /\ ~failed /\ alive /\ ~in_decl
    /\ Len(scope_lengths) > 1
    /\ IF currently_declaring # kVarUnassigned THEN Abort
       ELSE /\ in_decl' = TRUE
            /\ UNCHANGED <<alive, failed>>
            /\ \/ /\ name \in DOMAIN cur_symbols
                  /\ outcome' = Answer(cur_symbols[name], "DuplicateDefinition")
                  /\ UNCHANGED table
               \/ /\ name \notin DOMAIN cur_symbols
                  /\ var_id_counter < kVarFirst + MaxVars
                  /\ cur_symbols' = [n \in DOMAIN cur_symbols \cup {name} |->
                                       IF n = name THEN var_id_counter
                                                   ELSE cur_symbols[n]]
                  /\ currently_declaring' = var_id_counter
                  /\ var_id_counter' = var_id_counter + 1
                  /\ scopes' = Append(scopes, name)
                  /\ cur_scope_len' = cur_scope_len + 1
                  /\ outcome' = Answer(var_id_counter, "none")
                  /\ UNCHANGED scope_lengths

\* Mutant: the end of a declaration leaves its mark set.
EndKeepsMark ==
    /\ ~failed /\ in_decl
    /\ in_decl' = FALSE
    /\ outcome' = Answer(kVarUnassigned, "none")
    /\ UNCHANGED <<cur_symbols, cur_scope_len, scopes, scope_lengths,
                   var_id_counter, currently_declaring, alive, failed>>

\* ~VarDeclGuard.
DeclareLocalEnd ==
    /\ ~failed /\ in_decl
    /\ currently_declaring' = kVarUnassigned
    /\ in_decl' = FALSE
    /\ outcome' = Answer(kVarUnassigned, "none")
    /\ UNCHANGED <<cur_symbols, cur_scope_len, scopes, scope_lengths,
                   var_id_counter, alive, failed>>

\* A name in an expression: inside an initializer when a VarDeclGuard exists.
\* Mutant: a variable may be read in its own initializer.
ResolutionIgnoresMark(name) ==
    IF name \notin DOMAIN cur_symbols THEN Answer(kVarUnassigned, "none")
    ELSE Answer(cur_symbols[name], "none")

Resolution(name) ==
    IF name \notin DOMAIN cur_symbols THEN Answer(kVarUnassigned, "none")
    ELSE IF currently_declaring = cur_symbols[name]
         THEN Answer(kVarUnassigned, "VariableInitializerSelfReference")
         ELSE Answer(cur_symbols[name], "none")

ResolveLocal(name) ==
    /\ ~failed /\ alive
    /\ outcome' = Resolution(name)
    /\ UNCHANGED <<table, alive, in_decl, failed>>

Next ==
    \/ \E params \in ParamLists : Construct(params)
    \/ EnterScope
    \/ LeaveScope
    \/ Destroy
    \/ \E name \in Names : DeclareLocalStart(name)
    \/ DeclareLocalEnd
    \/ \E name \in Names : ResolveLocal(name)

Spec == Init /\ [][Next]_vars

-----------------------------------------------------------------------------
(* Correctness.                                                            *)

\* No CHECK of the table ever fails: leaving a scope, destroying the table and
\* starting a declaration find the undo log, the map and the declaration mark in
\* the state they expect, whatever sequence of blocks and declarations came before.
NoCheckFails == ~failed

\* The variable ids the type checker hands on identify variables: two visible
\* names never have the same id, and the next id to be issued is above every
\* visible one (the IR generator keys its map of memory locations by id, with
\* an insert that would silently keep a stale entry).
VisibleIdsDistinct ==
    /\ \A m, n \in DOMAIN cur_symbols : cur_symbols[m] = cur_symbols[n] => m = n
    /\ \A n \in DOMAIN cur_symbols :
          kVarFirst <= cur_symbols[n] /\ cur_symbols[n] < var_id_counter

\* starts[k] is the length the log had when the k-th open scope was entered.
IsLayout(starts) ==
    /\ starts[1] = 0
    /\ \A k \in 1..(Len(scope_lengths) - 1) :
          starts[k + 1] = starts[k] + scope_lengths[k + 1]
    /\ Len(scopes) = starts[Len(scope_lengths)] + cur_scope_len

\* The undo log describes the open scopes exactly: the saved lengths cut it into one
\* segment per open scope with nothing left over, it holds every name once, and
\* every name in it is visible.  This is what lets LeaveScope erase by name, and
\* what its CHECKs rely on.
UndoLogConsistent ==
    /\ alive =>
          /\ Len(scope_lengths) > 0
          /\ \E starts \in [1..Len(scope_lengths) -> 0..MaxVars] : IsLayout(starts)
    /\ Len(scopes) + kVarFirst <= var_id_counter
    /\ var_id_counter <= kVarFirst + MaxVars
    /\ \A i \in 1..Len(scopes) :
          /\ scopes[i] \in DOMAIN cur_symbols
          /\ \A j \in (i + 1)..Len(scopes) : scopes[i] # scopes[j]
    /\ currently_declaring # kVarUnassigned => in_decl
    /\ in_decl => alive /\ Len(scope_lengths) > 1

=============================================================================

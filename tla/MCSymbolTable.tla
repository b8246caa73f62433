---------------------------- MODULE MCSymbolTable ----------------------------
(***************************************************************************)
(* Model checking of SymbolTable, and the refinement mapping under which   *)
(* it implements ScopeEnv.                                                 *)
(***************************************************************************)
EXTENDS SymbolTable

\* Where in the undo log each open scope begins.
Starts == CHOOSE starts \in [1..Len(scope_lengths) -> 0..MaxVars] : IsLayout(starts)

\* How much of the log is left without the scopes deeper than the k-th, and the
\* names those declared.
Kept(k) == IF k = Len(scope_lengths) THEN Len(scopes) ELSE Starts[k + 1]
DeclaredBelow(k) == {scopes[i] : i \in (Kept(k) + 1)..Len(scopes)}

\* The environments of the open scopes, recovered from the map and the log.
EnvAt(k) == [n \in DOMAIN cur_symbols \ DeclaredBelow(k) |-> cur_symbols[n]]
Envs == [k \in 1..Len(scope_lengths) |-> EnvAt(k)]

Declaring ==
    IF currently_declaring = kVarUnassigned THEN << >>
    ELSE CHOOSE n \in DOMAIN cur_symbols : cur_symbols[n] = currently_declaring

Abstract == INSTANCE ScopeEnv WITH
    envs      <- Envs,
    next      <- var_id_counter,
    declaring <- Declaring,
    answer    <- outcome,
    LastId    <- kVarFirst + MaxVars

\* The table implements lexical scoping: with the map and the undo log read as a
\* stack of environments, every operation of the code does what ScopeEnv allows.
ImplementsScopeEnv == Abstract!Spec

=============================================================================

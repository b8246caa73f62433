------------------------------ MODULE ScopeEnv ------------------------------
(***************************************************************************)
(* What a table of local variables promises: lexical scoping.  There is a  *)
(* stack of environments, one per open scope.  Entering a scope copies the *)
(* innermost environment, leaving one forgets it, so everything a block    *)
(* declared disappears with the block and everything outside is as it was  *)
(* when the block began.  A name is resolved in the innermost environment. *)
(*                                                                         *)
(* SymbolTable is shown to implement this specification.                   *)
(***************************************************************************)
EXTENDS Naturals, Sequences

CONSTANTS Names, ParamLists, MaxDepth, LastId

VARIABLES
    envs,       \* stack of environments: visible name -> id
    next,       \* the next id
    declaring,  \* the name whose initializer is open, or NoName
    in_decl,    \* a declaration is open
    answer      \* what the last operation answered

vars == <<envs, next, declaring, in_decl, answer>>

NoName == << >>   \* not a name
FirstId == 100

Env == envs[Len(envs)]
Nothing == [vid |-> 0, error |-> "none"]

Init ==
    /\ envs = << >>
    /\ next = FirstId
    /\ declaring = NoName
    /\ in_decl = FALSE
    /\ answer = Nothing

\* Ids are handed out to all parameters in order; of equal names, the first counts.
Begin(params) ==
    /\ envs = << >>
    /\ \E env \in [{params[i] : i \in DOMAIN params} -> FirstId..(FirstId + Len(params))] :
          /\ \A i \in DOMAIN params :
                (\A j \in 1..(i - 1) : params[j] # params[i])
                    => env[params[i]] = FirstId + i - 1
          /\ envs' = << env >>
    /\ next' = FirstId + Len(params)
    /\ declaring' = NoName
    /\ answer' = [vid |-> 0,
                  error |-> IF \E i, j \in DOMAIN params : i < j /\ params[i] = params[j]
                            THEN "DuplicateDefinition" ELSE "none"]
    /\ UNCHANGED in_decl

Enter ==
    /\ envs # << >> /\ ~in_decl
    /\ Len(envs) < MaxDepth
    /\ envs' = Append(envs, Env)
    /\ answer' = Nothing
    /\ UNCHANGED <<next, declaring, in_decl>>

Leave ==
    /\ envs # << >> /\ ~in_decl
    /\ envs' = SubSeq(envs, 1, Len(envs) - 1)
    /\ answer' = Nothing
    /\ UNCHANGED <<next, declaring, in_decl>>

Declare(name) ==
    /\ Len(envs) > 1 /\ ~in_decl
    /\ in_decl' = TRUE
    /\ \/ /\ name \in DOMAIN Env
          /\ answer' = [vid |-> Env[name], error |-> "DuplicateDefinition"]
          /\ UNCHANGED <<envs, next, declaring>>
       \/ /\ name \notin DOMAIN Env
          /\ next < LastId
          /\ envs' = [envs EXCEPT ![Len(envs)] =
                        [n \in DOMAIN Env \cup {name} |-> IF n = name THEN next ELSE Env[n]]]
          /\ next' = next + 1
          /\ declaring' = name
          /\ answer' = [vid |-> next, error |-> "none"]

EndDeclare ==
    /\ in_decl
    /\ declaring' = NoName
    /\ in_decl' = FALSE
    /\ answer' = Nothing
    /\ UNCHANGED <<envs, next>>

\* A variable is in scope in its own initializer, but may not be used there.
Resolve(name) ==
    /\ envs # << >>
    /\ answer' = IF name \notin DOMAIN Env THEN Nothing
                 ELSE IF declaring = name
                      THEN [vid |-> 0, error |-> "VariableInitializerSelfReference"]
                      ELSE [vid |-> Env[name], error |-> "none"]
    /\ UNCHANGED <<envs, next, declaring, in_decl>>

Next ==
    \/ \E params \in ParamLists : Begin(params)
    \/ Enter
    \/ Leave
    \/ \E name \in Names : Declare(name)
    \/ EndDeclare
    \/ \E name \in Names : Resolve(name)

Spec == Init /\ [][Next]_vars

=============================================================================

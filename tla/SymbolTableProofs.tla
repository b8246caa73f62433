-------------------------- MODULE SymbolTableProofs --------------------------
(***************************************************************************)
(* Proofs about SymbolTable, for every set of names and all bounds.        *)
(*                                                                         *)
(* The inductive invariant is the conjunction of the four invariants the   *)
(* model checker checks: no CHECK can fail because the undo log matches    *)
(* the open scopes, and the log stays consistent because the ids and the   *)
(* types do.  Under the refinement mapping of MCSymbolTable.tla the table  *)
(* then does what ScopeEnv.tla allows.                                     *)
(***************************************************************************)
EXTENDS MCSymbolTable, ProofLemmas, TLAPS

IInv ==
    /\ TypeOK
    /\ VisibleIdsDistinct
    /\ UndoLogConsistent
    /\ NoCheckFails

(***************************************************************************)
(* The constructor's map.                                                  *)
(***************************************************************************)

\* The constructor gives different parameters different ids, all already issued.
LEMMA ParamSymbolsIds ==
    ASSUME NEW params \in ParamLists
    PROVE  /\ Len(params) \in 0..MaxVars
           /\ DOMAIN ParamSymbols(params) \subseteq Names
           /\ \A n \in DOMAIN ParamSymbols(params) :
                 /\ ParamSymbols(params)[n] \in Nat
                 /\ kVarFirst <= ParamSymbols(params)[n]
                 /\ ParamSymbols(params)[n] < kVarFirst + Len(params)
           /\ \A m, n \in DOMAIN ParamSymbols(params) :
                 ParamSymbols(params)[m] = ParamSymbols(params)[n] => m = n
<1> DEFINE Index(name) == CHOOSE i \in Inserted(params) : params[i] = name
<1>1. PICK len \in 0..MaxParams : params \in [1..len -> Names]
  BY DEF ParamLists
<1>2. Len(params) = len /\ DOMAIN params = 1..len /\ len \in 0..MaxVars
  BY <1>1, BoundsAssumption
<1>3. ASSUME NEW n \in DOMAIN ParamSymbols(params)
      PROVE  /\ n \in Names
             /\ Index(n) \in 1..len
             /\ params[Index(n)] = n
             /\ ParamSymbols(params)[n] = kVarFirst - 1 + Index(n)
  <2>1. \E i \in Inserted(params) : params[i] = n
    BY DEF ParamSymbols
  <2>2. Index(n) \in Inserted(params) /\ params[Index(n)] = n
    BY <2>1
  <2>3. QED
    BY <1>1, <1>2, <2>2 DEF ParamSymbols, Inserted
<1>4. QED
  <2> HIDE DEF Index
  <2> QED  BY <1>2, <1>3 DEF kVarFirst

(***************************************************************************)
(* Initial states.                                                         *)
(***************************************************************************)

LEMMA InitIInv == Init => IInv
<1> SUFFICES ASSUME Init PROVE IInv
  OBVIOUS
<1> USE DEF Init, Answer, Errors, kVarUnassigned, kVarFirst
<1>1. TypeOK
  <2>1. scopes \in Seq(Names) /\ scope_lengths \in Seq(Nat)
    OBVIOUS
  <2>2. outcome \in [vid : Nat, error : Errors]
    OBVIOUS
  <2>3. QED
    BY <2>1, <2>2 DEF TypeOK
<1>2. VisibleIdsDistinct
  BY DEF VisibleIdsDistinct
<1>3. UndoLogConsistent
  BY BoundsAssumption DEF UndoLogConsistent
<1>4. QED
  BY <1>1, <1>2, <1>3 DEF IInv, NoCheckFails

(***************************************************************************)
(* Steps.                                                                  *)
(***************************************************************************)

\* In a consistent state the CHECKs of LeaveScope hold.
LEMMA ChecksHold ==
    ASSUME IInv, alive
    PROVE  LeaveScopeChecks
<1>1. PICK starts \in [1..Len(scope_lengths) -> 0..MaxVars] : IsLayout(starts)
  BY DEF IInv, UndoLogConsistent
<1>2. Len(scope_lengths) \in Nat /\ Len(scopes) \in Nat
  BY DEF IInv, TypeOK
<1>3. starts[Len(scope_lengths)] \in Nat
  BY <1>1, <1>2, BoundsAssumption DEF IInv, UndoLogConsistent
<1>4. Len(scopes) >= cur_scope_len /\ Len(scope_lengths) > 0
  BY <1>1, <1>2, <1>3 DEF IInv, TypeOK, UndoLogConsistent, IsLayout
<1>5. QED
  BY <1>2, <1>4 DEF IInv, TypeOK, UndoLogConsistent, LeaveScopeChecks

\* Popping a scope keeps the ids and the log consistent.
LEMMA PopScopePreserves ==
    ASSUME IInv, alive, ~in_decl, PopScope, UNCHANGED <<in_decl, failed>>,
           outcome' = Answer(kVarUnassigned, "none"),
           alive' \in BOOLEAN, alive' => Len(scope_lengths) > 1
    PROVE  IInv'
<1>1. PICK starts \in [1..Len(scope_lengths) -> 0..MaxVars] : IsLayout(starts)
  BY DEF IInv, UndoLogConsistent
<1> DEFINE n == Len(scope_lengths)
           kept == Len(scopes) - cur_scope_len
<1>2. /\ n \in Nat /\ n >= 1
      /\ kept = starts[n] /\ kept \in 0..Len(scopes)
  <2>1. n \in Nat /\ n >= 1 /\ Len(scopes) \in Nat /\ cur_scope_len \in Nat
    BY DEF IInv, TypeOK, UndoLogConsistent
  <2>2. starts[n] \in Nat /\ Len(scopes) = starts[n] + cur_scope_len
    BY <1>1, <2>1, BoundsAssumption DEF IsLayout
  <2>3. QED
    BY <2>1, <2>2
<1>3. /\ scopes' = SubSeq(scopes, 1, kept)
      /\ scopes' \in Seq(Names)
      /\ Len(scopes') = kept
      /\ \A i \in 1..kept : scopes'[i] = scopes[i]
  BY <1>2 DEF PopScope, OuterScopes, IInv, TypeOK
<1>4. /\ scope_lengths' \in Seq(Nat)
      /\ Len(scope_lengths') = n - 1
      /\ \A i \in 1..(n - 1) : scope_lengths'[i] = scope_lengths[i]
      /\ cur_scope_len' = scope_lengths[n]
      /\ cur_scope_len' \in Nat
  <2>1. /\ scope_lengths' = SubSeq(scope_lengths, 1, n - 1)
        /\ cur_scope_len' = scope_lengths[n]
    BY DEF PopScope
  <2>2. scope_lengths \in Seq(Nat) /\ n - 1 \in 0..n /\ n \in 1..n
    BY <1>2 DEF IInv, TypeOK
  <2>3. scope_lengths[n] \in Nat
    BY <2>2
  <2>4. /\ SubSeq(scope_lengths, 1, n - 1) \in Seq(Nat)
        /\ Len(SubSeq(scope_lengths, 1, n - 1)) = n - 1
        /\ \A i \in 1..(n - 1) : SubSeq(scope_lengths, 1, n - 1)[i] = scope_lengths[i]
    <3> DEFINE m == n - 1
    <3>1. m \in 0..Len(scope_lengths) /\ m \in Nat
      BY <1>2
    <3> HIDE DEF m
    <3>2. /\ SubSeq(scope_lengths, 1, m) \in Seq(Nat)
          /\ Len(SubSeq(scope_lengths, 1, m)) = m
          /\ \A i \in 1..m : SubSeq(scope_lengths, 1, m)[i] = scope_lengths[i]
      BY <2>2, <3>1
    <3>3. QED
      BY <3>2 DEF m
  <2>5. QED
    BY <2>1, <2>3, <2>4
<1>5. /\ DOMAIN cur_symbols' = DOMAIN cur_symbols \ Innermost
      /\ \A name \in DOMAIN cur_symbols' : cur_symbols'[name] = cur_symbols[name]
  BY DEF PopScope
<1>6. TypeOK'
  BY <1>3, <1>4, <1>5
     DEF IInv, TypeOK, PopScope, Answer, Errors, kVarUnassigned
<1>7. VisibleIdsDistinct'
  BY <1>5 DEF IInv, VisibleIdsDistinct, PopScope
<1>8. ASSUME NEW i \in 1..kept
      PROVE  scopes[i] \in DOMAIN cur_symbols'
  <2>1. i \in 1..Len(scopes) /\ kept \in Nat /\ Len(scopes) \in Nat
    BY <1>2 DEF IInv, TypeOK
  <2>2. scopes[i] \in DOMAIN cur_symbols
    BY <2>1 DEF IInv, UndoLogConsistent
  <2>3. ASSUME scopes[i] \in Innermost PROVE FALSE
    <3>1. PICK j \in (kept + 1)..Len(scopes) : scopes[i] = scopes[j]
      BY <2>3 DEF Innermost
    <3>2. j \in (i + 1)..Len(scopes)
      BY <2>1, <3>1
    <3>3. QED
      BY <2>1, <3>1, <3>2 DEF IInv, UndoLogConsistent
  <2>4. QED
    BY <1>5, <2>2, <2>3
<1>9. \A i \in 1..Len(scopes') :
          /\ scopes'[i] \in DOMAIN cur_symbols'
          /\ \A j \in (i + 1)..Len(scopes') : scopes'[i] # scopes'[j]
  <2>1. ASSUME NEW i \in 1..kept,
               NEW j \in (i + 1)..kept
        PROVE  scopes[i] # scopes[j]
    <3>1. i \in 1..Len(scopes) /\ j \in (i + 1)..Len(scopes) /\ j \in 1..kept
      BY <1>2 DEF IInv, TypeOK
    <3>2. QED
      BY <3>1 DEF IInv, UndoLogConsistent
  <2> HIDE DEF kept
  <2>2. \A i \in 1..kept : \A j \in (i + 1)..kept : j \in 1..kept
    BY <1>2 DEF IInv, TypeOK
  <2>3. QED
    BY <1>3, <1>8, <2>1, <2>2
<1>10. ASSUME alive'
       PROVE  /\ Len(scope_lengths') > 0
              /\ \E s \in [1..Len(scope_lengths') -> 0..MaxVars] : IsLayout(s)'
  <2>1. n > 1 /\ n - 1 \in Nat /\ n - 1 > 0
    BY <1>2, <1>10
  <2>2. PICK s \in [1..(n - 1) -> 0..MaxVars] :
               \A k \in 1..(n - 1) : s[k] = starts[k]
    <3>1. [k \in 1..(n - 1) |-> starts[k]] \in [1..(n - 1) -> 0..MaxVars]
      BY <1>1, <1>2
    <3>2. QED
      BY <3>1
  <2>3. starts[n] = starts[n - 1] + scope_lengths[n]
    <3>1. n - 1 \in 1..(n - 1) /\ (n - 1) + 1 = n
      BY <2>1, <1>2
    <3>2. QED
      BY <1>1, <3>1 DEF IsLayout
  <2>4. Len(scopes') = s[n - 1] + cur_scope_len'
    BY <1>2, <1>3, <1>4, <2>1, <2>2, <2>3
  <2>5. s[1] = 0
    BY <1>1, <1>2, <2>1, <2>2 DEF IsLayout
  <2>6. ASSUME NEW k \in 1..(n - 2)
        PROVE  s[k + 1] = s[k] + scope_lengths'[k + 1]
    <3>1. k \in 1..(n - 1) /\ k + 1 \in 1..(n - 1)
      BY <1>2, <2>1
    <3>2. QED
      BY <1>1, <1>4, <2>2, <3>1 DEF IsLayout
  <2>7. IsLayout(s)'
    BY <1>2, <1>4, <2>4, <2>5, <2>6 DEF IsLayout
  <2>8. QED
    BY <1>4, <2>1, <2>2, <2>7
<1>11. UndoLogConsistent'
  <2>1. /\ Len(scopes') + kVarFirst <= var_id_counter'
        /\ var_id_counter' <= kVarFirst + MaxVars
    <3>1. /\ Len(scopes) + kVarFirst <= var_id_counter
          /\ var_id_counter <= kVarFirst + MaxVars
          /\ var_id_counter' = var_id_counter
      BY DEF UndoLogConsistent, PopScope, IInv
    <3>2. Len(scopes') <= Len(scopes) /\ Len(scopes') \in Nat /\ Len(scopes) \in Nat
      <4>1. Len(scopes) \in Nat
        BY DEF IInv, TypeOK
      <4> HIDE DEF kept
      <4>2. QED
        BY <1>2, <1>3, <4>1
    <3>3. var_id_counter \in Nat /\ kVarFirst \in Nat
      BY DEF IInv, TypeOK, kVarFirst
    <3>4. QED
      BY <3>1, <3>2, <3>3
  <2>2. /\ currently_declaring' # kVarUnassigned => in_decl'
        /\ ~in_decl'
    BY DEF UndoLogConsistent, PopScope, IInv
  <2>3. QED
    BY <1>9, <1>10, <2>1, <2>2 DEF UndoLogConsistent
<1>12. QED
  BY <1>6, <1>7, <1>11 DEF IInv, NoCheckFails

LEMMA ConstructPreserves ==
    ASSUME IInv, NEW params \in ParamLists, Construct(params)
    PROVE  IInv'
<1> USE DEF Construct, Answer, Errors, kVarUnassigned
<1>1. TypeOK'
  <2>1. scopes' \in Seq(Names) /\ scope_lengths' \in Seq(Nat)
    OBVIOUS
  <2>2. outcome' \in [vid : Nat, error : Errors]
    OBVIOUS
  <2>3. QED
    BY <2>1, <2>2, ParamSymbolsIds DEF IInv, TypeOK, kVarFirst
<1>2. VisibleIdsDistinct'
  BY ParamSymbolsIds DEF VisibleIdsDistinct
<1>3. UndoLogConsistent'
  <2>1. /\ Len(scope_lengths') = 1 /\ Len(scopes') = 0
        /\ scope_lengths' = << 0 >>
    OBVIOUS
  <2>2. PICK s \in [1..1 -> 0..MaxVars] : s[1] = 0
    <3>1. [k \in 1..1 |-> 0] \in [1..1 -> 0..MaxVars]
      BY BoundsAssumption
    <3>2. QED
      BY <3>1
  <2>3. IsLayout(s)'
    BY <2>1, <2>2 DEF IsLayout
  <2>4. \E starts \in [1..Len(scope_lengths') -> 0..MaxVars] : IsLayout(starts)'
    BY <2>1, <2>3
  <2>5. ~in_decl'
    BY DEF IInv, UndoLogConsistent
  <2>6. QED
    BY <2>1, <2>4, <2>5, ParamSymbolsIds, BoundsAssumption
       DEF UndoLogConsistent, kVarFirst
<1>4. QED
  BY <1>1, <1>2, <1>3 DEF IInv, NoCheckFails

LEMMA EnterScopePreserves ==
    ASSUME IInv, EnterScope
    PROVE  IInv'
<1> USE DEF EnterScope, Answer, Errors, kVarUnassigned
<1> DEFINE n == Len(scope_lengths)
<1>1. /\ scope_lengths' \in Seq(Nat)
      /\ n \in Nat /\ n >= 1
      /\ Len(scope_lengths') = n + 1
      /\ \A k \in 1..n : scope_lengths'[k] = scope_lengths[k]
      /\ scope_lengths'[n + 1] = cur_scope_len
  BY DEF IInv, TypeOK, UndoLogConsistent
<1>2. TypeOK'
  BY <1>1 DEF IInv, TypeOK
<1>3. VisibleIdsDistinct'
  BY DEF IInv, VisibleIdsDistinct
<1>4. \E s \in [1..Len(scope_lengths') -> 0..MaxVars] : IsLayout(s)'
  <2>1. PICK starts \in [1..n -> 0..MaxVars] : IsLayout(starts)
    BY DEF IInv, UndoLogConsistent
  <2>2. Len(scopes) \in 0..MaxVars
    BY BoundsAssumption DEF IInv, TypeOK, UndoLogConsistent, kVarFirst
  <2>3. PICK s \in [1..(n + 1) -> 0..MaxVars] :
               s = [k \in 1..(n + 1) |-> IF k = n + 1 THEN Len(scopes) ELSE starts[k]]
    <3>1. [k \in 1..(n + 1) |-> IF k = n + 1 THEN Len(scopes) ELSE starts[k]]
             \in [1..(n + 1) -> 0..MaxVars]
      BY <1>1, <2>1, <2>2
    <3>2. QED
      BY <3>1
  <2>4. s[n + 1] = Len(scopes) /\ \A k \in 1..n : s[k] = starts[k]
    BY <1>1, <2>3
  <2>5. s[1] = 0 /\ s[n + 1] = s[n] + cur_scope_len
    BY SMTT(60), <1>1, <2>1, <2>4 DEF IsLayout
  <2>6. ASSUME NEW k \in 1..n
        PROVE  s[k + 1] = s[k] + scope_lengths'[k + 1]
    <3>1. CASE k = n
      BY <1>1, <2>5, <3>1
    <3>2. CASE k # n
      <4>1. k \in 1..(n - 1) /\ k + 1 \in 1..n
        BY <1>1, <3>2
      <4>2. starts[k + 1] = starts[k] + scope_lengths[k + 1]
        BY <2>1, <4>1 DEF IsLayout
      <4>3. QED
        BY <1>1, <2>4, <4>1, <4>2
    <3>3. QED
      BY <3>1, <3>2
  <2>7. Len(scopes') = s[n + 1] + cur_scope_len'
    BY <2>2, <2>4
  <2>8. IsLayout(s)'
    BY <1>1, <2>5, <2>6, <2>7 DEF IsLayout
  <2>9. QED
    BY <1>1, <2>8
<1>5. UndoLogConsistent'
  BY <1>1, <1>4 DEF IInv, UndoLogConsistent
<1>6. QED
  BY <1>2, <1>3, <1>5 DEF IInv, NoCheckFails

LEMMA DeclareNewPreserves ==
    ASSUME IInv, NEW name \in Names, DeclareLocalStart(name),
           currently_declaring = kVarUnassigned,
           name \notin DOMAIN cur_symbols
    PROVE  IInv'
<1> USE DEF Answer, Errors, kVarUnassigned
<1> DEFINE new == [n \in DOMAIN cur_symbols \cup {name} |->
                     IF n = name THEN var_id_counter ELSE cur_symbols[n]]
<1>1. /\ in_decl' = TRUE /\ alive /\ alive' = alive /\ failed' = failed
      /\ Len(scope_lengths) > 1
      /\ var_id_counter < kVarFirst + MaxVars
      /\ cur_symbols' = new
      /\ currently_declaring' = var_id_counter
      /\ var_id_counter' = var_id_counter + 1
      /\ scopes' = Append(scopes, name)
      /\ cur_scope_len' = cur_scope_len + 1
      /\ outcome' = Answer(var_id_counter, "none")
      /\ scope_lengths' = scope_lengths
  BY DEF DeclareLocalStart
<1>2. /\ DOMAIN cur_symbols' = DOMAIN cur_symbols \cup {name}
      /\ cur_symbols'[name] = var_id_counter
      /\ \A n \in DOMAIN cur_symbols : cur_symbols'[n] = cur_symbols[n]
  BY <1>1
<1>3. /\ scopes' \in Seq(Names)
      /\ Len(scopes) \in Nat
      /\ Len(scopes') = Len(scopes) + 1
      /\ \A i \in 1..Len(scopes) : scopes'[i] = scopes[i]
      /\ scopes'[Len(scopes) + 1] = name
  BY <1>1 DEF IInv, TypeOK
<1> HIDE DEF new
<1>4. TypeOK'
  <2>1. \A n \in DOMAIN cur_symbols' : cur_symbols'[n] \in Nat
    BY <1>2 DEF IInv, TypeOK
  <2>2. outcome' \in [vid : Nat, error : Errors]
    BY <1>1 DEF IInv, TypeOK
  <2>3. QED
    BY <1>1, <1>2, <1>3, <2>1, <2>2 DEF IInv, TypeOK
<1>5. VisibleIdsDistinct'
  <2>1. \A n \in DOMAIN cur_symbols :
            /\ cur_symbols[n] \in Nat
            /\ kVarFirst <= cur_symbols[n] /\ cur_symbols[n] < var_id_counter
    BY DEF IInv, TypeOK, VisibleIdsDistinct
  <2>2. var_id_counter \in Nat /\ kVarFirst <= var_id_counter
    BY <1>3 DEF IInv, TypeOK, UndoLogConsistent, kVarFirst
  <2>3. \A m, n \in DOMAIN cur_symbols' : cur_symbols'[m] = cur_symbols'[n] => m = n
    BY <1>2, <2>1, <2>2 DEF IInv, VisibleIdsDistinct
  <2>4. \A n \in DOMAIN cur_symbols' :
            kVarFirst <= cur_symbols'[n] /\ cur_symbols'[n] < var_id_counter'
    BY <1>1, <1>2, <2>1, <2>2 DEF kVarFirst
  <2>5. QED
    BY <2>3, <2>4 DEF VisibleIdsDistinct
<1>6. UndoLogConsistent'
  <2>1. PICK starts \in [1..Len(scope_lengths) -> 0..MaxVars] : IsLayout(starts)
    BY <1>1 DEF IInv, UndoLogConsistent
  <2>2. starts[Len(scope_lengths)] \in Nat
    <3>1. Len(scope_lengths) \in 1..Len(scope_lengths)
      BY <1>1 DEF IInv, TypeOK
    <3>2. QED
      BY <2>1, <3>1, BoundsAssumption
  <2>3. IsLayout(starts)'
    BY <1>1, <1>3, <2>1, <2>2 DEF IsLayout, IInv, TypeOK
  <2>4. Len(scopes') + kVarFirst <= var_id_counter' /\ var_id_counter' <= kVarFirst + MaxVars
    BY <1>1, <1>3, BoundsAssumption DEF IInv, TypeOK, UndoLogConsistent, kVarFirst
  <2>5. \A i \in 1..Len(scopes) :
            /\ scopes[i] \in DOMAIN cur_symbols
            /\ \A j \in (i + 1)..Len(scopes) : scopes[i] # scopes[j]
    BY DEF IInv, UndoLogConsistent
  <2>6. ASSUME NEW i \in 1..Len(scopes')
        PROVE  /\ scopes'[i] \in DOMAIN cur_symbols'
               /\ \A j \in (i + 1)..Len(scopes') : scopes'[i] # scopes'[j]
    <3>1. CASE i = Len(scopes) + 1
      BY <1>2, <1>3, <3>1
    <3>2. CASE i \in 1..Len(scopes)
      <4>1. scopes'[i] \in DOMAIN cur_symbols
        BY <1>3, <2>5, <3>2
      <4>2. ASSUME NEW j \in (i + 1)..Len(scopes') PROVE scopes'[i] # scopes'[j]
        <5>1. CASE j = Len(scopes) + 1
          BY <1>1, <1>3, <4>1, <5>1, name \notin DOMAIN cur_symbols
        <5>2. CASE j \in (i + 1)..Len(scopes)
          <6>1. j \in 1..Len(scopes)
            BY <1>3, <3>2, <5>2
          <6>2. QED
            BY <1>3, <2>5, <3>2, <5>2, <6>1
        <5>3. QED
          BY <1>3, <3>2, <5>1, <5>2
      <4>3. QED
        BY <1>2, <4>1, <4>2
    <3>3. QED
      BY <1>3, <3>1, <3>2
  <2>7. QED
    BY <1>1, <2>1, <2>3, <2>4, <2>6 DEF UndoLogConsistent
<1>7. QED
  BY <1>1, <1>4, <1>5, <1>6 DEF IInv, NoCheckFails

LEMMA DeclarePreserves ==
    ASSUME IInv, NEW name \in Names, DeclareLocalStart(name)
    PROVE  IInv'
<1>1. currently_declaring = kVarUnassigned
  BY DEF DeclareLocalStart, IInv, UndoLogConsistent
<1>2. CASE name \in DOMAIN cur_symbols
  <2>1. /\ UNCHANGED <<table, alive, failed>>
        /\ in_decl' = TRUE /\ alive /\ Len(scope_lengths) > 1
        /\ outcome' = Answer(cur_symbols[name], "DuplicateDefinition")
    BY <1>1, <1>2 DEF DeclareLocalStart
  <2>2. outcome' \in [vid : Nat, error : Errors]
    BY <1>2, <2>1 DEF IInv, TypeOK, Answer, Errors
  <2>3. TypeOK'
    BY <2>1, <2>2 DEF IInv, TypeOK, table, kVarUnassigned
  <2>4. VisibleIdsDistinct'
    BY <2>1 DEF IInv, VisibleIdsDistinct, table
  <2>5. UndoLogConsistent'
    BY <2>1 DEF IInv, UndoLogConsistent, IsLayout, table
  <2>6. QED
    BY <2>1, <2>3, <2>4, <2>5 DEF IInv, NoCheckFails
<1>3. CASE name \notin DOMAIN cur_symbols
  BY <1>1, <1>3, DeclareNewPreserves
<1>4. QED
  BY <1>2, <1>3

\* Steps that leave the map and the log alone.
LEMMA QuietPreserves ==
    ASSUME IInv,
           UNCHANGED <<cur_symbols, cur_scope_len, scopes, scope_lengths,
                       var_id_counter, alive, failed>>,
           \/ currently_declaring' = currently_declaring /\ in_decl' = in_decl
           \/ currently_declaring' = kVarUnassigned /\ in_decl' = FALSE,
           outcome' \in [vid : Nat, error : Errors]
    PROVE  IInv'
<1>1. TypeOK'
  <2>1. in_decl' \in BOOLEAN /\ alive' \in BOOLEAN /\ failed' \in BOOLEAN
    BY Zenon DEF IInv, TypeOK
  <2>2. currently_declaring' \in Nat
    BY DEF IInv, TypeOK, kVarUnassigned
  <2>3. QED
    BY <2>1, <2>2 DEF IInv, TypeOK
<1>2. VisibleIdsDistinct'
  BY DEF IInv, VisibleIdsDistinct
<1>3. UndoLogConsistent'
  BY DEF IInv, UndoLogConsistent, IsLayout
<1>4. QED
  BY <1>1, <1>2, <1>3 DEF IInv, NoCheckFails

LEMMA NextIInv == IInv /\ [Next]_vars => IInv'
<1> SUFFICES ASSUME IInv, [Next]_vars PROVE IInv'
  OBVIOUS
<1>1. ASSUME NEW params \in ParamLists, Construct(params) PROVE IInv'
  BY <1>1, ConstructPreserves
<1>2. CASE EnterScope
  BY <1>2, EnterScopePreserves
<1>3. CASE LeaveScope
  BY <1>3, ChecksHold, PopScopePreserves DEF LeaveScope, IInv, TypeOK
<1>4. CASE Destroy
  <2>1. LeaveScopeChecks
    BY <1>4, ChecksHold DEF Destroy
  <2>2. OuterScopes = << >>
    <3>1. PICK starts \in [1..Len(scope_lengths) -> 0..MaxVars] : IsLayout(starts)
      BY <1>4 DEF Destroy, IInv, UndoLogConsistent
    <3>2. Len(scopes) = cur_scope_len
      BY <1>4, <3>1 DEF Destroy, IsLayout, IInv, TypeOK
    <3>3. QED
      BY <3>2 DEF OuterScopes, IInv, TypeOK
  <2>3. QED
    BY <1>4, <2>1, <2>2, PopScopePreserves DEF Destroy
<1>5. ASSUME NEW name \in Names, DeclareLocalStart(name) PROVE IInv'
  BY <1>5, DeclarePreserves
<1>6. CASE DeclareLocalEnd
  BY <1>6, QuietPreserves DEF DeclareLocalEnd, Answer, Errors, kVarUnassigned
<1>7. ASSUME NEW name \in Names, ResolveLocal(name) PROVE IInv'
  <2>1. outcome' \in [vid : Nat, error : Errors]
    BY <1>7 DEF ResolveLocal, Resolution, Answer, Errors, kVarUnassigned, IInv, TypeOK
  <2>2. QED
    BY <1>7, <2>1, QuietPreserves DEF ResolveLocal, table
<1>8. CASE UNCHANGED vars
  <2>1. outcome' \in [vid : Nat, error : Errors]
    BY <1>8 DEF vars, IInv, TypeOK
  <2>2. QED
    BY <1>8, <2>1, QuietPreserves DEF vars, table
<1>9. QED
  BY <1>1, <1>2, <1>3, <1>4, <1>5, <1>6, <1>7, <1>8 DEF Next

(***************************************************************************)
(* The theorems.                                                           *)
(***************************************************************************)

LEMMA SpecIInv == Spec => []IInv
BY InitIInv, NextIInv, PTL DEF Spec

\* The table's variables keep their types in every run of the type checker.
THEOREM TypeCorrect == Spec => []TypeOK
<1>1. IInv => TypeOK
  BY DEF IInv
<1>2. QED
  BY <1>1, SpecIInv, PTL

\* No CHECK of the symbol table fails, for any nesting of blocks and declarations
\* and any number of names and parameters.
THEOREM ChecksNeverFail == Spec => []NoCheckFails
<1>1. IInv => NoCheckFails
  BY DEF IInv
<1>2. QED
  BY <1>1, SpecIInv, PTL

\* Visible names always have different, already issued ids.
THEOREM IdsIdentifyVariables == Spec => []VisibleIdsDistinct
<1>1. IInv => VisibleIdsDistinct
  BY DEF IInv
<1>2. QED
  BY <1>1, SpecIInv, PTL

\* The undo log is always cut exactly into the open scopes.
THEOREM LogMatchesScopes == Spec => []UndoLogConsistent
<1>1. IInv => UndoLogConsistent
  BY DEF IInv
<1>2. QED
  BY <1>1, SpecIInv, PTL

(***************************************************************************)
(* The refinement.  Beyond the invariant, the mapping needs the map to be  *)
(* a function, the log of a table that does not exist to be empty, and the *)
(* variable being declared to be a visible one.                            *)
(***************************************************************************)

MappingInv ==
    /\ cur_symbols = [n \in DOMAIN cur_symbols |-> cur_symbols[n]]
    /\ ~alive => scope_lengths = << >>
    /\ currently_declaring # kVarUnassigned =>
          \E n \in DOMAIN cur_symbols : cur_symbols[n] = currently_declaring

\* Scopes begin one behind the other in the log.
LEMMA LayoutGrows ==
    ASSUME TypeOK, NEW s \in [1..Len(scope_lengths) -> 0..MaxVars], IsLayout(s),
           NEW k \in 1..Len(scope_lengths)
    PROVE  \A j \in k..Len(scope_lengths) : s[k] <= s[j]
  <1> DEFINE n == Len(scope_lengths)
             T == {j \in k..n : s[j] < s[k]}
  <1>1. n \in Nat /\ \A j \in 1..n : s[j] \in Nat /\ scope_lengths[j] \in Nat
    <2>1. scope_lengths \in Seq(Nat)
      BY DEF TypeOK
    <2> QED  BY <2>1, BoundsAssumption
  <1>2. SUFFICES ASSUME T # {} PROVE FALSE
    BY <1>1
  <1>3. T \subseteq Nat
    BY <1>1
  <1>4. PICK j \in T : \A i \in T : j <= i
    BY <1>2, <1>3, LeastNumber
  <1>5. j - 1 \in k..n /\ j - 1 \in 1..(n - 1) /\ j - 1 \notin T /\ j - 1 + 1 = j
    BY <1>1, <1>4
  <1>6. s[j] = s[j - 1] + scope_lengths[j]
    BY <1>5 DEF IsLayout
  <1> QED  BY <1>1, <1>4, <1>5, <1>6

\* The lengths determine where the scopes begin.
LEMMA LayoutUnique ==
    ASSUME TypeOK, NEW s \in [1..Len(scope_lengths) -> 0..MaxVars], IsLayout(s),
           NEW t \in [1..Len(scope_lengths) -> 0..MaxVars], IsLayout(t)
    PROVE  s = t
  <1> DEFINE n == Len(scope_lengths)
             T == {j \in 1..n : s[j] # t[j]}
  <1>1. n \in Nat /\ \A j \in 1..n : s[j] \in Nat /\ t[j] \in Nat
    <2>1. scope_lengths \in Seq(Nat)
      BY DEF TypeOK
    <2> QED  BY <2>1, BoundsAssumption
  <1>2. SUFFICES ASSUME T # {} PROVE FALSE
    OBVIOUS
  <1>3. T \subseteq Nat
    BY <1>1
  <1>4. PICK j \in T : \A i \in T : j <= i
    BY <1>2, <1>3, LeastNumber
  <1>5. j # 1
    BY <1>4 DEF IsLayout
  <1>6. j - 1 \in 1..(n - 1) /\ j - 1 \in 1..n /\ j - 1 \notin T /\ j - 1 + 1 = j
    BY <1>1, <1>4, <1>5
  <1>7. s[j] = s[j - 1] + scope_lengths[j] /\ t[j] = t[j - 1] + scope_lengths[j]
    BY <1>6 DEF IsLayout
  <1> QED  BY <1>4, <1>6, <1>7

\* Any layout is the one the mapping takes.
LEMMA StartsIs ==
    TypeOK => \A s \in [1..Len(scope_lengths) -> 0..MaxVars] : IsLayout(s) => Starts = s
  BY LayoutUnique DEF Starts


\* What the mapping makes of the log of an open table.
LogFacts ==
    LET n == Len(scope_lengths)
    IN  /\ scope_lengths \in Seq(Nat) /\ scopes \in Seq(Names) /\ cur_scope_len \in Nat
        /\ n \in Nat \ {0} /\ Len(scopes) \in 0..MaxVars
        /\ Starts \in [1..n -> Nat] /\ Starts \in [1..n -> 0..MaxVars] /\ IsLayout(Starts)
        /\ \A k \in 1..(n - 1) : Kept(k) = Starts[k + 1] /\ Kept(k) \in 0..Starts[n]
        /\ Kept(n) = Len(scopes) /\ Starts[n] \in 0..Len(scopes)
        /\ \A k \in 1..n : Envs[k] = EnvAt(k)
        /\ Envs[n] = cur_symbols
        /\ Len(Envs) = n /\ Envs # << >>
        /\ Envs = [k \in 1..n |-> Envs[k]]

\* The innermost environment is the map, and the others are a sequence beside it.
LEMMA OpenTable == IInv /\ MappingInv /\ alive => LogFacts
  <1> SUFFICES ASSUME IInv, MappingInv, alive PROVE LogFacts
    OBVIOUS
  <1> DEFINE n == Len(scope_lengths)
  <1>1. /\ scope_lengths \in Seq(Nat) /\ scopes \in Seq(Names) /\ cur_scope_len \in Nat
        /\ n \in Nat \ {0} /\ Len(scopes) \in Nat /\ Len(scopes) \in 0..MaxVars
    <2>1. /\ scope_lengths \in Seq(Nat) /\ scopes \in Seq(Names) /\ cur_scope_len \in Nat
          /\ var_id_counter \in Nat /\ Len(scope_lengths) > 0
          /\ Len(scopes) + kVarFirst <= var_id_counter
          /\ var_id_counter <= kVarFirst + MaxVars
      BY DEF IInv, TypeOK, UndoLogConsistent
    <2>2. Len(scopes) \in Nat /\ n \in Nat
      BY <2>1
    <2> QED  BY <2>1, <2>2, BoundsAssumption DEF kVarFirst
  <1>2. Starts \in [1..n -> 0..MaxVars] /\ IsLayout(Starts)
    <2>1. PICK s \in [1..n -> 0..MaxVars] : IsLayout(s)
      BY DEF IInv, UndoLogConsistent
    <2>2. Starts = s
      BY <2>1, StartsIs DEF IInv
    <2> QED  BY <2>1, <2>2
  <1>3. Starts \in [1..n -> Nat]
    BY <1>2, BoundsAssumption
  <1>4. ASSUME NEW k \in 1..(n - 1)
        PROVE  Kept(k) = Starts[k + 1] /\ Kept(k) \in 0..Starts[n]
    <2>1. k # n /\ k + 1 \in 1..n /\ n \in (k + 1)..n
      BY <1>1
    <2>2. Starts[k + 1] <= Starts[n]
      BY <1>2, <2>1, LayoutGrows DEF IInv
    <2> QED  BY <1>3, <2>1, <2>2 DEF Kept
  <1>5. Kept(n) = Len(scopes) /\ Starts[n] \in 0..Len(scopes)
    <2>1. Starts[n] \in Nat /\ Len(scopes) = Starts[n] + cur_scope_len
      BY <1>1, <1>2, <1>3 DEF IsLayout
    <2> QED  BY <1>1, <2>1 DEF Kept
  <1>6. \A k \in 1..n : Envs[k] = EnvAt(k)
    BY DEF Envs
  <1>7. Envs[n] = cur_symbols
    <2>1. DeclaredBelow(n) = {}
      BY <1>1, <1>5 DEF DeclaredBelow
    <2>2. EnvAt(n) = [m \in DOMAIN cur_symbols |-> cur_symbols[m]]
      BY <2>1 DEF EnvAt
    <2> QED  BY <1>1, <1>6, <2>2 DEF MappingInv
  <1>8. Envs = [k \in 1..n |-> Envs[k]]
    BY DEF Envs
  <1>9. Len(Envs) = n /\ Envs # << >>
    <2>1. Len(Envs) = n
      BY <1>1, <1>8, SegmentIsSeq
    <2> QED  BY <1>1, <2>1
  <1> QED  BY <1>1, <1>2, <1>3, <1>4, <1>5, <1>6, <1>7, <1>8, <1>9 DEF LogFacts

\* The same of the state a step leads to.
LEMMA OpenTableNext == IInv' /\ MappingInv' /\ alive' => LogFacts'
  BY OpenTable, PTL

LEMMA StartsIsNext ==
    TypeOK' => \A s \in [1..Len(scope_lengths') -> 0..MaxVars] : IsLayout(s)' => Starts' = s
  <1>1. (TypeOK => \A s \in [1..Len(scope_lengths) -> 0..MaxVars] : IsLayout(s) => Starts = s)'
    BY StartsIs, PTL
  <1> QED  BY <1>1

-----------------------------------------------------------------------------
(* Every operation does what lexical scoping allows.                       *)

\* Initial states are initial states of ScopeEnv.
LEMMA InitRefines == Init => Abstract!Init /\ MappingInv
  <1> SUFFICES ASSUME Init PROVE Abstract!Init /\ MappingInv
    OBVIOUS
  <1>1. Envs = << >>
    BY DEF Init, Envs
  <1>2. Declaring = << >>
    BY DEF Init, Declaring
  <1> QED  BY <1>1, <1>2 DEF Init, MappingInv, Abstract!Init, Abstract!FirstId, Abstract!NoName,
                             Abstract!Nothing, Answer, kVarFirst, kVarUnassigned

\* The environments are made of the map and the log only.
LEMMA EnvsStay ==
    ASSUME UNCHANGED <<cur_symbols, cur_scope_len, scopes, scope_lengths>>
    PROVE  Envs' = Envs
  <1>1. \A s : IsLayout(s)' <=> IsLayout(s)
    BY DEF IsLayout
  <1>2. Starts' = Starts
    BY <1>1 DEF Starts
  <1>3. \A k : Kept(k)' = Kept(k)
    BY <1>2 DEF Kept
  <1>4. \A k : EnvAt(k)' = EnvAt(k)
    BY <1>3 DEF EnvAt, DeclaredBelow
  <1> QED  BY <1>4 DEF Envs

\* The variable being declared is the one name with its id.
LEMMA DeclaringIs ==
    IInv /\ MappingInv =>
       \A m \in DOMAIN cur_symbols :
          currently_declaring # kVarUnassigned =>
             (currently_declaring = cur_symbols[m] <=> Declaring = m)
  <1> SUFFICES ASSUME IInv, MappingInv, NEW m \in DOMAIN cur_symbols, currently_declaring # kVarUnassigned
               PROVE  currently_declaring = cur_symbols[m] <=> Declaring = m
    OBVIOUS
  <1>1. \A a, b \in DOMAIN cur_symbols : cur_symbols[a] = cur_symbols[b] => a = b
    BY DEF IInv, VisibleIdsDistinct
  <1>2. Declaring = CHOOSE n \in DOMAIN cur_symbols : cur_symbols[n] = currently_declaring
    BY DEF Declaring
  <1>3. PICK n \in DOMAIN cur_symbols : cur_symbols[n] = currently_declaring
    BY DEF MappingInv
  <1> QED  BY <1>1, <1>2, <1>3

\* Of equal parameters the first one counts, as std::map::insert has it.
LEMMA ConstructRefines ==
    ASSUME IInv, MappingInv, NEW params \in ParamLists, Construct(params), IInv'
    PROVE  Abstract!Begin(params) /\ MappingInv'
  <1>1. params \in Seq(Names)
    BY BoundsAssumption DEF ParamLists
  <1>2. Envs = << >>
    BY DEF Construct, MappingInv, Envs
  <1>3. /\ cur_symbols' = ParamSymbols(params)
        /\ ParamSymbols(params) = [n \in DOMAIN ParamSymbols(params) |-> ParamSymbols(params)[n]]
    BY DEF Construct, ParamSymbols
  <1>4. MappingInv'
    BY <1>3 DEF Construct, MappingInv
  <1>5. Envs' = << ParamSymbols(params) >>
    <2>1. LogFacts'
      BY <1>4, OpenTableNext DEF Construct
    <2>2. Len(scope_lengths') = 1
      BY DEF Construct
    <2>3. Envs' = [k \in 1..1 |-> ParamSymbols(params)]
      BY <1>3, <2>1, <2>2 DEF LogFacts
    <2> QED  BY <2>3
  <1> DEFINE len == Len(params)
  <1>6. len \in Nat /\ DOMAIN params = 1..len
    BY <1>1
  <1>7. ASSUME NEW i \in 1..len
        PROVE  \E j \in Inserted(params) : params[j] = params[i]
    <2> DEFINE T == {j \in 1..len : params[j] = params[i]}
    <2>1. T \in SUBSET Nat /\ T # {}
      BY <1>6, <1>7
    <2>2. PICK j \in T : \A k \in T : j <= k
      <3> HIDE DEF T
      <3> QED  BY <2>1, LeastNumber
    <2> QED  BY <1>6, <2>2 DEF Inserted
  <1>8. ASSUME NEW i \in Inserted(params)
        PROVE  ParamSymbols(params)[params[i]] = 100 + i - 1
    <2>1. \A j \in Inserted(params) : params[j] = params[i] => j = i
      BY <1>6 DEF Inserted
    <2>2. i \in 1..len /\ (CHOOSE j \in Inserted(params) : params[j] = params[i]) = i
      BY <1>6, <2>1 DEF Inserted
    <2>3. params[i] \in {params[j] : j \in Inserted(params)}
      OBVIOUS
    <2>4. ParamSymbols(params)[params[i]]
            = kVarFirst - 1 + CHOOSE j \in Inserted(params) : params[j] = params[i]
      BY <2>3 DEF ParamSymbols
    <2>5. i \in Int
      BY <1>6, <2>2
    <2>6. ParamSymbols(params)[params[i]] = kVarFirst - 1 + i
      BY <2>2, <2>4
    <2> QED  BY <2>5, <2>6 DEF kVarFirst
  <1>9. ParamSymbols(params) \in [{params[i] : i \in DOMAIN params} -> 100..(100 + len)]
    <2>1. DOMAIN ParamSymbols(params) = {params[i] : i \in 1..len}
      BY <1>6, <1>7 DEF ParamSymbols, Inserted
    <2>2. ASSUME NEW n \in DOMAIN ParamSymbols(params)
          PROVE  ParamSymbols(params)[n] \in 100..(100 + len)
      <3>1. PICK i \in Inserted(params) : params[i] = n
        BY <1>7, <2>1
      <3> QED  BY <1>6, <1>8, <3>1 DEF Inserted
    <2> QED  BY <1>3, <1>6, <2>1, <2>2
  <1>10. Inserted(params) # DOMAIN params
            <=> \E i, j \in DOMAIN params : i < j /\ params[i] = params[j]
    <2>1. Inserted(params) \subseteq DOMAIN params
      BY DEF Inserted
    <2>2. ASSUME NEW j \in DOMAIN params, j \notin Inserted(params)
          PROVE  \E i \in DOMAIN params : i < j /\ params[i] = params[j]
      BY <1>6, <2>2 DEF Inserted
    <2>3. ASSUME NEW i \in DOMAIN params, NEW j \in DOMAIN params, i < j, params[i] = params[j]
          PROVE  j \notin Inserted(params)
      BY <1>6, <2>3 DEF Inserted
    <2> QED  BY <2>1, <2>2, <2>3
  <1>11. Declaring' = << >>
    BY DEF Declaring, Construct
  <1>12. \A i \in DOMAIN params :
            (\A j \in 1..(i - 1) : params[j] # params[i]) => i \in Inserted(params)
    BY DEF Inserted
  <1> QED  BY <1>2, <1>4, <1>5, <1>8, <1>9, <1>10, <1>11, <1>12
           DEF Construct, Answer, kVarFirst, kVarUnassigned, Abstract!Begin, Abstract!FirstId,
               Abstract!NoName

\* A new scope begins with the environment around it.
LEMMA EnterRefines ==
    ASSUME IInv, MappingInv, EnterScope, IInv'
    PROVE  Abstract!Enter /\ MappingInv'
  <1>1. MappingInv'
    BY DEF EnterScope, MappingInv
  <1>2. LogFacts /\ LogFacts'
    BY <1>1, OpenTable, OpenTableNext DEF EnterScope
  <1> DEFINE n == Len(scope_lengths)
  <1>3. n \in Nat \ {0} /\ Len(scope_lengths') = n + 1 /\ cur_symbols' = cur_symbols /\ scopes' = scopes
        /\ (\A k \in 1..n : scope_lengths'[k] = scope_lengths[k])
        /\ scope_lengths'[n + 1] = cur_scope_len /\ Len(scope_lengths') < MaxDepth + 1
        /\ cur_scope_len' = 0
    BY <1>2, BoundsAssumption DEF EnterScope, LogFacts
  <1>4. /\ Starts'[n + 1] = Len(scopes)
        /\ \A k \in 1..n : Starts'[k] = Starts[k]
    <2>1. PICK s \in [1..(n + 1) -> 0..MaxVars] :
                 s = [k \in 1..(n + 1) |-> IF k = n + 1 THEN Len(scopes) ELSE Starts[k]]
      <3>1. [k \in 1..(n + 1) |-> IF k = n + 1 THEN Len(scopes) ELSE Starts[k]]
               \in [1..(n + 1) -> 0..MaxVars]
        BY <1>2, <1>3 DEF LogFacts
      <3> QED  BY <3>1
    <2>2. s[n + 1] = Len(scopes) /\ \A k \in 1..n : s[k] = Starts[k]
      BY <1>3, <2>1
    <2>3. IsLayout(s)'
      <3>1. Starts[1] = 0 /\ Len(scopes) = Starts[n] + cur_scope_len /\ 1 \in 1..n /\ n \in 1..n
        BY <1>2, <1>3 DEF LogFacts, IsLayout
      <3>2. ASSUME NEW k \in 1..n, k # n
            PROVE  s[k + 1] = s[k] + scope_lengths'[k + 1]
        <4>1. k \in 1..(n - 1) /\ k + 1 \in 1..n
          BY <1>3, <3>2
        <4>2. Starts[k + 1] = Starts[k] + scope_lengths[k + 1]
          BY <1>2, <4>1 DEF LogFacts, IsLayout
        <4> QED  BY <1>3, <2>2, <4>1, <4>2
      <3>3. s[n + 1] = s[n] + scope_lengths'[n + 1]
        BY <1>3, <2>2, <3>1
      <3>4. Len(scopes') = s[n + 1] + cur_scope_len'
        BY <1>2, <1>3, <2>2 DEF LogFacts
      <3>5. \A k \in 1..n : s[k + 1] = s[k] + scope_lengths'[k + 1]
        BY <3>2, <3>3
      <3>6. n + 1 - 1 = n /\ s[1] = 0
        BY <1>3, <2>2, <3>1
      <3> QED  BY <1>3, <3>4, <3>5, <3>6 DEF IsLayout
    <2>4. TypeOK'
      BY DEF IInv
    <2>5. Starts' = s
      BY <1>3, <2>3, <2>4, StartsIsNext
    <2> QED  BY <2>2, <2>5
  <1>5. ASSUME NEW k \in 1..n PROVE Envs'[k] = Envs[k]
    <2>1. Kept(k)' = Kept(k)
      <3>1. k + 1 \in 1..(n + 1) /\ k \in 1..(n + 1 - 1)
        BY <1>3
      <3>2. Kept(k)' = Starts'[k + 1]
        BY <1>2, <1>3, <3>1 DEF LogFacts
      <3>3. CASE k = n
        <4>1. Kept(k) = Len(scopes)
          BY <1>2, <3>3 DEF LogFacts
        <4> QED  BY <1>4, <3>2, <3>3, <4>1
      <3>4. CASE k # n
        <4>1. k \in 1..(n - 1) /\ k + 1 \in 1..n
          BY <1>3, <3>4
        <4>2. Kept(k) = Starts[k + 1]
          BY <1>2, <4>1 DEF LogFacts
        <4> QED  BY <1>4, <3>2, <4>1, <4>2
      <3> QED  BY <3>3, <3>4
    <2>2. EnvAt(k)' = EnvAt(k)
      BY <1>3, <2>1 DEF EnvAt, DeclaredBelow
    <2> QED  BY <1>2, <1>3, <2>2 DEF LogFacts
  <1>6. Envs'[n + 1] = Envs[n] /\ Envs[n] = cur_symbols
    BY <1>2, <1>3 DEF LogFacts
  <1>7. Envs' = Append(Envs, Envs[Len(Envs)])
    <2>1. Append(Envs, Envs[n]) = [k \in 1..(n + 1) |-> IF k = n + 1 THEN Envs[n] ELSE Envs[k]]
      BY <1>2, <1>3, SegmentIsSeq DEF LogFacts
    <2>2. Envs' = [k \in 1..(n + 1) |-> Envs'[k]]
      BY <1>2, <1>3 DEF LogFacts
    <2>3. \A k \in 1..(n + 1) : k = n + 1 \/ k \in 1..n
      BY <1>3
    <2> QED  BY <1>2, <1>5, <1>6, <2>1, <2>2, <2>3 DEF LogFacts
  <1>8. Declaring' = Declaring
    BY DEF Declaring, EnterScope
  <1> QED  BY <1>1, <1>2, <1>3, <1>7, <1>8
           DEF LogFacts, EnterScope, Abstract!Enter, Abstract!Env, Abstract!Nothing, Answer, kVarUnassigned

\* Erasing the names of the innermost scope gives back what was visible before it.
LEMMA PopRefines ==
    ASSUME IInv, MappingInv, alive, ~in_decl, UNCHANGED in_decl, PopScope,
           outcome' = Answer(kVarUnassigned, "none"), IInv',
           alive' => Len(scope_lengths) > 1, ~alive' => Len(scope_lengths) = 1
    PROVE  Abstract!Leave /\ MappingInv'
  <1> DEFINE n == Len(scope_lengths)
  <1>1. LogFacts
    BY OpenTable
  <1>2. currently_declaring = kVarUnassigned /\ currently_declaring' = kVarUnassigned
    BY DEF IInv, UndoLogConsistent, PopScope
  <1>3. /\ n \in Nat \ {0} /\ n - 1 \in Nat /\ n - 1 \in 0..n
        /\ Len(scopes) - cur_scope_len = Starts[n] /\ Starts[n] \in 0..Len(scopes)
        /\ scope_lengths' = SubSeq(scope_lengths, 1, n - 1)
        /\ cur_scope_len' = scope_lengths[n]
        /\ scopes' = SubSeq(scopes, 1, Starts[n])
        /\ cur_symbols' = [m \in DOMAIN cur_symbols \ Innermost |-> cur_symbols[m]]
        /\ Innermost = {scopes[i] : i \in (Starts[n] + 1)..Len(scopes)}
    <2>1. n - 1 \in Nat /\ n - 1 \in 0..n
      BY <1>1 DEF LogFacts
    <2>2. Len(scopes) = Starts[n] + cur_scope_len /\ Starts[n] \in Nat /\ n \in 1..n
      BY <1>1 DEF LogFacts, IsLayout
    <2>3. Len(scopes) - cur_scope_len = Starts[n]
      BY <1>1, <2>2 DEF LogFacts
    <2> QED  BY <1>1, <2>1, <2>3 DEF LogFacts, PopScope, OuterScopes, Innermost
  <1>4. /\ Len(scopes') = Starts[n]
        /\ \A i \in 1..Starts[n] : scopes'[i] = scopes[i]
    <2> DEFINE m == Starts[n]
    <2>1. scopes \in Seq(Names) /\ m \in 0..Len(scopes) /\ scopes' = SubSeq(scopes, 1, m)
      BY <1>1, <1>3 DEF LogFacts
    <2> HIDE DEF m
    <2>2. Len(scopes') = m /\ \A i \in 1..m : scopes'[i] = scopes[i]
      BY <2>1
    <2> QED  BY <2>2 DEF m
  <1>5. /\ Len(scope_lengths') = n - 1
        /\ \A k \in 1..(n - 1) : scope_lengths'[k] = scope_lengths[k]
    <2> DEFINE m == n - 1
    <2>1. m \in 0..n /\ m \in Nat
      BY <1>3
    <2> HIDE DEF m
    <2>2. /\ Len(SubSeq(scope_lengths, 1, m)) = m
          /\ \A i \in 1..m : SubSeq(scope_lengths, 1, m)[i] = scope_lengths[i]
      BY <1>1, <2>1 DEF LogFacts
    <2> QED  BY <1>3, <2>2 DEF m
  <1>6. MappingInv'
    <2>1. cur_symbols' = [m \in DOMAIN cur_symbols' |-> cur_symbols'[m]]
      BY <1>3
    <2>2. ASSUME ~alive' PROVE scope_lengths' = << >>
      <3>1. Len(scope_lengths') = 0 /\ scope_lengths' \in Seq(Nat)
        BY <1>5, <2>2 DEF IInv, TypeOK
      <3> QED  BY <3>1
    <2> QED  BY <1>2, <2>1, <2>2 DEF MappingInv
  <1>7. Envs' = SubSeq(Envs, 1, n - 1)
    <2>1. SubSeq(Envs, 1, n - 1) = [k \in 1..(n - 1) |-> Envs[k]]
      <3>1. n \in Nat /\ Envs = [k \in 1..n |-> Envs[k]] /\ n - 1 \in 0..n
        BY <1>1, <1>3 DEF LogFacts
      <3> HIDE DEF n
      <3> QED  BY <3>1, SegmentIsSeq
    <2>2. Envs' = [k \in 1..(n - 1) |-> EnvAt(k)']
      BY <1>5 DEF Envs
    <2>3. ASSUME NEW k \in 1..(n - 1)
          PROVE  EnvAt(k)' = Envs[k]
      <3>1. alive'
        BY <1>3, <2>3
      <3>2. LogFacts'
        BY <1>6, <3>1, OpenTableNext
      <3>3. n > 1 /\ k \in 1..n /\ n - 1 \in 1..(n - 1)
        BY <1>3, <2>3
      <3>4. \A j \in 1..(n - 1) : Starts'[j] = Starts[j]
        <4>1. PICK s \in [1..(n - 1) -> 0..MaxVars] : s = [j \in 1..(n - 1) |-> Starts[j]]
          <5>1. [j \in 1..(n - 1) |-> Starts[j]] \in [1..(n - 1) -> 0..MaxVars]
            BY <1>1, <1>3 DEF LogFacts
          <5> QED  BY <5>1
        <4>2. IsLayout(s)'
          <5>1. s[1] = 0
            BY <1>1, <3>3, <4>1 DEF LogFacts, IsLayout
          <5>2. ASSUME NEW j \in 1..(n - 2)
                PROVE  s[j + 1] = s[j] + scope_lengths'[j + 1]
            <6>1. j \in 1..(n - 1) /\ j + 1 \in 1..(n - 1)
              BY <3>3, <5>2
            <6>2. Starts[j + 1] = Starts[j] + scope_lengths[j + 1]
              BY <1>1, <6>1 DEF LogFacts, IsLayout
            <6> QED  BY <1>5, <4>1, <6>1, <6>2
          <5>3. Len(scopes') = s[n - 1] + cur_scope_len'
            <6>1. Starts[n - 1 + 1] = Starts[n - 1] + scope_lengths[n - 1 + 1]
              BY <1>1, <3>3 DEF LogFacts, IsLayout
            <6>2. n - 1 + 1 = n
              BY <1>3
            <6> QED  BY <1>3, <1>4, <3>3, <4>1, <6>1, <6>2
          <5>4. n - 1 - 1 = n - 2
            BY <1>3
          <5> QED  BY <1>5, <5>1, <5>2, <5>3, <5>4 DEF IsLayout
        <4>3. TypeOK'
          BY DEF IInv
        <4>4. Starts' = s
          BY <1>5, <4>2, <4>3, StartsIsNext
        <4> QED  BY <4>1, <4>4
      <3>5. Kept(k)' = Kept(k) /\ Kept(k) \in 0..Starts[n]
        <4>1. CASE k = n - 1
          <5>1. Kept(k)' = Len(scopes')
            BY <1>5, <4>1 DEF Kept
          <5>2. Kept(k) = Starts[k + 1] /\ k + 1 = n
            <6>1. k + 1 = n
              BY <1>3, <4>1
            <6> QED  BY <1>1, <6>1 DEF LogFacts
          <5> QED  BY <1>3, <1>4, <5>1, <5>2
        <4>2. CASE k # n - 1
          <5>1. k \in 1..(n - 2) /\ k + 1 \in 1..(n - 1) /\ n - 2 = n - 1 - 1
            BY <1>3, <4>2
          <5>2. Kept(k)' = Starts'[k + 1]
            BY <1>5, <4>2 DEF Kept
          <5> QED  BY <1>1, <3>4, <5>1, <5>2 DEF LogFacts
        <4> QED  BY <4>1, <4>2
      <3>6. DeclaredBelow(k) = DeclaredBelow(k)' \union Innermost
        <4>1. DeclaredBelow(k)' = {scopes[i] : i \in (Kept(k) + 1)..Starts[n]}
          <5>1. DeclaredBelow(k)' = {scopes'[i] : i \in (Kept(k) + 1)..Starts[n]}
            BY <1>4, <3>5 DEF DeclaredBelow
          <5>2. (Kept(k) + 1)..Starts[n] \subseteq 1..Starts[n]
            BY <3>5, <1>3
          <5> QED  BY <1>4, <5>1, <5>2
        <4>2. (Kept(k) + 1)..Len(scopes)
                = ((Kept(k) + 1)..Starts[n]) \union ((Starts[n] + 1)..Len(scopes))
          <5>1. Len(scopes) \in Nat
            BY <1>1 DEF LogFacts
          <5>2. Kept(k) \in Int /\ Starts[n] \in Int /\ Kept(k) <= Starts[n] /\ Starts[n] <= Len(scopes)
            BY <1>3, <3>5, <5>1
          <5> QED  BY <5>1, <5>2
        <4> QED  BY <1>3, <4>1, <4>2 DEF DeclaredBelow
      <3>7. EnvAt(k)' = EnvAt(k)
        BY <1>3, <3>6 DEF EnvAt
      <3> QED  BY <1>1, <3>3, <3>7 DEF LogFacts
    <2> QED  BY <2>1, <2>2, <2>3
  <1>8. Declaring' = Declaring
    BY <1>2 DEF Declaring
  <1> QED  BY <1>1, <1>6, <1>7, <1>8
           DEF LogFacts, PopScope, Abstract!Leave, Abstract!Nothing, Answer, kVarUnassigned

\* A new name is added to the innermost environment and to no other.
LEMMA DeclareRefines ==
    ASSUME IInv, MappingInv, NEW name \in Names, DeclareLocalStart(name), IInv'
    PROVE  Abstract!Declare(name) /\ MappingInv'
  <1> DEFINE n == Len(scope_lengths)
  <1>1. /\ alive /\ alive' = alive /\ ~in_decl /\ in_decl' = TRUE /\ n > 1
        /\ currently_declaring = kVarUnassigned
    BY DEF DeclareLocalStart, IInv, UndoLogConsistent
  <1>2. LogFacts
    BY <1>1, OpenTable
  <1>3. CASE name \in DOMAIN cur_symbols
    <2>1. /\ UNCHANGED <<cur_symbols, cur_scope_len, scopes, scope_lengths, var_id_counter,
                         currently_declaring>>
          /\ outcome' = Answer(cur_symbols[name], "DuplicateDefinition")
      BY <1>1, <1>3 DEF DeclareLocalStart, table
    <2>2. Envs' = Envs /\ Declaring' = Declaring
      BY <2>1, EnvsStay DEF Declaring
    <2> QED  BY <1>1, <1>2, <1>3, <2>1, <2>2
             DEF LogFacts, MappingInv, Abstract!Declare, Abstract!Env, Answer
  <1>4. CASE name \notin DOMAIN cur_symbols
    <2>1. /\ var_id_counter < kVarFirst + MaxVars
          /\ cur_symbols' = [m \in DOMAIN cur_symbols \cup {name} |->
                               IF m = name THEN var_id_counter ELSE cur_symbols[m]]
          /\ currently_declaring' = var_id_counter
          /\ var_id_counter' = var_id_counter + 1
          /\ scopes' = Append(scopes, name)
          /\ cur_scope_len' = cur_scope_len + 1
          /\ outcome' = Answer(var_id_counter, "none")
          /\ scope_lengths' = scope_lengths
      BY <1>1, <1>4 DEF DeclareLocalStart
    <2>2. /\ Len(scopes') = Len(scopes) + 1 /\ scopes'[Len(scopes) + 1] = name
          /\ \A i \in 1..Len(scopes) : scopes'[i] = scopes[i]
      BY <1>2, <2>1 DEF LogFacts
    <2>3. /\ name \in DOMAIN cur_symbols' /\ cur_symbols'[name] = var_id_counter
          /\ cur_symbols' = [m \in DOMAIN cur_symbols' |-> cur_symbols'[m]]
      BY <2>1
    <2>4. MappingInv'
      BY <1>1, <2>1, <2>3 DEF MappingInv
    <2>5. LogFacts'
      BY <1>1, <2>4, OpenTableNext
    <2>6. Starts' = Starts
      <3>1. PICK s \in [1..n -> 0..MaxVars] : s = Starts
        BY <1>2 DEF LogFacts
      <3>2. IsLayout(s)'
        <4>1. IsLayout(s) /\ s[n] \in Nat
          BY <1>2, <3>1 DEF LogFacts
        <4> QED  BY <1>2, <2>1, <2>2, <4>1 DEF IsLayout, LogFacts
      <3>3. TypeOK'
        BY DEF IInv
      <3> QED  BY <2>1, <3>1, <3>2, <3>3, StartsIsNext
    <2>7. ASSUME NEW k \in 1..(n - 1)
          PROVE  Envs'[k] = Envs[k]
      <3>1. k # n /\ k \in 1..n /\ n \in Nat
        BY <1>2, <2>7 DEF LogFacts
      <3>2. Kept(k)' = Kept(k) /\ Kept(k) \in 0..Len(scopes)
        BY <1>2, <2>1, <2>6, <3>1 DEF Kept, LogFacts
      <3>3. DeclaredBelow(k)' = DeclaredBelow(k) \union {name}
        <4>1. (Kept(k) + 1)..(Len(scopes) + 1) = ((Kept(k) + 1)..Len(scopes)) \union {Len(scopes) + 1}
          BY <1>2, <3>2 DEF LogFacts
        <4>2. (Kept(k) + 1)..Len(scopes) \subseteq 1..Len(scopes)
          BY <1>2, <3>2 DEF LogFacts
        <4>3. DeclaredBelow(k)' = {scopes'[i] : i \in (Kept(k) + 1)..(Len(scopes) + 1)}
          BY <2>2, <3>2 DEF DeclaredBelow
        <4>4. {scopes'[i] : i \in (Kept(k) + 1)..Len(scopes)}
                = {scopes[i] : i \in (Kept(k) + 1)..Len(scopes)}
          BY <2>2, <4>2
        <4>5. DeclaredBelow(k)'
                = {scopes'[i] : i \in (Kept(k) + 1)..Len(scopes)} \union {scopes'[Len(scopes) + 1]}
          BY <4>1, <4>3
        <4> QED  BY <2>2, <4>4, <4>5 DEF DeclaredBelow
      <3>4. EnvAt(k)' = EnvAt(k)
        <4>1. DOMAIN cur_symbols' \ DeclaredBelow(k)' = DOMAIN cur_symbols \ DeclaredBelow(k)
          BY <1>4, <2>1, <3>3
        <4>2. \A m \in DOMAIN cur_symbols : cur_symbols'[m] = cur_symbols[m]
          BY <1>4, <2>1
        <4> QED  BY <4>1, <4>2 DEF EnvAt
      <3> QED  BY <1>2, <2>1, <2>5, <3>1, <3>4 DEF LogFacts
    <2>8. Envs' = [Envs EXCEPT ![n] = cur_symbols']
      <3>1. Envs' = [k \in 1..n |-> Envs'[k]] /\ Envs'[n] = cur_symbols'
        BY <2>1, <2>5 DEF LogFacts
      <3>2. [Envs EXCEPT ![n] = cur_symbols'] = [k \in 1..n |-> IF k = n THEN cur_symbols' ELSE Envs[k]]
        BY <1>2 DEF LogFacts
      <3>3. \A k \in 1..n : k = n \/ k \in 1..(n - 1)
        BY <1>2 DEF LogFacts
      <3> QED  BY <2>7, <3>1, <3>2, <3>3
    <2>9. Declaring' = name
      <3>1. var_id_counter # kVarUnassigned
        BY <1>2 DEF LogFacts, IInv, UndoLogConsistent, TypeOK, kVarFirst, kVarUnassigned
      <3>2. \A m \in DOMAIN cur_symbols' : cur_symbols'[m] = cur_symbols'[name] => m = name
        BY <2>3 DEF IInv, VisibleIdsDistinct
      <3>3. Declaring' = CHOOSE m \in DOMAIN cur_symbols' : cur_symbols'[m] = var_id_counter
        BY <2>1, <3>1 DEF Declaring
      <3> QED  BY <2>3, <3>2, <3>3
    <2>10. cur_symbols' = [m \in DOMAIN Envs[n] \cup {name} |->
                             IF m = name THEN var_id_counter ELSE Envs[n][m]]
      BY <1>2, <2>1 DEF LogFacts
    <2> QED  BY <1>1, <1>2, <1>4, <2>1, <2>4, <2>8, <2>9, <2>10
             DEF LogFacts, Abstract!Declare, Abstract!Env, Answer
  <1> QED  BY <1>3, <1>4

\* The end of a declaration only removes its mark.
LEMMA EndRefines ==
    ASSUME IInv, MappingInv, DeclareLocalEnd
    PROVE  Abstract!EndDeclare /\ MappingInv'
  <1>1. Envs' = Envs
    BY EnvsStay DEF DeclareLocalEnd
  <1>2. Declaring' = << >>
    BY DEF Declaring, DeclareLocalEnd
  <1> QED  BY <1>1, <1>2 DEF DeclareLocalEnd, MappingInv, Abstract!EndDeclare, Abstract!NoName,
                             Abstract!Nothing, Answer, kVarUnassigned

\* A name is resolved as in the innermost environment.
LEMMA ResolveRefines ==
    ASSUME IInv, MappingInv, NEW name \in Names, ResolveLocal(name)
    PROVE  Abstract!Resolve(name) /\ MappingInv'
  <1>1. /\ alive /\ UNCHANGED <<cur_symbols, cur_scope_len, scopes, scope_lengths, var_id_counter,
                                currently_declaring, alive, in_decl>>
        /\ outcome' = Resolution(name)
    BY DEF ResolveLocal, table
  <1>2. Envs' = Envs /\ Declaring' = Declaring /\ MappingInv'
    BY <1>1, EnvsStay DEF Declaring, MappingInv
  <1>3. LogFacts
    BY <1>1, OpenTable
  <1>4. Resolution(name) =
           IF name \notin DOMAIN cur_symbols THEN Abstract!Nothing
           ELSE IF Declaring = name THEN [vid |-> 0, error |-> "VariableInitializerSelfReference"]
           ELSE [vid |-> cur_symbols[name], error |-> "none"]
    <2>1. CASE name \notin DOMAIN cur_symbols
      BY <2>1 DEF Resolution, Answer, kVarUnassigned, Abstract!Nothing
    <2>2. CASE name \in DOMAIN cur_symbols
      <3>1. currently_declaring = cur_symbols[name] <=> Declaring = name
        <4>1. CASE currently_declaring = kVarUnassigned
          <5>1. cur_symbols[name] # kVarUnassigned
            BY <2>2 DEF IInv, TypeOK, VisibleIdsDistinct, kVarFirst, kVarUnassigned
          <5>2. Declaring = << >> /\ name # << >>
            BY <4>1, NamesAssumption DEF Declaring
          <5> QED  BY <4>1, <5>1, <5>2
        <4>2. CASE currently_declaring # kVarUnassigned
          BY <2>2, <4>2, DeclaringIs
        <4> QED  BY <4>1, <4>2
      <3> QED  BY <2>2, <3>1 DEF Resolution, Answer, kVarUnassigned
    <2> QED  BY <2>1, <2>2
  <1> QED  BY <1>1, <1>2, <1>3, <1>4 DEF LogFacts, Abstract!Resolve, Abstract!Env

\* Every step is one of ScopeEnv, or changes nothing there.
LEMMA NextRefines ==
    IInv /\ MappingInv /\ [Next]_vars => [Abstract!Next]_(Abstract!vars) /\ MappingInv'
  <1> SUFFICES ASSUME IInv, MappingInv, [Next]_vars
               PROVE  (Abstract!Next \/ UNCHANGED Abstract!vars) /\ MappingInv'
    OBVIOUS
  <1>0. IInv'
    BY NextIInv
  <1>1. ASSUME NEW params \in ParamLists, Construct(params)
        PROVE  Abstract!Next /\ MappingInv'
    BY <1>0, <1>1, ConstructRefines DEF Abstract!Next
  <1>2. CASE EnterScope
    BY <1>0, <1>2, EnterRefines DEF Abstract!Next
  <1>3. CASE LeaveScope
    <2>1. LeaveScopeChecks
      BY <1>3, ChecksHold DEF LeaveScope
    <2> QED  BY <1>0, <1>3, <2>1, PopRefines DEF LeaveScope, Abstract!Next
  <1>4. CASE Destroy
    <2>1. ~failed'
      BY <1>0 DEF IInv, NoCheckFails
    <2> QED  BY <1>0, <1>4, <2>1, PopRefines DEF Destroy, Abort, Abstract!Next
  <1>5. ASSUME NEW name \in Names, DeclareLocalStart(name)
        PROVE  Abstract!Next /\ MappingInv'
    BY <1>0, <1>5, DeclareRefines DEF Abstract!Next
  <1>6. CASE DeclareLocalEnd
    BY <1>6, EndRefines DEF Abstract!Next
  <1>7. ASSUME NEW name \in Names, ResolveLocal(name)
        PROVE  Abstract!Next /\ MappingInv'
    BY <1>7, ResolveRefines DEF Abstract!Next
  <1>8. CASE UNCHANGED vars
    <2>1. Envs' = Envs
      BY <1>8, EnvsStay DEF vars, table
    <2>2. Declaring' = Declaring /\ MappingInv'
      BY <1>8 DEF vars, table, Declaring, MappingInv
    <2> QED  BY <1>8, <2>1, <2>2 DEF vars, table, Abstract!vars
  <1> QED  BY <1>1, <1>2, <1>3, <1>4, <1>5, <1>6, <1>7, <1>8 DEF Next

\* The map and the undo log implement lexical scoping, for any names and however
\* blocks and declarations are nested.
THEOREM TableIsLexicallyScoped == Spec => ImplementsScopeEnv
  <1>1. Init => Abstract!Init /\ MappingInv
    BY InitRefines
  <1>2. IInv /\ MappingInv /\ [Next]_vars => [Abstract!Next]_(Abstract!vars) /\ MappingInv'
    BY NextRefines
  <1> QED  BY <1>1, <1>2, SpecIInv, PTL DEF Spec, ImplementsScopeEnv, Abstract!Spec

=============================================================================

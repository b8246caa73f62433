----------------------------- MODULE ControlFlow -----------------------------
(***************************************************************************)
(* The runs of a method body, as the language's statements are executed.   *)
(* This is what the analysis of types/dataflow_visitor.cpp, the module     *)
(* Dataflow, is checked against.                                           *)
(*                                                                         *)
(* A body is the sequence of its statements in which the parts of each,    *)
(* given by their places, come before it; the last is the whole body.  A   *)
(* run goes from point to point: the start or the end of a statement, or   *)
(* the return from the method.  outcomes[i] are the values that the        *)
(* condition of the loop at place i may have; the condition of any other   *)
(* statement may turn out either way.                                      *)
(***************************************************************************)
EXTENDS Naturals, Sequences

Start(i) == <<"start", i>>
End(i) == <<"end", i>>
Returned == <<"returned", 0>>

\* From the start of a block through its statements to its end.
BlockEdges(i, stmts) ==
  {<<IF k = 0 THEN Start(i) ELSE End(stmts[k]),
     IF k = Len(stmts) THEN End(i) ELSE Start(stmts[k + 1])>> : k \in 0..Len(stmts)}

IfEdges(i, s) ==
  {<<Start(i), Start(s.then)>>, <<End(s.then), End(i)>>,
   <<Start(i), Start(s.else)>>, <<End(s.else), End(i)>>}

\* After its body a loop is executed again.
LoopEdges(i, s, outcomes) ==
  {<<End(s.body), Start(i)>>}
  \cup (IF TRUE \in outcomes THEN {<<Start(i), Start(s.body)>>} ELSE {})
  \cup (IF FALSE \in outcomes THEN {<<Start(i), End(i)>>} ELSE {})

\* Where a run may go at statement s, which is at place i.
EdgesOf(i, s, outcomes) ==
  CASE s.k = "simple" -> {<<Start(i), End(i)>>}
    [] s.k = "return" -> {<<Start(i), Returned>>}
    [] s.k = "block" -> BlockEdges(i, s.stmts)
    [] s.k = "if" -> IfEdges(i, s)
    [] s.k = "loop" -> LoopEdges(i, s, outcomes)

Edges(body, outcomes) == UNION {EdgesOf(i, body[i], outcomes[i]) : i \in DOMAIN body}

\* There are two points for each statement, and the return.
Longest(body) == 2 * Len(body) + 1

\* The points of all runs of at most n steps.
ReachedIn(body, edges) ==
  LET reached[n \in 0..Longest(body)] ==
        IF n = 0 THEN {Start(Len(body))}
        ELSE LET r == reached[n - 1] IN r \cup {e[2] : e \in {d \in edges : d[1] \in r}}
  IN  reached

\* The points of all runs.
Runs(body, outcomes) == ReachedIn(body, Edges(body, outcomes))[Longest(body)]

NeverExecuted(body, outcomes) == {i \in DOMAIN body : Start(i) \notin Runs(body, outcomes)}

FallsOffEnd(body, outcomes) == End(Len(body)) \in Runs(body, outcomes)
=============================================================================

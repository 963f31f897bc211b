--------------------------- MODULE MCQuerySession ---------------------------
(* Two interpreters in one thread, and queries that read the time before   *)
(* and after a call.  Texts are named by what they call.                    *)
EXTENDS QuerySession, TLC

MCNames == {"query", "time.now_ns", "count", "uuid.nope", "ask", "rule"}
MCLibrary == {"time.now_ns", "count"}
MCRefused == {"uuid.nope"}
MCRules == {"query"}
MCCustom == {"ask"}

MCTexts == {"times", "around", "refused", "unknown", "bad"}
MCValid == MCTexts \ {"bad"}
MCCalls ==
  [t \in MCTexts |->
     CASE t = "times"   -> <<"query", "time.now_ns", "time.now_ns">>
       [] t = "around"  -> <<"query", "time.now_ns", "ask", "count", "time.now_ns">>
       [] t = "refused" -> <<"uuid.nope">>
       [] t = "unknown" -> <<"rule">>
       [] t = "bad"     -> <<>>]

MCLists == {{"query", "time.now_ns"}}

Same == Permutations(Interps)
=============================================================================

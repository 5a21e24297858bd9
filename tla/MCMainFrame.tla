---------------------------- MODULE MCMainFrame -----------------------------
(***************************************************************************)
(* Small instances of MainFrame: three actions, one per way the file list  *)
(* is refreshed after it.                                                  *)
(***************************************************************************)
EXTENDS MainFrame

CONSTANTS a1, a2, a3

MCActions == {a1, a2, a3}
\* a commit, a log query (DONT_UPDATE) and an edit (UPDATE_LATER)
MCFlags == [a \in MCActions |-> CASE a = a1 -> "tree"
                                  [] a = a2 -> "dont"
                                  [] a = a3 -> "later"]
MCLogActions == {a2}

\* for liveness: a commit and a log query
MCPair == {a1, a2}
MCPairFlags == [a \in MCPair |-> MCFlags[a]]
MCPairLogActions == {a2}
=============================================================================

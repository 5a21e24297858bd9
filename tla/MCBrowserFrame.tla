--------------------------- MODULE MCBrowserFrame ---------------------------
(***************************************************************************)
(* A small instance of BrowserFrame: a working copy with two nested        *)
(* folders and a repository.                                               *)
(***************************************************************************)
EXTENDS BrowserFrame, TLC

CONSTANTS wc, repo, outer, inner, c1, c2, c3, c4, c5

MCBookmarks == {wc, repo}
MCUrls == {repo}
MCFolders == {outer, inner}
MCFolderIn == [f \in MCFolders |-> IF f = outer THEN wc ELSE outer]
MCContexts == {c1, c2, c3, c4, c5}

\* Contexts are told apart only by who points to them.
MCSymmetry == Permutations(MCContexts)
=============================================================================

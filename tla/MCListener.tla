----------------------------- MODULE MCListener -----------------------------
(***************************************************************************)
(* A small instance of Listener: the worker prompts for a login twice and  *)
(* for a certificate, the main thread for a login and for server trust.    *)
(***************************************************************************)
EXTENDS Listener

CONSTANTS w1, w2, w3, m1, m2

MCWorkerPrompts == {w1, w2, w3}
MCMainPrompts   == {m1, m2}
MCKind == [p \in MCWorkerPrompts \cup MCMainPrompts |->
             CASE p \in {w1, w2, m1} -> "login"
               [] p = w3 -> "cert"
               [] p = m2 -> "trust"]
=============================================================================

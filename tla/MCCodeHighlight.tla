-------------------------- MODULE MCCodeHighlight --------------------------
(* A small instance of CodeHighlight: three texts, two of which share a cache key. *)
EXTENDS CodeHighlight, TLC

CONSTANTS k1, k2, k3

KeyDef == k1 :> k1 @@ k2 :> k2 @@ k3 :> k1
=============================================================================

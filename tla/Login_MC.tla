------------------------------ MODULE Login_MC ------------------------------
(***************************************************************************)
(* Two calls of one new key, while a handle is taken by a known player who *)
(* does not call.                                                          *)
(***************************************************************************)
EXTENDS Login, TLC

CONSTANTS s1, s2, k1, k2

MCKeyOf == s1 :> k1 @@ s2 :> k1
MCKnown == k2 :> "b"
=============================================================================

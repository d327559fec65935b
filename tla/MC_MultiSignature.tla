-------------------------- MODULE MC_MultiSignature --------------------------
(***************************************************************************)
(* Model-checking instance of MultiSignature: one key of each scheme, two *)
(* messages, one opaque Ethereum payload.                                  *)
(***************************************************************************)
EXTENDS MultiSignature, TLC

CONSTANTS kEd, kSr, kEcdsa, m1, m2, eth1

MCKeys == {kEd, kSr, kEcdsa}
MCKeyScheme == (kEd :> "Ed25519") @@ (kSr :> "Sr25519") @@ (kEcdsa :> "Ecdsa")
MCMsgs == {m1, m2}

=============================================================================

--------------------------- MODULE MultiSignature ---------------------------
(***************************************************************************)
(* SetheumMultiSignature (src/blockchain/primitives/src/signature.rs): the *)
(* signature enum, its From / TryFrom conversions, Default and             *)
(* Verify::verify against an AccountId32.                                  *)
(*                                                                         *)
(* Cryptography is abstract.  A key pair has a scheme; its public key is   *)
(* the value <<"pub", k>>, and blake2_256 is the injective tag "blake".   *)
(* An ed25519 / sr25519 / ecdsa signature is the key that made it and the *)
(* message it signs (NoKey for a signature nobody made, e.g. the default). *)
(* Scheme verification succeeds only for the key that signed that         *)
(* message; ECDSA recovery over another message yields some other public  *)
(* key, never the signer's.  Ethereum / Eip712 payloads are opaque bytes.  *)
(***************************************************************************)
EXTENDS Naturals

CONSTANTS
  Keys,        \* key pairs
  KeyScheme,   \* key -> "Ed25519" | "Sr25519" | "Ecdsa"
  Msgs,        \* messages
  RawBytes,    \* opaque 65-byte payloads of the Ethereum variants
  NoKey

Schemes == {"Ed25519", "Sr25519", "Ecdsa"}

ASSUME KeyScheme \in [Keys -> Schemes]

Public(k) == <<"pub", k>>
Blake2(x) == <<"blake", x>>

\* A scheme signature: who made it, over which message.
SchemeSigs == [by : Keys \cup {NoKey}, msg : Msgs]

\* The values of SetheumMultiSignature.
MultiSigs == [variant : Schemes, sig : SchemeSigs]
               \cup [variant : {"Ethereum", "SetheumEip712"}, sig : RawBytes]

\* The accounts a key controls: its public key bytes (ed25519, sr25519) or the
\* blake2_256 of its compressed public key (ecdsa, MultiSigner::into_account).
AccountOf(k) == IF KeyScheme[k] = "Ecdsa" THEN Blake2(Public(k)) ELSE Public(k)

AccountIds == {Public(k) : k \in Keys} \cup {Blake2(Public(k)) : k \in Keys}

------------------------------------------------------------------------------
(* Conversions.                                                            *)

\* From<scheme::Signature>: wrap in the variant.
FromSig(scheme, x) == [variant |-> scheme, sig |-> x]

\* TryFrom<SetheumMultiSignature> for scheme::Signature: Ok only for its own
\* variant, Err(()) otherwise.
TryFromSig(scheme, m) ==
  IF m.variant = scheme THEN [ok |-> TRUE, val |-> m.sig] ELSE [ok |-> FALSE]

\* Default: Ed25519 of the all-zero signature, which no key made.
DefaultSig == FromSig("Ed25519", [by |-> NoKey, msg |-> CHOOSE m \in Msgs : TRUE])

------------------------------------------------------------------------------
(* Verification.                                                           *)

\* scheme::Signature::verify(msg, Public::from_slice(who)): the account bytes
\* read as a public key of that scheme.
SchemeVerify(scheme, s, msg, who) ==
  /\ s.by # NoKey /\ KeyScheme[s.by] = scheme
  /\ s.msg = msg
  /\ who = Public(s.by)

\* secp256k1_ecdsa_recover_compressed(sig, blake2_256(msg)): the signer's key
\* when the signature is over this message, another key when not, and an
\* error for a signature no key made.
EcdsaRecover(s, msg) ==
  IF s.by = NoKey \/ KeyScheme[s.by] # "Ecdsa" THEN <<"err">>
  ELSE IF s.msg = msg THEN Public(s.by) ELSE <<"pub", <<"other", s, msg>>>>

\* Mutant: the recovered public key is compared with the account directly,
\* without hashing it.
VerifyUnhashed(m, msg, who) ==
  CASE m.variant = "Ed25519" -> SchemeVerify("Ed25519", m.sig, msg, who)
    [] m.variant = "Sr25519" -> SchemeVerify("Sr25519", m.sig, msg, who)
    [] m.variant = "Ecdsa"   -> LET pk == EcdsaRecover(m.sig, msg)
                                IN pk # <<"err">> /\ pk = who
    [] OTHER                 -> FALSE

\* Verify::verify: dispatch on the variant; Ecdsa recovers the public key from
\* the blake2_256 of the message and compares its blake2_256 with the account;
\* the Ethereum variants never verify ("arbitrary message verification is not
\* supported").
Verify(m, msg, who) ==
  CASE m.variant = "Ed25519" -> SchemeVerify("Ed25519", m.sig, msg, who)
    [] m.variant = "Sr25519" -> SchemeVerify("Sr25519", m.sig, msg, who)
    [] m.variant = "Ecdsa"   -> LET pk == EcdsaRecover(m.sig, msg)
                                IN pk # <<"err">> /\ Blake2(pk) = who
    [] OTHER                 -> FALSE

------------------------------------------------------------------------------
(* Every input is a state; the check ranges over all of them.              *)

VARIABLES sigIn, msgIn, whoIn

vars == <<sigIn, msgIn, whoIn>>

Inputs == MultiSigs \X Msgs \X AccountIds

Init == \E i \in Inputs : sigIn = i[1] /\ msgIn = i[2] /\ whoIn = i[3]

Next == \E i \in Inputs : sigIn' = i[1] /\ msgIn' = i[2] /\ whoIn' = i[3]

Spec == Init /\ [][Next]_vars

------------------------------------------------------------------------------
(* Properties.                                                             *)

\* Reference: a signature verifies for an account exactly when it is an
\* ed25519, sr25519 or ecdsa signature made over that message by a key of that
\* scheme which controls the account; the default signature and the Ethereum
\* variants verify for nobody.
VerifiesExactlyForSigner ==
  Verify(sigIn, msgIn, whoIn)
    <=> /\ sigIn.variant \in Schemes
        /\ sigIn.sig.by # NoKey
        /\ KeyScheme[sigIn.sig.by] = sigIn.variant
        /\ sigIn.sig.msg = msgIn
        /\ AccountOf(sigIn.sig.by) = whoIn

=============================================================================

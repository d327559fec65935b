\* SetheumMultiSignature: verification against the reference, and conversions.
CONSTANTS
  kEd = kEd
  kSr = kSr
  kEcdsa = kEcdsa
  m1 = m1
  m2 = m2
  eth1 = eth1
  NoKey = NoKey
  Keys <- MCKeys
  KeyScheme <- MCKeyScheme
  Msgs <- MCMsgs
  RawBytes = {eth1}
SPECIFICATION Spec
INVARIANTS
  VerifiesExactlyForSigner

CONSTANTS
  m1 = m1
  m2 = m2
  s1 = s1
  s2 = s2
  s3 = s3
  r1 = r1
  r2 = r2
  NoKey = NoKey
  NullChain = NullChain
  PlainChain = PlainChain
  NoPubKey = NoPubKey
  KeyIds <- MCKeyIds
  MasterKeys <- MCMasterKeys
  Scripts <- MCScripts
  PubKeyOf <- MCPubKeyOf
  RedeemScripts <- MCRedeemScripts
  OversizedScripts <- MCOversizedScripts
  Files <- MCFiles
  CLIENT_VERSION <- MCClientVersion
SPECIFICATION Spec
INVARIANT
  TimeFirstKeyResetOnlyWithoutMetadata

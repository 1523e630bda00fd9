CONSTANTS
  TxIds = {1, 2, 3}
  MaxIn = 3
  UIntBits = 16

SPECIFICATION Spec
INVARIANTS
  ZapSelectTxErasesExactlyTheSelection
  ZapWalletTxReturnsWrittenTxs
  AccountEntriesAsWritten

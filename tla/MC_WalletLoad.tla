--------------------------- MODULE MC_WalletLoad ---------------------------
(* Wallet files made of a key part (ckey, chdchain, keymeta records of two *)
(* keys, including a mixed file and a corrupt pubkey) and at most two      *)
(* other records (an HD pubkey with its metadata, a watched script, good   *)
(* and bad transactions, a bad accounting entry, a bad default key, old    *)
(* versions, a too-new minversion, a bad master key record).               *)
EXTENDS WalletLoad

CONSTANTS m1, m2, s1, s2, s3, r1, r2

MCKeyIds == {1, 2}
MCMasterKeys == {m1, m2}
MCScripts == {s1, s2, s3}
MCPubKeyOf == (s1 :> 1) @@ (s2 :> 1) @@ (s3 :> NoPubKey)
MCRedeemScripts == {r1, r2}
MCOversizedScripts == {r2}
MCClientVersion == 1000000

R(t, i, v, ok) == [type |-> t, id |-> i, val |-> v, ok |-> ok]

KeyRecords ==
  { R("ckey", 1, m1, TRUE), R("ckey", 1, m1, FALSE), R("ckey", 2, m1, TRUE),
    R("ckey", 2, m2, TRUE), R("chdchain", 0, m1, TRUE),
    R("chdchain", 0, m2, TRUE), R("chdchain", 0, PlainChain, TRUE),
    R("keymeta", 1, 0, TRUE), R("keymeta", 2, 0, TRUE) }

OtherRecords ==
  { R("hdpubkey", 3, 0, TRUE), R("keymeta", 3, 0, TRUE),
    R("watchs", s1, 1, TRUE), R("watchmeta", s1, 0, TRUE),
    R("tx", 1, -1, TRUE), R("tx", 2, 0, FALSE), R("acentry", 1, 0, FALSE),
    R("defaultkey", 0, 0, FALSE), R("version", 0, 40000, TRUE),
    R("version", 0, 10300, TRUE), R("minversion", 0, MCClientVersion + 1, TRUE),
    R("mkey", 1, 0, FALSE) }

\* A database key (type, id) appears once in a file.
UniqueKeys(S) ==
  \A a, b \in S : a.type = b.type /\ a.id = b.id => a = b

MCFiles ==
  { F \in { K \cup O : K \in SUBSET KeyRecords,
                       O \in {{a, b} : a, b \in OtherRecords} \cup {{}} } :
      UniqueKeys(F) }
=============================================================================

------------------------- MODULE MC_CryptoKeyStore -------------------------
(* Two keys (iterated as 1 then 2), the wallet's master key and a wrong    *)
(* one, two encodings s1/s2 of the same P2PK script and one script without *)
(* a pubkey, one acceptable and one oversized redeem script.               *)
EXTENDS CryptoKeyStore

CONSTANTS m1, m2, s1, s2, s3, r1, r2

MCKeyIds == {1, 2}
MCMasterKeys == {m1, m2}
MCScripts == {s1, s2, s3}
MCPubKeyOf == (s1 :> 1) @@ (s2 :> 1) @@ (s3 :> NoPubKey)
MCRedeemScripts == {r1, r2}
MCOversizedScripts == {r2}

MCSymmetry == Permutations(MCMasterKeys)
=============================================================================

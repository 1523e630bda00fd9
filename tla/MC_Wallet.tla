------------------------------ MODULE MC_Wallet ------------------------------
(***************************************************************************)
(* The wallet's key store over its whole life: LoadWallet reads one of the *)
(* wallet files of MC_WalletLoad into an empty CCryptoKeyStore, and when   *)
(* CreateWalletFromFile goes on with the result (LOAD_OK or                *)
(* NONCRITICAL_ERROR) the node uses the store: RPC and GUI calls of        *)
(* CCryptoKeyStore (Unlock, Lock, AddKeyPubKey, EncryptHDChain, watch-only *)
(* and redeem scripts) interleave as whole calls, each under cs_KeyStore.  *)
(*                                                                         *)
(* phase goes "start" -> "scan" -> "done" (or "thrown") in LoadWallet,    *)
(* then "use" from the first call on the loaded store.  LoadWallet's scan  *)
(* state and the file take no further part once the store is in use, so   *)
(* the VIEW leaves them out of the fingerprint of a "use" state.           *)
(***************************************************************************)
EXTENDS MC_WalletLoad

\* Any call of CCryptoKeyStore on the store LoadWallet handed over.
UseStore ==
  /\ phase \in {"done", "use"} /\ ~loading
  /\ KS!Next
  /\ phase' = "use"
  /\ UNCHANGED <<file, unread, wss, fNoncriticalErrors, result, rescan,
                 timeFirstKeyReset, wroteVersion>>

WalletNext == Next \/ UseStore

WalletSpec == Init /\ [][WalletNext]_vars

WalletView == IF phase = "use" THEN <<ksVars, phase>> ELSE vars

-----------------------------------------------------------------------------
(* Properties of the key store, now over stores loaded from wallet files. *)

TypeOK ==
  /\ KS!TypeOK
  /\ phase \in {"start", "scan", "done", "thrown", "use"}
  /\ result \in DBErrors

\* Once Unlock has accepted a master key, whatever the wallet file held,
\* GetKey opens every crypted key and GetDecryptedHDChain the chain
\* (Unlock's thorough first scan, its keyPass && keyFail assert and the
\* seed check that clears vMasterKey again).
UnlockedKeyOpensEverything == KS!UnlockedKeyOpensEverything

\* From the empty store through LoadWallet's LoadCryptedKey,
\* SetCryptedHDChain and LoadWatchOnly calls and every later call, the
\* store refines KeyStoreSpec: plain until it turns crypted while empty,
\* no key lost, no key added while locked once loading is over.
ImplementsKeyStoreSpec == KS!ImplementsKeyStoreSpec
=============================================================================

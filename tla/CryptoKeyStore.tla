--------------------------- MODULE CryptoKeyStore ---------------------------
(***************************************************************************)
(* CCryptoKeyStore (src/wallet/crypter.cpp) on top of CBasicKeyStore      *)
(* (src/keystore.cpp).                                                     *)
(*                                                                         *)
(* Every public method takes cs_KeyStore for its whole body, so a method   *)
(* is one atomic step and threads (RPC, GUI, relock timer) interleave      *)
(* whole calls.  Data is abstracted: a key is a CKeyID, a master key       *)
(* (CKeyingMaterial) is a model value, and a ciphertext is the master key  *)
(* it was encrypted under.  DecryptKey / DecryptSecret with key m succeed  *)
(* exactly for ciphertexts made under m: a ciphertext made under another   *)
(* key fails the AES padding check, the 32-byte size check or              *)
(* VerifyPubKey.  The HD chain (CHDChain) is abstracted the same way: its  *)
(* seed and mnemonic are encrypted under one master key and its ID is the  *)
(* hash of the seed.                                                       *)
(*                                                                         *)
(* "loading" separates reading the wallet file (LoadWallet feeds records   *)
(* in, with whatever ciphertext the file holds) from normal operation.     *)
(***************************************************************************)
EXTENDS FiniteSets, FiniteSetsExt, TLC

CONSTANTS
  KeyIds,          \* CKeyIDs of the keys; mapCryptedKeys iterates them in order
  MasterKeys,      \* candidate master keys (the right one and wrong ones)
  NoKey,           \* the empty vMasterKey
  NullChain,       \* a null CHDChain
  PlainChain,      \* a CHDChain record whose fCrypted flag is false
  Scripts,         \* watch-only scripts
  PubKeyOf,        \* ExtractPubKey: Scripts -> KeyIds \cup {NoPubKey}
  NoPubKey,
  RedeemScripts,
  OversizedScripts \* redeem scripts above MAX_SCRIPT_ELEMENT_SIZE

ASSUME /\ NoKey \notin MasterKeys
       /\ OversizedScripts \subseteq RedeemScripts
       /\ PubKeyOf \in [Scripts -> KeyIds \cup {NoPubKey}]

VARIABLES
  fUseCrypto,
  mapKeys,          \* CBasicKeyStore::mapKeys (ids of plaintext keys)
  mapCryptedKeys,   \* id -> master key its ciphertext was made under
  vMasterKey,
  fDecryptionThoroughlyChecked,
  cryptedHDChain,   \* NullChain or the master key it is encrypted under
  setWatchOnly,
  mapWatchKeys,
  mapScripts,
  notifiedLocked,   \* IsLocked() as seen by the last NotifyStatusChanged
  aborted,          \* the process hit assert(false) in Unlock
  loading

vars == <<fUseCrypto, mapKeys, mapCryptedKeys, vMasterKey,
          fDecryptionThoroughlyChecked, cryptedHDChain, setWatchOnly,
          mapWatchKeys, mapScripts, notifiedLocked, aborted, loading>>

Chains == MasterKeys \cup {NullChain}

-----------------------------------------------------------------------------
(* Queries (no state change).                                              *)

IsCrypted == fUseCrypto

IsLocked == IsCrypted /\ vMasterKey = NoKey

DecryptKey(m, id) == mapCryptedKeys[id] = m

\* DecryptHDChain with vMasterKey = m: the seed decrypts and hashes to the ID.
DecryptHDChain(m) ==
  \/ ~IsCrypted
  \/ cryptedHDChain # NullChain /\ cryptedHDChain = m

\* CBasicKeyStore's plaintext lookups, which CCryptoKeyStore uses while it
\* is not crypted.
BasicHaveKey(id) == id \in mapKeys

BasicGetKey(id) == id \in mapKeys

BasicGetKeys == mapKeys

\* CBasicKeyStore::GetPubKey: from the key, else from the watch-only keys.
BasicGetPubKey(id) == BasicGetKey(id) \/ id \in mapWatchKeys

HaveKey(id) ==
  IF IsCrypted THEN id \in DOMAIN mapCryptedKeys ELSE BasicHaveKey(id)

GetKey(id) ==
  IF IsCrypted THEN id \in DOMAIN mapCryptedKeys /\ DecryptKey(vMasterKey, id)
               ELSE BasicGetKey(id)

\* CCryptoKeyStore::GetPubKey falls back to the watch-only keys.
GetPubKey(id) ==
  IF IsCrypted THEN id \in DOMAIN mapCryptedKeys \/ id \in mapWatchKeys
               ELSE BasicGetPubKey(id)

GetKeys == IF IsCrypted THEN DOMAIN mapCryptedKeys ELSE BasicGetKeys

GetDecryptedHDChain ==
  IsCrypted /\ DecryptHDChain(vMasterKey) /\ cryptedHDChain # NullChain

HaveWatchOnly(s) == s \in setWatchOnly

HaveCScript(r) == r \in mapScripts

\* Mutant: SetCrypted() without the mapKeys.empty() refusal.
CanSetCryptedIgnoringKeys == TRUE

\* SetCrypted() succeeds unless plaintext keys are present.
CanSetCrypted == fUseCrypto \/ mapKeys = {}

\* The for loop over mapCryptedKeys in Unlock: <<keyPass, keyFail>>.
RECURSIVE UnlockScan(_, _, _)
UnlockScan(m, ids, keyPass) ==
  IF ids = {} THEN <<keyPass, FALSE>>
  ELSE LET id == Min(ids) IN
       IF ~DecryptKey(m, id) THEN <<keyPass, TRUE>>
       ELSE IF fDecryptionThoroughlyChecked THEN <<TRUE, FALSE>>
       ELSE UnlockScan(m, ids \ {id}, TRUE)

-----------------------------------------------------------------------------
(* Operations.                                                             *)

Init ==
  /\ fUseCrypto = FALSE
  /\ mapKeys = {}
  /\ mapCryptedKeys = <<>>
  /\ vMasterKey = NoKey
  /\ fDecryptionThoroughlyChecked = FALSE
  /\ cryptedHDChain = NullChain
  /\ setWatchOnly = {}
  /\ mapWatchKeys = {}
  /\ mapScripts = {}
  /\ notifiedLocked = FALSE
  /\ aborted = FALSE
  /\ loading = TRUE

Running == ~aborted

\* Lock(): SetCrypted, clear vMasterKey, NotifyStatusChanged.
Lock ==
  /\ Running /\ ~loading
  /\ CanSetCrypted
  /\ fUseCrypto' = TRUE
  /\ vMasterKey' = NoKey
  /\ notifiedLocked' = TRUE
  /\ UNCHANGED <<mapKeys, mapCryptedKeys, fDecryptionThoroughlyChecked,
                 cryptedHDChain, setWatchOnly, mapWatchKeys, mapScripts,
                 aborted, loading>>

\* Unlock(vMasterKeyIn): one action per way the call ends.  All but the
\* first run SetCrypted() successfully.
UnlockUnchanged == UNCHANGED <<mapKeys, mapCryptedKeys, cryptedHDChain,
                               setWatchOnly, mapWatchKeys, mapScripts, loading>>

\* Mutant: the scan stops after the first key even on the first Unlock.
UnlockScanFirstOnly(m) ==
  IF DOMAIN mapCryptedKeys = {} THEN <<FALSE, FALSE>>
  ELSE IF DecryptKey(m, Min(DOMAIN mapCryptedKeys)) THEN <<TRUE, FALSE>>
  ELSE <<FALSE, TRUE>>

UnlockScanOf(m) == UnlockScan(m, DOMAIN mapCryptedKeys, FALSE)

\* "Some keys decrypt but not all": assert(false) ends the process.
UnlockAssert(m) ==
  /\ Running /\ ~loading /\ CanSetCrypted
  /\ UnlockScanOf(m) = <<TRUE, TRUE>>
  /\ fUseCrypto' = TRUE
  /\ aborted' = TRUE
  /\ UnlockUnchanged
  /\ UNCHANGED <<vMasterKey, fDecryptionThoroughlyChecked, notifiedLocked>>

\* keyFail, or no key decrypted and there is no HD chain to check.
UnlockRejected(m) ==
  /\ Running /\ ~loading /\ CanSetCrypted
  /\ LET r == UnlockScanOf(m) IN
       /\ ~(r[1] /\ r[2])
       /\ r[2] \/ (~r[1] /\ cryptedHDChain = NullChain)
  /\ fUseCrypto' = TRUE
  /\ UnlockUnchanged
  /\ UNCHANGED <<vMasterKey, fDecryptionThoroughlyChecked, notifiedLocked,
                 aborted>>

\* The keys pass, vMasterKey is set to the candidate, the HD chain does not
\* decrypt under it: vMasterKey.clear(), return false, no notification.
UnlockChainMismatch(m) ==
  /\ Running /\ ~loading /\ CanSetCrypted
  /\ LET r == UnlockScanOf(m) IN ~r[2] /\ (r[1] \/ cryptedHDChain # NullChain)
  /\ cryptedHDChain # NullChain /\ cryptedHDChain # m
  /\ fUseCrypto' = TRUE
  /\ vMasterKey' = NoKey
  /\ UnlockUnchanged
  /\ UNCHANGED <<fDecryptionThoroughlyChecked, notifiedLocked, aborted>>

UnlockOk(m) ==
  /\ Running /\ ~loading /\ CanSetCrypted
  /\ LET r == UnlockScanOf(m) IN ~r[2] /\ (r[1] \/ cryptedHDChain # NullChain)
  /\ cryptedHDChain \in {NullChain, m}
  /\ fUseCrypto' = TRUE
  /\ vMasterKey' = m
  /\ fDecryptionThoroughlyChecked' = TRUE
  /\ notifiedLocked' = FALSE
  /\ UnlockUnchanged
  /\ UNCHANGED aborted

Unlock(m) ==
  \/ UnlockAssert(m) \/ UnlockRejected(m)
  \/ UnlockChainMismatch(m) \/ UnlockOk(m)

\* AddCryptedKey(pubkey, ciphertext): SetCrypted, store, and
\* ImplicitlyLearnRelatedKeyScripts (which only asserts HaveKey).
AddCryptedKey(id, m) ==
  /\ CanSetCrypted
  /\ fUseCrypto' = TRUE
  /\ mapCryptedKeys' = (id :> m) @@ mapCryptedKeys
  /\ UNCHANGED <<mapKeys, vMasterKey, fDecryptionThoroughlyChecked,
                 cryptedHDChain, setWatchOnly, mapWatchKeys, mapScripts,
                 notifiedLocked, aborted, loading>>

\* ImplicitlyLearnRelatedKeyScripts: "Right now there are none so do
\* nothing".
ImplicitlyLearnRelatedKeyScripts == UNCHANGED mapScripts

\* CBasicKeyStore::AddKeyPubKey: the key into mapKeys.
BasicAddKeyPubKey(id) ==
  /\ mapKeys' = mapKeys \cup {id}
  /\ ImplicitlyLearnRelatedKeyScripts
  /\ UNCHANGED <<fUseCrypto, mapCryptedKeys, vMasterKey,
                 fDecryptionThoroughlyChecked, cryptedHDChain, setWatchOnly,
                 mapWatchKeys, notifiedLocked, aborted, loading>>

\* Mutant: AddKeyPubKey without the IsLocked() refusal.
AddKeyPubKeyWhenLocked(id) ==
  /\ Running /\ ~loading
  /\ IF ~IsCrypted
       THEN BasicAddKeyPubKey(id)
       ELSE AddCryptedKey(id, vMasterKey)

\* AddKeyPubKey(key, pubkey): plaintext store when not crypted, refused when
\* locked, otherwise encrypted under vMasterKey and passed to AddCryptedKey.
AddKeyPubKey(id) ==
  /\ Running /\ ~loading
  /\ ~IsLocked
  /\ IF ~IsCrypted
       THEN BasicAddKeyPubKey(id)
       ELSE AddCryptedKey(id, vMasterKey)

\* CWallet::LoadCryptedKey for a "ckey" record: whatever the file holds.
LoadCryptedKey(id, m) ==
  /\ Running /\ loading
  /\ AddCryptedKey(id, m)

\* SetCryptedHDChain(chain) for a "chdchain" record.  SetCrypted runs first,
\* then a chain without fCrypted is refused.
SetCryptedHDChain(c) ==
  /\ Running /\ loading
  /\ CanSetCrypted
  /\ fUseCrypto' = TRUE
  /\ cryptedHDChain' = IF c = PlainChain THEN cryptedHDChain ELSE c
  /\ UNCHANGED <<mapKeys, mapCryptedKeys, vMasterKey,
                 fDecryptionThoroughlyChecked, setWatchOnly, mapWatchKeys,
                 mapScripts, notifiedLocked, aborted, loading>>

\* EncryptHDChain(vMasterKeyIn, hdc): SetCrypted() with its result ignored,
\* then the chain is encrypted under vMasterKeyIn.  The caller passes the
\* store's own master key: the unlocked one, or any while none is set.
\* EncryptSecret of the seed fails when the key does not fit the crypter,
\* and then returns false with only SetCrypted done; the mnemonic's
\* EncryptSecret uses the same key, so it fails only when the seed's did.
EncryptHDChain(m) ==
  /\ Running /\ ~loading
  /\ vMasterKey \in {NoKey, m}
  /\ fUseCrypto' = CanSetCrypted
  /\ cryptedHDChain' \in {m, cryptedHDChain}
  /\ UNCHANGED <<mapKeys, mapCryptedKeys, vMasterKey,
                 fDecryptionThoroughlyChecked, setWatchOnly, mapWatchKeys,
                 mapScripts, notifiedLocked, aborted, loading>>

WatchUnchanged == UNCHANGED <<fUseCrypto, mapKeys, mapCryptedKeys, vMasterKey,
                    fDecryptionThoroughlyChecked, cryptedHDChain, mapScripts,
                    notifiedLocked, aborted, loading>>

\* The pubkeys ExtractPubKey finds in a set of scripts.
WatchPubKeys(S) == {PubKeyOf[s] : s \in S} \ {NoPubKey}

AddWatchOnly(s) ==
  /\ Running
  /\ setWatchOnly' = setWatchOnly \cup {s}
  /\ mapWatchKeys' = mapWatchKeys \cup WatchPubKeys({s})
  /\ WatchUnchanged

RemoveWatchOnly(s) ==
  /\ Running /\ ~loading
  /\ setWatchOnly' = setWatchOnly \ {s}
  /\ mapWatchKeys' = mapWatchKeys \ WatchPubKeys({s})
  /\ WatchUnchanged

\* AddCScript refuses scripts above MAX_SCRIPT_ELEMENT_SIZE.
AddCScript(r) ==
  /\ Running
  /\ r \notin OversizedScripts
  /\ mapScripts' = mapScripts \cup {r}
  /\ UNCHANGED <<fUseCrypto, mapKeys, mapCryptedKeys, vMasterKey,
                 fDecryptionThoroughlyChecked, cryptedHDChain, setWatchOnly,
                 mapWatchKeys, notifiedLocked, aborted, loading>>

\* LoadWallet returns; the wallet is in use from now on.
FinishLoading ==
  /\ Running /\ loading
  /\ loading' = FALSE
  /\ UNCHANGED <<fUseCrypto, mapKeys, mapCryptedKeys, vMasterKey,
                 fDecryptionThoroughlyChecked, cryptedHDChain, setWatchOnly,
                 mapWatchKeys, mapScripts, notifiedLocked, aborted>>

\* After assert(false) the process is gone.
Aborted == aborted /\ UNCHANGED vars

Next ==
  \/ Lock \/ FinishLoading \/ Aborted
  \/ \E m \in MasterKeys : Unlock(m) \/ EncryptHDChain(m)
  \/ \E id \in KeyIds : AddKeyPubKey(id)
  \/ \E id \in KeyIds, m \in MasterKeys : LoadCryptedKey(id, m)
  \/ \E c \in Chains \cup {PlainChain} : SetCryptedHDChain(c)
  \/ \E s \in Scripts : AddWatchOnly(s) \/ RemoveWatchOnly(s)
  \/ \E r \in RedeemScripts : AddCScript(r)

Spec == Init /\ [][Next]_vars

-----------------------------------------------------------------------------
(* Properties.                                                             *)

TypeOK ==
  /\ fUseCrypto \in BOOLEAN
  /\ mapKeys \subseteq KeyIds
  /\ DOMAIN mapCryptedKeys \subseteq KeyIds
  /\ \A id \in DOMAIN mapCryptedKeys : mapCryptedKeys[id] \in MasterKeys
  /\ vMasterKey \in MasterKeys \cup {NoKey}
  /\ fDecryptionThoroughlyChecked \in BOOLEAN
  /\ cryptedHDChain \in Chains
  /\ setWatchOnly \subseteq Scripts
  /\ mapWatchKeys \subseteq KeyIds
  /\ mapScripts \subseteq RedeemScripts
  /\ {notifiedLocked, aborted, loading} \subseteq BOOLEAN

\* Whatever ckey and chdchain records the wallet file held, once Unlock has
\* accepted a master key, GetKey returns every crypted key and
\* GetDecryptedHDChain returns the chain.  This rests on Unlock's first scan
\* going through all keys (fDecryptionThoroughlyChecked), on the keyPass &&
\* keyFail assert and on the seed check that clears vMasterKey again.
UnlockedKeyOpensEverything ==
  vMasterKey # NoKey =>
    /\ \A id \in DOMAIN mapCryptedKeys : GetKey(id)
    /\ cryptedHDChain # NullChain => GetDecryptedHDChain

\* The store implements KeyStoreSpec: plain until it turns crypted while
\* empty, keys never lost (HaveKey switches from mapKeys to mapCryptedKeys
\* only when mapKeys is empty), and no key added while locked after load.
Abs == INSTANCE KeyStoreSpec
         WITH mode <- IF ~fUseCrypto THEN "plain"
                      ELSE IF vMasterKey = NoKey THEN "locked" ELSE "unlocked",
              keys <- GetKeys

ImplementsKeyStoreSpec == Abs!Spec

\* RemoveWatchOnly(dest) erases the pubkey of dest from mapWatchKeys even
\* when another watched script carries the same pubkey, so GetPubKey then
\* fails for a key that is still watched.
WatchKeysTrackWatchedScripts == mapWatchKeys = WatchPubKeys(setWatchOnly)

\* A crypted HD chain lives only in a crypted store: otherwise Unlock's
\* SetCrypted fails and GetDecryptedHDChain returns false for ever.
\* EncryptHDChain ignores the result of SetCrypted().
HDChainOnlyInCryptedStore == cryptedHDChain # NullChain => fUseCrypto
=============================================================================


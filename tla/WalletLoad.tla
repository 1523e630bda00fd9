----------------------------- MODULE WalletLoad -----------------------------
(***************************************************************************)
(* CWalletDB::LoadWallet and ReadKeyValue (src/wallet/walletdb.cpp) read   *)
(* one wallet file into a CryptoKeyStore.                                  *)
(*                                                                         *)
(* The file is a set of records [type, id, val, ok]; "ok" is FALSE for a  *)
(* record that fails to deserialise or to validate (an invalid pubkey, a   *)
(* transaction that fails CheckTransaction, ...).  "val" is the decoded   *)
(* value: the master key of a ckey or chdchain, nOrderPos of a tx or       *)
(* acentry (-1 for unordered), fYes of a watchs record (1 for '1'), the    *)
(* version number of a version or minversion record.  The cursor returns   *)
(* records in Berkeley DB key order: by the serialised type string (its    *)
(* length byte first), then by id.  LoadWallet holds cs_wallet and runs    *)
(* before the wallet is shared, so one record is one step.                 *)
(***************************************************************************)
EXTENDS Integers, FiniteSets, TLC

CONSTANTS
  KeyIds, MasterKeys, NoKey, NullChain, PlainChain, Scripts, PubKeyOf,
  NoPubKey, RedeemScripts, OversizedScripts,
  Files,           \* the wallet files LoadWallet may be given
  CLIENT_VERSION

VARIABLES
  fUseCrypto, mapKeys, mapCryptedKeys, vMasterKey,
  fDecryptionThoroughlyChecked, cryptedHDChain, setWatchOnly, mapWatchKeys,
  mapScripts, notifiedLocked, aborted, loading,
  file,                \* the records of the wallet file
  unread,              \* records the cursor has not returned yet
  wss,                 \* CWalletScanState
  fNoncriticalErrors,
  result,              \* DBErrors
  rescan,              \* -rescan soft-set by a bad "tx" record
  timeFirstKeyReset,   \* UpdateTimeFirstKey(1) was called
  wroteVersion,        \* WriteVersion(CLIENT_VERSION) was called
  phase                \* "start", "scan", "done", "thrown"

KS == INSTANCE CryptoKeyStore

ksVars == <<fUseCrypto, mapKeys, mapCryptedKeys, vMasterKey,
            fDecryptionThoroughlyChecked, cryptedHDChain, setWatchOnly,
            mapWatchKeys, mapScripts, notifiedLocked, aborted, loading>>

vars == <<ksVars, file, unread, wss, fNoncriticalErrors, result, rescan,
          timeFirstKeyReset, wroteVersion, phase>>

DBErrors == {"LOAD_OK", "CORRUPT", "NONCRITICAL_ERROR", "TOO_NEW",
             "LOAD_FAIL", "NEED_REWRITE"}

\* Berkeley DB order of the record types (length-prefixed strings).
TypeRank ==
  ("tx" :> 1) @@ ("ckey" :> 2) @@ ("mkey" :> 3) @@ ("watchs" :> 4) @@
  ("acentry" :> 5) @@ ("keymeta" :> 6) @@ ("version" :> 7) @@
  ("chdchain" :> 8) @@ ("hdpubkey" :> 9) @@ ("watchmeta" :> 10) @@
  ("defaultkey" :> 11) @@ ("minversion" :> 12)

Before(r, q) ==
  \/ r = q
  \/ TypeRank[r.type] < TypeRank[q.type]
  \/ TypeRank[r.type] = TypeRank[q.type] /\ r.id \in Nat /\ q.id \in Nat
                                         /\ r.id =< q.id

NextRecord == CHOOSE r \in unread : \A q \in unread : Before(r, q)

\* Mutant: a failed "ckey" record treated as a noncritical error.
IsKeyTypeWithoutCKey(t) == t \in {"mkey", "chdchain"}

IsKeyType(t) == t \in {"mkey", "chdchain", "ckey"}

-----------------------------------------------------------------------------
Init ==
  /\ KS!Init
  /\ file \in Files
  /\ unread = file
  /\ wss = [nCKeys |-> 0, nWatchKeys |-> 0, nKeyMeta |-> 0,
            fIsEncrypted |-> FALSE, fAnyUnordered |-> FALSE, nFileVersion |-> 0]
  /\ fNoncriticalErrors = FALSE
  /\ result = "LOAD_OK"
  /\ rescan = FALSE
  /\ timeFirstKeyReset = FALSE
  /\ wroteVersion = FALSE
  /\ phase = "start"

\* CWalletDB::RecoverKeysOnlyFilter: a salvaged record is kept when it is
\* of a key type or "hdpubkey" and ReadKeyValue reads it into an empty
\* dummy wallet, where only a chain without fCrypted is refused.
RecoverKeysOnlyFilter(r) ==
  /\ IsKeyType(r.type) \/ r.type = "hdpubkey"
  /\ r.ok
  /\ ~(r.type = "chdchain" /\ r.val = PlainChain)

\* -salvagewallet: CWalletDB::Recover rewrites the file before it is loaded,
\* keeping the records the filter accepts.
Salvage ==
  /\ phase = "start"
  /\ \E r \in file : ~RecoverKeysOnlyFilter(r)
  /\ file' = {r \in file : RecoverKeysOnlyFilter(r)}
  /\ unread' = file'
  /\ UNCHANGED <<ksVars, wss, fNoncriticalErrors, result, rescan,
                 timeFirstKeyReset, wroteVersion, phase>>

\* The "minversion" record is read before the cursor is opened.
MinVersionTooNew ==
  \E r \in file : r.type = "minversion" /\ r.val > CLIENT_VERSION

StartLoad ==
  /\ phase = "start"
  /\ IF MinVersionTooNew
       THEN result' = "TOO_NEW" /\ phase' = "done"
       ELSE phase' = "scan" /\ UNCHANGED result
  /\ UNCHANGED <<ksVars, file, unread, wss, fNoncriticalErrors, rescan,
                 timeFirstKeyReset, wroteVersion>>

\* GetCursor or ReadAtCursor fails: LoadWallet returns CORRUPT at once.
CursorError ==
  /\ phase = "scan" /\ unread # {}
  /\ result' = "CORRUPT"
  /\ phase' = "done"
  /\ UNCHANGED <<ksVars, file, unread, wss, fNoncriticalErrors, rescan,
                 timeFirstKeyReset, wroteVersion>>

\* LoadWallet's reaction to ReadKeyValue returning false for type t.
RecordFailed(t) ==
  IF IsKeyType(t) \/ t = "defaultkey"
    THEN result' = "CORRUPT" /\ UNCHANGED <<fNoncriticalErrors, rescan>>
    ELSE /\ fNoncriticalErrors' = TRUE
         /\ rescan' = (rescan \/ t = "tx")
         /\ UNCHANGED result

RecordRead == UNCHANGED <<result, fNoncriticalErrors, rescan>>

\* One loop iteration: the record is consumed whatever happens to it.
Consume(r) ==
  /\ phase = "scan" /\ unread # {} /\ r = NextRecord
  /\ unread' = unread \ {r}
  /\ UNCHANGED <<file, timeFirstKeyReset, wroteVersion, phase>>

WssUnchanged == UNCHANGED wss

\* "ckey": an invalid pubkey fails before nCKeys++; LoadCryptedKey fails
\* only if SetCrypted() refuses.
ReadCKey(r) ==
  /\ r.type = "ckey"
  /\ IF ~r.ok THEN RecordFailed("ckey") /\ WssUnchanged /\ UNCHANGED ksVars
     ELSE IF KS!CanSetCrypted
       THEN /\ KS!LoadCryptedKey(r.id, r.val)
            /\ wss' = [wss EXCEPT !.nCKeys = @ + 1, !.fIsEncrypted = TRUE]
            /\ RecordRead
       ELSE /\ wss' = [wss EXCEPT !.nCKeys = @ + 1]
            /\ RecordFailed("ckey") /\ UNCHANGED ksVars

\* "chdchain": SetCryptedHDChain refuses a chain without fCrypted.
ReadCHDChain(r) ==
  /\ r.type = "chdchain"
  /\ WssUnchanged
  /\ IF r.ok /\ KS!CanSetCrypted
       THEN /\ KS!SetCryptedHDChain(r.val)
            /\ IF r.val = PlainChain THEN RecordFailed("chdchain")
                                     ELSE RecordRead
       ELSE RecordFailed("chdchain") /\ UNCHANGED ksVars

\* "watchs": counted before the record is decoded; loaded when fYes == '1'.
ReadWatchs(r) ==
  /\ r.type = "watchs"
  /\ wss' = [wss EXCEPT !.nWatchKeys = @ + 1]
  /\ IF ~r.ok THEN RecordFailed("watchs") /\ UNCHANGED ksVars
     ELSE /\ RecordRead
          /\ IF r.val = 1 THEN KS!AddWatchOnly(r.id) ELSE UNCHANGED ksVars

\* Records that touch only the scan state.  An "acentry" value is decoded
\* only while no unordered entry has been seen.
ReadScanOnly(r) ==
  /\ r.type \in {"tx", "acentry", "keymeta", "watchmeta", "version",
                 "defaultkey", "hdpubkey", "mkey", "minversion"}
  /\ UNCHANGED ksVars
  /\ LET decoded == ~(r.type = "acentry" /\ wss.fAnyUnordered) IN
     IF decoded /\ ~r.ok
       THEN RecordFailed(r.type) /\ WssUnchanged
       ELSE /\ RecordRead
            /\ wss' = CASE r.type \in {"tx", "acentry"} /\ decoded
                             /\ r.val = -1
                               -> [wss EXCEPT !.fAnyUnordered = TRUE]
                        [] r.type \in {"keymeta", "watchmeta"}
                               -> [wss EXCEPT !.nKeyMeta = @ + 1]
                        [] r.type = "version"
                               -> [wss EXCEPT !.nFileVersion =
                                     IF r.val = 10300 THEN 300 ELSE r.val]
                        [] OTHER -> wss

ReadRecord ==
  \E r \in unread :
    /\ Consume(r)
    /\ \/ ReadCKey(r) \/ ReadCHDChain(r) \/ ReadWatchs(r)
       \/ ReadScanOnly(r)

\* After the cursor: classify, then (only for a clean load) the metadata
\* check, the 0.4/0.5 rewrite test, WriteVersion and ReorderTransactions.
FinishLoadWallet ==
  /\ phase = "scan" /\ unread = {}
  /\ LET res == IF fNoncriticalErrors /\ result = "LOAD_OK"
                  THEN "NONCRITICAL_ERROR" ELSE result IN
     IF res # "LOAD_OK"
       THEN /\ result' = res /\ phase' = "done"
            /\ UNCHANGED <<timeFirstKeyReset, wroteVersion>>
       ELSE
         /\ timeFirstKeyReset' = (wss.nCKeys + wss.nWatchKeys # wss.nKeyMeta)
         /\ IF wss.fIsEncrypted /\ wss.nFileVersion \in {40000, 50000}
              THEN result' = "NEED_REWRITE" /\ phase' = "done"
                   /\ UNCHANGED wroteVersion
              ELSE /\ wroteVersion' = (wss.nFileVersion < CLIENT_VERSION)
                   /\ result' \in IF wss.fAnyUnordered
                                    THEN {"LOAD_OK", "LOAD_FAIL"}
                                    ELSE {"LOAD_OK"}
                   \* ListAccountCreditDebit("*") throws on a cursor error.
                   /\ phase' \in {"done", "thrown"}
  /\ UNCHANGED <<ksVars, file, unread, wss, fNoncriticalErrors, rescan>>

\* CreateWalletFromFile goes on with the wallet after LOAD_OK or
\* NONCRITICAL_ERROR; the key store leaves its loading phase.
UseWallet ==
  /\ phase = "done" /\ loading
  /\ result \in {"LOAD_OK", "NONCRITICAL_ERROR"}
  /\ KS!FinishLoading
  /\ UNCHANGED <<file, unread, wss, fNoncriticalErrors, result, rescan,
                 timeFirstKeyReset, wroteVersion, phase>>

\* LoadWallet returned a result the node does not go on with, or threw.
Returned ==
  /\ \/ phase = "done" /\ ~(loading /\ result \in {"LOAD_OK", "NONCRITICAL_ERROR"})
     \/ phase = "thrown"
  /\ UNCHANGED vars

Next ==
  \/ Salvage \/ StartLoad \/ CursorError \/ ReadRecord \/ FinishLoadWallet
  \/ UseWallet \/ Returned

Spec == Init /\ [][Next]_vars

-----------------------------------------------------------------------------
(* Properties.                                                             *)

\* The file holds ckey / chdchain records, all made under master key m.
ConsistentUnder(m) ==
  LET kr == {r \in file : r.type \in {"ckey", "chdchain"}}
  IN kr # {} /\ \A r \in kr : r.val = m

\* "Losing keys is considered a catastrophic error": once LoadWallet has
\* returned a result the wallet is used with, every key, the HD chain and
\* every watched script of the file (after -salvagewallet, of the
\* rewritten file) is in the key store, and a file written
\* under one master key can be unlocked with it.
LoadedWalletIsUsable ==
  phase = "done" /\ ~loading =>
    /\ \A r \in file : r.type = "ckey" => KS!HaveKey(r.id)
    /\ \A r \in file : r.type = "chdchain" => cryptedHDChain = r.val
    /\ \A r \in file : r.type = "watchs" /\ r.val = 1 => r.id \in setWatchOnly
    /\ \A m \in MasterKeys : ConsistentUnder(m) => ENABLED KS!UnlockOk(m)

\* Keys and metadata of the file do not match one to one: a ckey or
\* hdpubkey without "keymeta", a watched script without "watchmeta", or a
\* metadata record left without its key (WriteCryptedKey writes keymeta
\* first, then ckey).
KeysAndMetadataDiffer ==
  LET keyOf(t) == CASE t = "keymeta" -> {"ckey", "hdpubkey"}
                    [] t = "watchmeta" -> {"watchs"}
      metaOf(t) == CASE t \in {"ckey", "hdpubkey"} -> "keymeta"
                     [] t = "watchs" -> "watchmeta"
  IN \E r \in file :
       \/ r.type \in {"ckey", "hdpubkey", "watchs"} /\
            ~\E q \in file : q.type = metaOf(r.type) /\ q.id = r.id
       \/ r.type \in {"keymeta", "watchmeta"} /\
            ~\E q \in file : q.type \in keyOf(r.type) /\ q.id = r.id

\* "nTimeFirstKey is only reliable if all keys have metadata": LoadWallet
\* resets it with UpdateTimeFirstKey(1) only when keys and metadata records
\* do not match.  HD pubkeys are written with a keymeta record, which
\* nKeyMeta counts, while "hdpubkey" records add nothing to
\* nKeys + nCKeys + nWatchKeys.
TimeFirstKeyResetOnlyWithoutMetadata ==
  timeFirstKeyReset => KeysAndMetadataDiffer
=============================================================================

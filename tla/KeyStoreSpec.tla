---------------------------- MODULE KeyStoreSpec ----------------------------
(***************************************************************************)
(* What a wallet key store promises, without any cryptography.             *)
(*                                                                         *)
(* A store is "plain" (keys kept in the clear), or crypted and then either *)
(* "locked" or "unlocked".  It leaves plain mode only while it holds no    *)
(* plain key and never returns to it.  Keys are never forgotten.  Once the *)
(* wallet file has been read, keys can only be added to a plain or an      *)
(* unlocked store.                                                         *)
(***************************************************************************)
CONSTANTS KeyIds

VARIABLES mode, keys, loading

absVars == <<mode, keys, loading>>

Modes == {"plain", "locked", "unlocked"}

TypeOK ==
  /\ mode \in Modes
  /\ keys \subseteq KeyIds
  /\ loading \in BOOLEAN

Init ==
  /\ mode = "plain"
  /\ keys = {}
  /\ loading = TRUE

\* A plain store without keys may turn crypted (locked) at any time.
BecomeCrypted ==
  /\ mode = "plain" /\ keys = {}
  /\ mode' = "locked"
  /\ UNCHANGED <<keys, loading>>

AddPlainKey(k) ==
  /\ mode = "plain"
  /\ keys' = keys \cup {k}
  /\ UNCHANGED <<mode, loading>>

\* A crypted key comes from the wallet file, or is added while unlocked.
AddCryptedKey(k) ==
  /\ mode # "plain" \/ keys = {}
  /\ loading \/ mode = "unlocked"
  /\ mode' = IF mode = "plain" THEN "locked" ELSE mode
  /\ keys' = keys \cup {k}
  /\ UNCHANGED loading

Unlock ==
  /\ ~loading
  /\ mode = "locked" \/ (mode = "plain" /\ keys = {})
  /\ mode' = "unlocked"
  /\ UNCHANGED <<keys, loading>>

Lock ==
  /\ mode # "plain" \/ keys = {}
  /\ mode' = "locked"
  /\ UNCHANGED <<keys, loading>>

FinishLoading ==
  /\ loading
  /\ loading' = FALSE
  /\ UNCHANGED <<mode, keys>>

Next ==
  \/ BecomeCrypted \/ Unlock \/ Lock \/ FinishLoading
  \/ \E k \in KeyIds : AddPlainKey(k) \/ AddCryptedKey(k)

Spec == Init /\ [][Next]_absVars
=============================================================================

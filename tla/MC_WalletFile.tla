---------------------------- MODULE MC_WalletFile ----------------------------
(***************************************************************************)
(* The "tx" and the "acentry" records of one wallet file.  No call of one  *)
(* kind reads or writes records of the other: FindWalletTx skips records   *)
(* that are not "tx", and ListAccountCreditDebit's cursor starts among     *)
(* the "acentry" keys, which all sort after the "tx" ones.  So each kind   *)
(* is checked in behaviours of its own (part), with the other kind's       *)
(* records as Init left them.                                              *)
(***************************************************************************)
EXTENDS Integers, Sequences, TLC

CONSTANTS TxIds, MaxIn, UIntBits

VARIABLES fileWtx, txIdsOut, vWtx, result, call,
          fileAcentry, written, entries, nCreditDebit, acctCall, part

zapVars == <<fileWtx, txIdsOut, vWtx, result, call>>
acctVars == <<fileAcentry, written, entries, nCreditDebit, acctCall>>

(* Three transaction ids and four wallet transactions (ids 1 and 2 may   *)
(* be written as either of two) that use every metadata field: user keys   *)
(* of mapValue (none, "comment", "to", "replaces_txid", an empty value),   *)
(* an empty and a named account, an unordered (-1), a first (0) and a      *)
(* two-digit order position, and no, a small and the largest unsigned      *)
(* smart time.                                                             *)
NoMap == [k \in {} |-> <<>>]

W1 == [mapValue |-> NoMap, strFromAccount |-> <<>>,
       nOrderPos |-> -1, nTimeSmart |-> 0]
W2 == [mapValue |-> "comment" :> <<"x">>, strFromAccount |-> <<"a">>,
       nOrderPos |-> 12, nTimeSmart |-> 2^UIntBits - 1]
W3 == [mapValue |-> "to" :> <<"y">>, strFromAccount |-> <<>>,
       nOrderPos |-> 0, nTimeSmart |-> 0]
W4 == [mapValue |-> ("comment" :> <<>>) @@ ("replaces_txid" :> <<"x">>),
       strFromAccount |-> <<"a">>, nOrderPos |-> -1, nTimeSmart |-> 7]

MCWalletTxsOf == (1 :> {W1, W2}) @@ (2 :> {W3, W4}) @@ (3 :> {W2})

Z == INSTANCE WalletZap WITH WalletTxsOf <- MCWalletTxsOf

(* Three accounts: the empty name, which only "*" reaches from its start   *)
(* key, and two names whose keys are adjacent.  Entry numbers 1 and 256,   *)
(* whose little-endian keys put 256 first.  Entries with and without an    *)
(* order position, a comment, another account and a user key of mapValue. *)
MCAccounts == {<<>>, <<"a">>, <<"b">>}

MCEntryNos == {1, 256}

MCTypeName == ("acentry" :> <<"a", "c", "e", "n", "t", "r", "y">>) @@
              ("tx" :> <<"t", "x">>) @@
              ("version" :> <<"v", "e", "r", "s", "i", "o", "n">>)

MCBytes == ("*" :> 42) @@ ("a" :> 97) @@ ("b" :> 98) @@ ("c" :> 99) @@
           ("e" :> 101) @@ ("i" :> 105) @@ ("n" :> 110) @@ ("o" :> 111) @@
           ("r" :> 114) @@ ("s" :> 115) @@ ("t" :> 116) @@ ("v" :> 118) @@
           ("x" :> 120) @@ ("y" :> 121)

\* A CAccountingEntry after SetNull, before the caller sets its fields.
MCNull ==
  [strAccount |-> <<>>, nCreditDebit |-> 0, nTime |-> 0,
   strOtherAccount |-> <<>>, strComment |-> <<>>, mapValue |-> NoMap,
   nOrderPos |-> -1, nEntryNo |-> 0]

MCAcEntries ==
  {[MCNull EXCEPT !.nCreditDebit = 5, !.strComment = <<"c">>,
                     !.nOrderPos = 3],
   [MCNull EXCEPT !.strAccount = <<"a">>, !.nCreditDebit = -2,
                     !.nTime = 9, !.strOtherAccount = <<"b">>],
   [MCNull EXCEPT !.strAccount = <<"a">>, !.nCreditDebit = 1,
                     !.nOrderPos = 0],
   [MCNull EXCEPT !.strAccount = <<"b">>, !.nCreditDebit = 4,
                     !.mapValue = "to" :> <<"y">>, !.nOrderPos = 12]}

A == INSTANCE WalletAccounting
       WITH Accounts <- MCAccounts, EntryNos <- MCEntryNos,
            AcEntries <- MCAcEntries, OtherTypes <- {"tx", "version"},
            TypeName <- MCTypeName, Bytes <- MCBytes

Init ==
  \/ part = "tx" /\ Z!Init /\ A!Init
  \/ part = "acentry" /\ Z!Init /\ DOMAIN fileWtx = {} /\ A!Init

Next ==
  \/ part = "tx" /\ Z!Next /\ UNCHANGED <<acctVars, part>>
  \/ part = "acentry" /\ A!Next /\ UNCHANGED <<zapVars, part>>

Spec == Init /\ [][Next]_<<zapVars, acctVars, part>>

-----------------------------------------------------------------------------
(* The properties of the two modules (their statements are there).         *)

\* ZapSelectTx erases exactly the selected transactions present, whatever
\* order and repeats txIdsIn had and whichever erases failed.
ZapSelectTxErasesExactlyTheSelection == Z!ZapSelectTxErasesExactlyTheSelection

\* The transactions ZapWalletTx returns carry the metadata they were
\* written with, through CWalletTx::Serialize and Unserialize.
ZapWalletTxReturnsWrittenTxs == Z!ZapWalletTxReturnsWrittenTxs

\* ListAccountCreditDebit returns each entry of the account once, as it was
\* written, and GetAccountCreditDebit sums exactly their amounts.
AccountEntriesAsWritten == A!AccountEntriesAsWritten
=============================================================================

--------------------------- MODULE WalletAccounting ---------------------------
(***************************************************************************)
(* Internal transfers kept in the wallet file (src/wallet/wallet.h,        *)
(* CAccountingEntry; src/wallet/walletdb.cpp, WriteAccountingEntry,        *)
(* ListAccountCreditDebit, GetAccountCreditDebit).                         *)
(*                                                                         *)
(* An entry's record is keyed ("acentry", (strAccount, nEntryNo)) and its  *)
(* value holds nCreditDebit, nTime, strOtherAccount and a comment string   *)
(* that carries, after a '\0', the serialised mapValue with the order      *)
(* position under "n".  ListAccountCreditDebit walks a BDB cursor from the *)
(* first key at or after ("acentry", (account, 0)), or ("acentry", ("",   *)
(* 0)) for "*", and stops at the first key of another type or account.     *)
(*                                                                         *)
(* The cursor follows the keys' serialised bytes: a string is its length   *)
(* then its bytes, nEntryNo is eight little-endian bytes.  Account names  *)
(* and comments are sequences of one-character strings without '\0'.     *)
(***************************************************************************)
EXTENDS Integers, Sequences, SequencesExt, Functions, FiniteSets, WalletTx

CONSTANTS
  Accounts,     \* account names entries are written under (not "*")
  EntryNos,     \* nAccEntryNum values, below 2^16
  AcEntries,    \* entries a caller writes: the fields it sets
  OtherTypes,   \* record types of the file other than "acentry"
  TypeName,     \* record type -> its characters
  Bytes         \* character -> its byte value

VARIABLES
  fileAcentry,  \* the "acentry" records: [acct, n] -> serialised value
  written,      \* history: [acct, n] -> the entry written there last
  entries,      \* the list the last ListAccountCreditDebit filled
  nCreditDebit, \* the last GetAccountCreditDebit's result (0 if none)
  acctCall      \* the last call: kind, account, outcome

acctVars == <<fileAcentry, written, entries, nCreditDebit, acctCall>>

AllAccounts == <<"*">>

NoAcctCall == [kind |-> "none", acct |-> AllAccounts, result |-> "ok"]

\* CAccountingEntry::SetNull.
SetNull ==
  [strAccount |-> <<>>, nCreditDebit |-> 0, nTime |-> 0,
   strOtherAccount |-> <<>>, strComment |-> <<>>,
   mapValue |-> [k \in {} |-> <<>>], nOrderPos |-> -1, nEntryNo |-> 0]

\* CAccountingEntry::Serialize (strAccount is in the key, not the value).
SerializeAcentry(e) ==
  LET mapValueCopy == WriteOrderPos(e.nOrderPos, e.mapValue)
  IN [nCreditDebit |-> e.nCreditDebit, nTime |-> e.nTime,
      strOtherAccount |-> e.strOtherAccount,
      \* strCommentCopy: the comment, then '\0' and the map unless it is empty
      comment |-> [text |-> e.strComment,
                   tail |-> IF DOMAIN mapValueCopy # {} THEN <<mapValueCopy>>
                                                        ELSE <<>>]]

\* CAccountingEntry::Unserialize: the map after the first '\0' of the
\* comment, the order position out of it, the comment cut at the '\0',
\* then mapValue.erase("n").
UnserializeAcentry(v, e) ==
  LET m == IF v.comment.tail = <<>> THEN [k \in {} |-> <<>>]
                                     ELSE Head(v.comment.tail)
  IN [e EXCEPT !.nCreditDebit = v.nCreditDebit, !.nTime = v.nTime,
               !.strOtherAccount = v.strOtherAccount,
               !.strComment = v.comment.text,
               !.mapValue = Restrict(m, DOMAIN m \ {"n"}),
               !.nOrderPos = ReadOrderPos(m)]

-----------------------------------------------------------------------------
(* The cursor's key order.                                                 *)

\* A serialised std::string: its length, then its bytes.
StrBytes(s) == <<Len(s)>> \o [i \in DOMAIN s |-> Bytes[s[i]]]

\* A uint64 below 2^16, little-endian (the six high bytes are zero).
LEBytes(n) == <<n % 256, n \div 256, 0, 0, 0, 0, 0, 0>>

\* A key of the file: its type, and for "acentry" its account and number.
AcentryKey(a, n) == [type |-> "acentry", acct |-> a, n |-> n]

OtherKey(t) == [type |-> t, acct |-> <<>>, n |-> 0]

\* BDB's default comparison: bytewise, a proper prefix first.
RECURSIVE BytesLess(_, _)
BytesLess(a, b) ==
  IF a = <<>> \/ b = <<>> THEN a = <<>> /\ b # <<>>
  ELSE IF Head(a) # Head(b) THEN Head(a) < Head(b)
  ELSE BytesLess(Tail(a), Tail(b))

\* The bytewise order of two keys.  A serialised string starts with its
\* length, so no field's bytes are a prefix of another value's: the keys
\* compare field by field (type, then account, then nEntryNo).
KeyLess(k, l) ==
  IF k.type # l.type
    THEN BytesLess(StrBytes(TypeName[k.type]), StrBytes(TypeName[l.type]))
  ELSE IF k.type # "acentry" THEN FALSE
  ELSE IF k.acct # l.acct THEN BytesLess(StrBytes(k.acct), StrBytes(l.acct))
  ELSE BytesLess(LEBytes(k.n), LEBytes(l.n))

FileKeys ==
  {AcentryKey(d.acct, d.n) : d \in DOMAIN fileAcentry} \cup
  {OtherKey(t) : t \in OtherTypes}

\* The keys of S in order.
RECURSIVE SortKeys(_)
SortKeys(S) ==
  IF S = {} THEN <<>>
  ELSE LET first == CHOOSE k \in S : \A l \in S : ~KeyLess(l, k)
       IN <<first>> \o SortKeys(S \ {first})

\* ReadAtCursor with DB_SET_RANGE at start, then DB_NEXT: the file's keys
\* from the first at or after start, in order.
CursorFrom(start) == SortKeys({k \in FileKeys : ~KeyLess(k, start)})

\* Starts at (strAccount, 0) for "*" too, as if fAllAccounts were not
\* tested when the start key is built.
StartKeyOfNamedAccount(strAccount) == AcentryKey(strAccount, 0)

\* The first key ListAccountCreditDebit asks for.
StartKey(strAccount) ==
  AcentryKey(IF strAccount = AllAccounts THEN <<>> ELSE strAccount, 0)

\* The loop body on each record: stop at another type, or at another
\* account unless fAllAccounts; else read the entry (SetNull, strAccount
\* from the key, the value, nEntryNo from the key) and push it.
RECURSIVE ScanEntries(_, _)
ScanEntries(keys, strAccount) ==
  IF keys = <<>> THEN <<>>
  ELSE LET k == Head(keys) IN
    IF k.type # "acentry" THEN <<>>
    ELSE IF strAccount # AllAccounts /\ k.acct # strAccount THEN <<>>
    ELSE <<[UnserializeAcentry(fileAcentry[[acct |-> k.acct, n |-> k.n]],
                               [SetNull EXCEPT !.strAccount = k.acct])
              EXCEPT !.nEntryNo = k.n]>>
         \o ScanEntries(Tail(keys), strAccount)

ListedEntries(strAccount) == ScanEntries(CursorFrom(StartKey(strAccount)),
                                         strAccount)

-----------------------------------------------------------------------------

Init ==
  /\ fileAcentry = [d \in {} |-> <<>>]
  /\ written = [d \in {} |-> SetNull]
  /\ entries = <<>>
  /\ nCreditDebit = 0
  /\ acctCall = NoAcctCall

\* CWalletDB::WriteAccountingEntry: WriteIC with overwrite.
WriteAccountingEntry(nAccEntryNum, acentry) ==
  LET d == [acct |-> acentry.strAccount, n |-> nAccEntryNum] IN
  /\ fileAcentry' = (d :> SerializeAcentry(acentry)) @@ fileAcentry
  /\ written' = (d :> acentry) @@ written
  /\ acctCall' = NoAcctCall
  /\ entries' = <<>> /\ nCreditDebit' = 0

\* CWalletDB::ListAccountCreditDebit into a caller's fresh list.  No
\* cursor, or a cursor error at any read, throws with the records read so
\* far already pushed.
ListAccountCreditDebit(strAccount) ==
  LET all == ListedEntries(strAccount) IN
  /\ \/ /\ entries' = all
        /\ acctCall' = [kind |-> "list", acct |-> strAccount, result |-> "ok"]
     \/ \E k \in 0..Len(all) :
          /\ entries' = SubSeq(all, 1, k)
          /\ acctCall' = [kind |-> "list", acct |-> strAccount,
                          result |-> "error"]
  /\ nCreditDebit' = 0
  /\ UNCHANGED <<fileAcentry, written>>

\* CWalletDB::GetAccountCreditDebit: a fresh list, then the sum of its
\* nCreditDebit; an exception of ListAccountCreditDebit propagates.
GetAccountCreditDebit(strAccount) ==
  LET all == ListedEntries(strAccount) IN
  /\ \/ /\ nCreditDebit' =
             SumFunction([i \in DOMAIN all |-> all[i].nCreditDebit])
        /\ acctCall' = [kind |-> "get", acct |-> strAccount, result |-> "ok"]
     \/ /\ acctCall' = [kind |-> "get", acct |-> strAccount,
                        result |-> "error"]
        /\ nCreditDebit' = 0
  /\ entries' = <<>>
  /\ UNCHANGED <<fileAcentry, written>>

Next ==
  \/ \E n \in EntryNos, e \in AcEntries : WriteAccountingEntry(n, e)
  \/ \E a \in Accounts \cup {AllAccounts} :
        ListAccountCreditDebit(a) \/ GetAccountCreditDebit(a)

Spec == Init /\ [][Next]_acctVars

-----------------------------------------------------------------------------
(* Properties.                                                             *)

\* The entries of account a the file holds, as they were written, with
\* strAccount and nEntryNo those of their key ("*": every account).
WrittenEntries(a) ==
  {[written[d] EXCEPT !.nEntryNo = d.n] :
     d \in {d \in DOMAIN written : a = AllAccounts \/ d.acct = a}}

\* After a ListAccountCreditDebit that returned, the list holds each entry of the account exactly once, with the amount,
\* time, other account, comment, mapValue and order position it was written
\* with; after a GetAccountCreditDebit that returned, the result is the sum
\* of those entries' amounts.  The cursor must start at the right key, stop
\* at the right record, and the comment must give back the order position.
AccountEntriesAsWritten ==
  /\ acctCall.kind = "list" /\ acctCall.result = "ok" =>
       /\ ToSet(entries) = WrittenEntries(acctCall.acct)
       /\ Len(entries) = Cardinality(WrittenEntries(acctCall.acct))
  /\ acctCall.kind = "get" /\ acctCall.result = "ok" =>
       nCreditDebit =
         SumFunctionOnSet([d \in DOMAIN written |-> written[d].nCreditDebit],
                          {d \in DOMAIN written :
                             acctCall.acct = AllAccounts \/ d.acct = acctCall.acct})
=============================================================================

------------------------------ MODULE WalletZap ------------------------------
(***************************************************************************)
(* Removing transactions from the wallet file (src/wallet/walletdb.cpp,    *)
(* FindWalletTx, ZapSelectTx, ZapWalletTx).                                *)
(*                                                                         *)
(* The file's transactions are a set of ids; the BDB cursor returns them   *)
(* in key order, which is the order of std::sort on TxId (both compare the *)
(* raw bytes), so ids are integers ordered by <.  ZapSelectTx takes the    *)
(* caller's txIdsIn (any order, repeats allowed), sorts both lists and     *)
(* merges them.  Every EraseTx may fail.  A record holds the serialised   *)
(* CWalletTx (module WalletTx); FindWalletTx deserialises every one.       *)
(***************************************************************************)
EXTENDS Integers, Sequences, SequencesExt, WalletTx

CONSTANTS
  TxIds,      \* transaction ids that may be in the file
  MaxIn,      \* longest txIdsIn a caller passes
  WalletTxsOf \* id -> the wallet transactions (their metadata) written under it

VARIABLES
  fileWtx,    \* the "tx" records of the wallet file: id -> what was written
  txIdsOut,   \* ZapSelectTx's output vector
  vWtx,       \* ZapWalletTx's output vector, as a set of [id, wtx]
  result,     \* the DBErrors of the last call
  call        \* the last call: its kind, its selection, the file before it

vars == <<fileWtx, txIdsOut, vWtx, result, call>>

fileTxs == DOMAIN fileWtx

\* The file after erasing the records of ids.
EraseTxs(ids) == Restrict(fileWtx, fileTxs \ ids)

\* "ssValue >> wtx" of every record: the vector FindWalletTx fills.
ReadWtx == {[id |-> t, wtx |-> Unserialize(Serialize(fileWtx[t]))] : t \in fileTxs}

NoCall == [kind |-> "none", in |-> {}, before |-> {}, wrote |-> <<>>]

Init ==
  /\ fileWtx \in UNION {[S -> UNION {WalletTxsOf[t] : t \in S}] : S \in SUBSET TxIds}
  /\ \A t \in DOMAIN fileWtx : fileWtx[t] \in WalletTxsOf[t]
  /\ txIdsOut = <<>> /\ vWtx = {}
  /\ result = "LOAD_OK"
  /\ call = NoCall

\* FindWalletTx followed by std::sort(txIds): the file's ids in order.
SortedTxs(S) == SetToSortSeq(S, <)

\* Skips on (*it) <= txid.
RECURSIVE SkipBelowOrEqual(_, _)
SkipBelowOrEqual(in, t) ==
  IF in # <<>> /\ Head(in) <= t THEN SkipBelowOrEqual(Tail(in), t) ELSE in

\* while (it < txIdsIn.end() && (*it) < txid) it++;
RECURSIVE SkipBelow(_, _)
SkipBelow(in, t) ==
  IF in # <<>> /\ Head(in) < t THEN SkipBelow(Tail(in), t) ELSE in

\* The merge loop of ZapSelectTx: the ids it finds for deletion, in order.
RECURSIVE MatchSorted(_, _)
MatchSorted(ids, in) ==
  IF ids = <<>> THEN <<>>
  ELSE LET rest == SkipBelow(in, Head(ids)) IN
       IF rest = <<>> THEN <<>>
       ELSE IF Head(rest) = Head(ids)
              THEN <<Head(ids)>> \o MatchSorted(Tail(ids), rest)
              ELSE MatchSorted(Tail(ids), rest)

-----------------------------------------------------------------------------

\* CWalletDB::WriteTx of a wallet transaction.
WriteTx(t, wtx) ==
  /\ t \notin fileTxs
  /\ fileWtx' = (t :> wtx) @@ fileWtx
  /\ call' = NoCall
  /\ UNCHANGED <<txIdsOut, vWtx, result>>

\* FindWalletTx fails: minversion too new, no cursor, a cursor error, or a
\* record that does not deserialize.  Nothing is erased.
FindWalletTxFails(kind, in) ==
  /\ \E err \in {"TOO_NEW", "CORRUPT"} : result' = err
  /\ txIdsOut' = <<>>
  /\ vWtx' \in IF kind = "wallet" THEN SUBSET ReadWtx ELSE {vWtx}
  /\ call' = [kind |-> kind, in |-> in, before |-> fileTxs, wrote |-> fileWtx]
  /\ UNCHANGED fileWtx

\* ZapSelectTx with FindWalletTx succeeding: the matches are erased one by
\* one, those in failing fail to erase; every match is pushed to txIdsOut.
ZapSelectTx(in) ==
  LET out == MatchSorted(SortedTxs(fileTxs), SortSeq(in, <)) IN
  \E failing \in SUBSET ToSet(out) :
    /\ fileWtx' = EraseTxs(ToSet(out) \ failing)
    /\ txIdsOut' = out
    /\ result' = IF failing = {} THEN "LOAD_OK" ELSE "CORRUPT"
    /\ call' = [kind |-> "select", in |-> ToSet(in), before |-> fileTxs,
                 wrote |-> fileWtx]
    /\ UNCHANGED vWtx

\* ZapWalletTx: erase in cursor order; the first failing EraseTx returns.
ZapWalletTx ==
  LET ids == SortedTxs(fileTxs) IN
  \E k \in 0..Len(ids) :
    /\ fileWtx' = EraseTxs(ToSet(SubSeq(ids, 1, k)))
    /\ result' = IF k = Len(ids) THEN "LOAD_OK" ELSE "CORRUPT"
    /\ vWtx' = ReadWtx
    /\ call' = [kind |-> "wallet", in |-> {}, before |-> fileTxs,
                 wrote |-> fileWtx]
    /\ UNCHANGED txIdsOut

Next ==
  \/ \E t \in TxIds : \E wtx \in WalletTxsOf[t] : WriteTx(t, wtx)
  \/ \E in \in SeqOf(TxIds, MaxIn) :
        ZapSelectTx(in) \/ FindWalletTxFails("select", ToSet(in))
  \/ ZapWalletTx \/ FindWalletTxFails("wallet", {})

Spec == Init /\ [][Next]_vars

-----------------------------------------------------------------------------
(* Properties.                                                             *)

\* After ZapSelectTx, whatever order and repeats txIdsIn had and whichever
\* erases failed: no unselected transaction is gone, and on LOAD_OK exactly
\* the selected ones present are gone and reported once each in txIdsOut.
ZapSelectTxErasesExactlyTheSelection ==
  call.kind = "select" =>
    /\ call.before \ call.in \subseteq fileTxs
    /\ result = "LOAD_OK" =>
         /\ fileTxs = call.before \ call.in
         /\ ToSet(txIdsOut) = call.before \cap call.in
         /\ Len(txIdsOut) = Cardinality(ToSet(txIdsOut))

\* -zapwallettxes=1 puts the metadata of the zapped transactions back from
\* vWtx: every transaction ZapWalletTx returns, on success or after a
\* failure, carries the mapValue, account, order position and smart time
\* it was written with.  Serialize adds strFromAccount, nOrderPos and
\* nTimeSmart to the map as text; Unserialize must read them back and take
\* every reserved key out of mapValue again.
ZapWalletTxReturnsWrittenTxs ==
  call.kind = "wallet" => \A v \in vWtx : v.wtx = call.wrote[v.id]
=============================================================================

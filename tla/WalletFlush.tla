----------------------------- MODULE WalletFlush ----------------------------
(***************************************************************************)
(* Wallet writes and the periodic flush (src/wallet/walletdb.cpp,          *)
(* src/wallet/walletdb.h).                                                 *)
(*                                                                         *)
(* Writer threads open a CWalletDB batch, write a record (WriteIC:         *)
(* batch.Write, then IncrementUpdateCounter) and close the batch.  The     *)
(* scheduler thread runs MaybeCompactWalletDB every 500 ms: it snapshots   *)
(* nUpdateCounter, notes when it last changed, and after two idle seconds  *)
(* calls CDB::PeriodicFlush, which succeeds only while no batch has the    *)
(* file open, and then records the snapshot in nLastFlushed.  A crash      *)
(* loses every write not yet flushed and all in-memory counters.           *)
(*                                                                         *)
(* elapsed is GetTime() - nLastWalletUpdate, capped at IdleCap: the code   *)
(* only compares it with 2.                                                *)
(***************************************************************************)
EXTENDS Naturals

CONSTANTS
  Writers,       \* threads that write to the wallet
  MaxWrites,     \* WriteIC calls in a behaviour
  flushwallet,   \* -flushwallet
  IdleCap

VARIABLES
  nUpdateCounter, nLastSeen, nLastFlushed, elapsed,
  fOneThread,
  sched,         \* scheduler thread: "idle", "flush", "record"
  snap,          \* the local nUpdateCounter of MaybeCompactWalletDB
  wpc,           \* writer thread: "idle", "open", "written", "counted"
  writesLeft,
  written,       \* records written to the database environment
  durable        \* records that survive a crash

vars == <<nUpdateCounter, nLastSeen, nLastFlushed, elapsed, fOneThread,
          sched, snap, wpc, writesLeft, written, durable>>

MinOf(a, b) == IF a < b THEN a ELSE b

Init ==
  /\ nUpdateCounter = 0 /\ nLastSeen = 0 /\ nLastFlushed = 0
  /\ elapsed = 0
  /\ fOneThread = FALSE
  /\ sched = "idle" /\ snap = 0
  /\ wpc = [w \in Writers |-> "idle"]
  /\ writesLeft = MaxWrites
  /\ written = 0 /\ durable = 0

\* The file is in use (mapFileUseCount > 0) while some batch is open.
FileInUse == \E w \in Writers : wpc[w] # "idle"

-----------------------------------------------------------------------------
(* Writer threads.                                                         *)

WriterStep(w, from, to) == wpc[w] = from /\ wpc' = [wpc EXCEPT ![w] = to]

OpenBatch(w) ==
  /\ writesLeft > 0
  /\ WriterStep(w, "idle", "open")
  /\ writesLeft' = writesLeft - 1
  /\ UNCHANGED <<nUpdateCounter, nLastSeen, nLastFlushed, elapsed,
                 fOneThread, sched, snap, written, durable>>

\* WriteIC: batch.Write(key, value) ...
Write(w) ==
  /\ WriterStep(w, "open", "written")
  /\ written' = written + 1
  /\ UNCHANGED <<nUpdateCounter, nLastSeen, nLastFlushed, elapsed,
                 fOneThread, sched, snap, writesLeft, durable>>

\* A failed batch.Write returns false before the counter is touched.
WriteFails(w) ==
  /\ WriterStep(w, "open", "counted")
  /\ UNCHANGED <<nUpdateCounter, nLastSeen, nLastFlushed, elapsed,
                 fOneThread, sched, snap, writesLeft, written, durable>>

\* ... then m_dbw.IncrementUpdateCounter().
Increment(w) ==
  /\ WriterStep(w, "written", "counted")
  /\ nUpdateCounter' = nUpdateCounter + 1
  /\ UNCHANGED <<nLastSeen, nLastFlushed, elapsed, fOneThread, sched, snap,
                 writesLeft, written, durable>>

CloseBatch(w) ==
  /\ WriterStep(w, "counted", "idle")
  /\ UNCHANGED <<nUpdateCounter, nLastSeen, nLastFlushed, elapsed,
                 fOneThread, sched, snap, writesLeft, written, durable>>

-----------------------------------------------------------------------------
(* The scheduler thread: MaybeCompactWalletDB.                             *)

\* fOneThread.exchange(true), the -flushwallet test, the snapshot and the
\* nLastSeen / nLastWalletUpdate update, the two-second idle test.
Observe ==
  /\ sched = "idle" /\ ~fOneThread
  /\ IF ~flushwallet
       THEN fOneThread' = TRUE /\ UNCHANGED <<nLastSeen, elapsed, sched, snap>>
       ELSE LET s == nUpdateCounter
                e == IF nLastSeen # s THEN 0 ELSE elapsed IN
            /\ snap' = s
            /\ nLastSeen' = s
            /\ elapsed' = e
            /\ IF nLastFlushed # s /\ e >= 2
                 THEN sched' = "flush" /\ fOneThread' = TRUE
                 ELSE sched' = "idle" /\ UNCHANGED fOneThread
  /\ UNCHANGED <<nUpdateCounter, nLastFlushed, wpc, writesLeft, written,
                 durable>>

\* CDB::PeriodicFlush: checkpoint the file unless a batch has it open.
Flush ==
  /\ sched = "flush"
  /\ IF FileInUse
       THEN sched' = "idle" /\ fOneThread' = FALSE /\ UNCHANGED durable
       ELSE sched' = "record" /\ durable' = written /\ UNCHANGED fOneThread
  /\ UNCHANGED <<nUpdateCounter, nLastSeen, nLastFlushed, elapsed, snap, wpc,
                 writesLeft, written>>

\* Records the shared dbh.nUpdateCounter instead of the local copy.
RecordLiveCounter ==
  /\ sched = "record"
  /\ nLastFlushed' = nUpdateCounter
  /\ sched' = "idle"
  /\ fOneThread' = FALSE
  /\ UNCHANGED <<nUpdateCounter, nLastSeen, elapsed, snap, wpc, writesLeft,
                 written, durable>>

\* Forgets to clear fOneThread after a flush.
RecordKeepingOneThread ==
  /\ sched = "record"
  /\ nLastFlushed' = snap
  /\ sched' = "idle"
  /\ UNCHANGED <<nUpdateCounter, nLastSeen, elapsed, fOneThread, snap, wpc,
                 writesLeft, written, durable>>

\* dbh.nLastFlushed = nUpdateCounter (the local copy); fOneThread = false.
Record ==
  /\ sched = "record"
  /\ nLastFlushed' = snap
  /\ sched' = "idle"
  /\ fOneThread' = FALSE
  /\ UNCHANGED <<nUpdateCounter, nLastSeen, elapsed, snap, wpc, writesLeft,
                 written, durable>>

Tick ==
  /\ elapsed' = MinOf(elapsed + 1, IdleCap)
  /\ UNCHANGED <<nUpdateCounter, nLastSeen, nLastFlushed, fOneThread, sched,
                 snap, wpc, writesLeft, written, durable>>

\* The node crashes and restarts: unflushed writes and counters are gone.
Crash ==
  /\ written # durable \/ nUpdateCounter # 0
  /\ nUpdateCounter' = 0 /\ nLastSeen' = 0 /\ nLastFlushed' = 0
  /\ elapsed' = 0 /\ fOneThread' = FALSE /\ sched' = "idle" /\ snap' = 0
  /\ wpc' = [w \in Writers |-> "idle"]
  /\ written' = durable
  /\ UNCHANGED <<writesLeft, durable>>

Next ==
  \/ \E w \in Writers : OpenBatch(w) \/ Write(w) \/ WriteFails(w)
                        \/ Increment(w) \/ CloseBatch(w)
  \/ Observe \/ Flush \/ Record \/ Tick \/ Crash

\* The scheduler runs MaybeCompactWalletDB every 500 ms, time passes, and a
\* thread inside a batch finishes it.  Crashes are not assumed.
Fairness ==
  /\ WF_vars(Observe) /\ WF_vars(Flush) /\ WF_vars(Record) /\ WF_vars(Tick)
  /\ \A w \in Writers : WF_vars(Write(w)) /\ WF_vars(Increment(w))
                        /\ WF_vars(CloseBatch(w))

Spec == Init /\ [][Next]_vars /\ Fairness

-----------------------------------------------------------------------------
(* Properties.                                                             *)

\* MaybeCompactWalletDB records in nLastFlushed the counter it read before
\* PeriodicFlush, so nLastFlushed never counts a write that the flush did
\* not make durable, whatever writers did between the read and the flush.
FlushedWritesAreDurable == nLastFlushed <= durable

\* Once the writer threads have stopped and closed their batches, the
\* scheduler thread eventually flushes every counted write.
WritesEventuallyFlushed ==
  (writesLeft = 0 /\ ~FileInUse) ~> (nLastFlushed = nUpdateCounter)
=============================================================================

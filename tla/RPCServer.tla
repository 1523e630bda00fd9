----------------------------- MODULE RPCServer ------------------------------
(***************************************************************************)
(* The RPC server's global state (src/rpc/server.cpp) driven by the node's *)
(* init and shutdown thread and by HTTP worker threads.                    *)
(*                                                                         *)
(* The init/shutdown thread follows the node's order (stage): register     *)
(* commands, StartRPC, set the HTTP timer interface, serve, end warmup;    *)
(* on a shutdown request InterruptRPC, RPCUnsetTimerInterface, StopRPC,    *)
(* then stop the HTTP server, which waits for the workers.  Requests       *)
(* accepted before the interrupt are still executed.                       *)
(*                                                                         *)
(* A worker runs RPCServer::ExecuteCommand and CRPCTable::execute: the    *)
(* warmup check under cs_rpcWarmup, the table lookup, then the command.    *)
(* "stop" requests shutdown; a command in DOMAIN TimerOf (the relock of    *)
(* walletpassphrase) calls RPCRunLater, which reads the unguarded          *)
(* timerInterface again after checking it, to create the timer, and then  *)
(* inserts the timer into deadlineTimers.  A null timerInterface at the    *)
(* later read is a crash; a timer inserted after StopRPC outlives it.      *)
(*                                                                         *)
(* A command in RescanCommands (rescanblockchain, the imports) scans the   *)
(* wallet through a WalletRescanReserver (src/wallet/wallet.h): reserve()  *)
(* under mutexScanning, the scan, and the destructor at scope exit.        *)
(* couldReserve is each worker's m_could_reserve.  The command bodies are  *)
(* in rpcwallet.cpp and rpcdump.cpp, outside this tree; only the           *)
(* reserver's calls are modelled.                                          *)
(***************************************************************************)
EXTENDS FiniteSets, Sequences, Functions

CONSTANTS
  Workers,
  CommandNames,   \* names a command may be registered under
  BuiltinNames,   \* vRPCCommands, registered by the CRPCTable constructor
  TimerOf,        \* commands that call RPCRunLater, to their timer's name
  HTTPTimers,     \* the HTTP server's RPCTimerInterface
  NoInterface,
  Requests,       \* what a client may send: a call or a batch, as a
                  \* sequence of method names
  RescanCommands  \* commands that scan the wallet under a reserver

VARIABLES
  fRPCRunning, fRPCInWarmup, mapCommands, timerInterface, deadlineTimers,
  stage,          \* init/shutdown thread
  started,        \* StartRPC has run
  shutdownRequested,
  wpc, wreq,      \* worker thread: program counter and request
  crashed,
  fScanningWallet, couldReserve

rescanVars == <<fScanningWallet, couldReserve>>

vars == <<fRPCRunning, fRPCInWarmup, mapCommands, timerInterface,
          deadlineTimers, stage, started, shutdownRequested, wpc, wreq,
          crashed, fScanningWallet, couldReserve>>

\* The CRPCTable constructor enters every command of vRPCCommands.
CRPCTable == BuiltinNames

\* CWallet::SetNull: fAbortRescan and fScanningWallet start false.
SetNull == fScanningWallet = FALSE

\* WalletRescanReserver(w): m_could_reserve(false).
WalletRescanReserver == FALSE

Init ==
  /\ fRPCRunning = FALSE /\ fRPCInWarmup = TRUE
  /\ mapCommands = CRPCTable
  /\ timerInterface = NoInterface
  /\ deadlineTimers = {}
  /\ stage = "init" /\ started = FALSE /\ shutdownRequested = FALSE
  /\ wpc = [w \in Workers |-> "idle"] /\ wreq = [w \in Workers |-> <<>>]
  /\ crashed = FALSE
  /\ SetNull
  /\ couldReserve = [w \in Workers |-> WalletRescanReserver]

Alive == ~crashed

-----------------------------------------------------------------------------
(* server.cpp functions called by the init/shutdown thread.                *)

\* CRPCTable::appendCommand: refused while running and for a known name.
appendCommand(n) ==
  /\ Alive
  /\ ~fRPCRunning /\ n \notin mapCommands
  /\ mapCommands' = mapCommands \cup {n}
  /\ UNCHANGED <<fRPCRunning, fRPCInWarmup, timerInterface, deadlineTimers,
                 stage, started, shutdownRequested, wpc, wreq, crashed>>
  /\ UNCHANGED rescanVars

StartRPC ==
  /\ Alive /\ stage = "init"
  /\ fRPCRunning' = TRUE /\ started' = TRUE
  /\ stage' = "started"
  /\ UNCHANGED <<fRPCInWarmup, mapCommands, timerInterface, deadlineTimers,
                 shutdownRequested, wpc, wreq, crashed>>
  /\ UNCHANGED rescanVars

RPCSetTimerInterface ==
  /\ Alive /\ stage = "started"
  /\ timerInterface' = HTTPTimers
  /\ stage' = "serving"
  /\ UNCHANGED <<fRPCRunning, fRPCInWarmup, mapCommands, deadlineTimers,
                 started, shutdownRequested, wpc, wreq, crashed>>
  /\ UNCHANGED rescanVars

SetRPCWarmupFinished ==
  /\ Alive /\ stage = "serving" /\ fRPCInWarmup
  /\ fRPCInWarmup' = FALSE
  /\ UNCHANGED <<fRPCRunning, mapCommands, timerInterface, deadlineTimers,
                 stage, started, shutdownRequested, wpc, wreq, crashed>>
  /\ UNCHANGED rescanVars

\* A signal or the GUI asks the node to shut down.
RequestShutdown ==
  /\ Alive /\ ~shutdownRequested
  /\ shutdownRequested' = TRUE
  /\ UNCHANGED <<fRPCRunning, fRPCInWarmup, mapCommands, timerInterface,
                 deadlineTimers, stage, started, wpc, wreq, crashed>>
  /\ UNCHANGED rescanVars

\* Interrupt(): the HTTP server stops accepting requests; InterruptRPC.
InterruptRPC ==
  /\ Alive /\ shutdownRequested /\ stage \in {"init", "started", "serving"}
  /\ fRPCRunning' = FALSE
  /\ stage' = "interrupted"
  /\ UNCHANGED <<fRPCInWarmup, mapCommands, timerInterface, deadlineTimers,
                 started, shutdownRequested, wpc, wreq, crashed>>
  /\ UNCHANGED rescanVars

RPCUnsetTimerInterface ==
  /\ Alive /\ stage = "interrupted"
  /\ timerInterface' = IF timerInterface = HTTPTimers THEN NoInterface
                                                       ELSE timerInterface
  /\ stage' = "unset"
  /\ UNCHANGED <<fRPCRunning, fRPCInWarmup, mapCommands, deadlineTimers,
                 started, shutdownRequested, wpc, wreq, crashed>>
  /\ UNCHANGED rescanVars

StopRPC ==
  /\ Alive /\ stage = "unset"
  /\ deadlineTimers' = {}
  /\ stage' = "stopped"
  /\ UNCHANGED <<fRPCRunning, fRPCInWarmup, mapCommands, timerInterface,
                 started, shutdownRequested, wpc, wreq, crashed>>
  /\ UNCHANGED rescanVars

\* StopHTTPServer joins the worker threads.
StopHTTPServer ==
  /\ Alive /\ stage = "stopped"
  /\ \A w \in Workers : wpc[w] = "idle"
  /\ stage' = "down"
  /\ UNCHANGED <<fRPCRunning, fRPCInWarmup, mapCommands, timerInterface,
                 deadlineTimers, started, shutdownRequested, wpc, wreq,
                 crashed>>
  /\ UNCHANGED rescanVars

-----------------------------------------------------------------------------
(* Worker threads.  wreq[w] is what is left of the worker's request: one   *)
(* call, or the calls of a JSON batch, which JSONRPCExecBatch runs one     *)
(* after another through JSONRPCExecOne, whose errors become replies.      *)

WorkerGoes(w, pc) == wpc' = [wpc EXCEPT ![w] = pc]

UnchangedButWorker ==
  UNCHANGED <<fRPCRunning, fRPCInWarmup, mapCommands, timerInterface,
              stage, started, crashed>>

\* The method of the call the worker is executing.
Method(w) == Head(wreq[w])

\* JSONRPCExecOne returns the reply (result or error) for this call;
\* JSONRPCExecBatch goes on with the next call of the batch.
Reply(w) ==
  /\ wpc' = [wpc EXCEPT ![w] = IF Len(wreq[w]) > 1 THEN "execute" ELSE "idle"]
  /\ wreq' = [wreq EXCEPT ![w] = Tail(wreq[w])]

\* Keeps handing requests to workers after the interrupt.
AcceptAfterInterrupt(w, b) ==
  /\ Alive /\ stage \in {"serving", "interrupted", "unset", "stopped"}
  /\ wpc[w] = "idle"
  /\ WorkerGoes(w, "execute")
  /\ wreq' = [wreq EXCEPT ![w] = b]
  /\ UNCHANGED <<deadlineTimers, shutdownRequested>> /\ UnchangedButWorker
  /\ UNCHANGED rescanVars

\* The HTTP server hands a request to a worker until it is interrupted.
Accept(w, b) ==
  /\ Alive /\ stage = "serving" /\ wpc[w] = "idle"
  /\ WorkerGoes(w, "execute")
  /\ wreq' = [wreq EXCEPT ![w] = b]
  /\ UNCHANGED <<deadlineTimers, shutdownRequested>> /\ UnchangedButWorker
  /\ UNCHANGED rescanVars

\* RPCServer::ExecuteCommand: RPC_IN_WARMUP under cs_rpcWarmup, then the
\* context-sensitive commands (none is registered through RegisterCommand
\* in this tree), then tableRPC.execute.
ExecuteCommand(w) ==
  /\ Alive /\ wpc[w] = "execute"
  /\ IF fRPCInWarmup THEN Reply(w) ELSE WorkerGoes(w, "table") /\ UNCHANGED wreq
  /\ UNCHANGED <<deadlineTimers, shutdownRequested>> /\ UnchangedButWorker
  /\ UNCHANGED rescanVars

\* stop: StartShutdown(); the reply still reaches the client.
stop(w) == Reply(w) /\ shutdownRequested' = TRUE

\* CRPCTable::execute: RPC_IN_WARMUP again, RPC_METHOD_NOT_FOUND, or the
\* command.
execute(w) ==
  /\ Alive /\ wpc[w] = "table"
  /\ LET r == Method(w) IN
     IF fRPCInWarmup \/ r \notin mapCommands
       THEN Reply(w) /\ UNCHANGED shutdownRequested
     ELSE IF r = "stop" THEN stop(w)
     ELSE IF r \in DOMAIN TimerOf
       THEN WorkerGoes(w, "runlater") /\ UNCHANGED <<wreq, shutdownRequested>>
     ELSE IF r \in RescanCommands
       THEN WorkerGoes(w, "reserve") /\ UNCHANGED <<wreq, shutdownRequested>>
     ELSE Reply(w) /\ UNCHANGED shutdownRequested
  /\ UNCHANGED deadlineTimers /\ UnchangedButWorker
  /\ UNCHANGED rescanVars

\* RPCRunLater: "No timer handler registered for RPC", else erase the old
\* timer of that name ...
RunLaterErase(w) ==
  /\ Alive /\ wpc[w] = "runlater"
  /\ IF timerInterface = NoInterface
       THEN Reply(w) /\ UNCHANGED deadlineTimers
       ELSE /\ WorkerGoes(w, "emplace") /\ UNCHANGED wreq
            /\ deadlineTimers' = deadlineTimers \ {TimerOf[Method(w)]}
  /\ UNCHANGED shutdownRequested /\ UnchangedButWorker
  /\ UNCHANGED rescanVars

\* ... then timerInterface->Name() for the log line and
\* timerInterface->NewTimer(func, nSeconds * 1000).  Both read the pointer
\* again; it only goes from set to null, so a crash at either read is a
\* crash at the later one.
RunLaterNewTimer(w) ==
  /\ Alive /\ wpc[w] = "emplace"
  /\ IF timerInterface = NoInterface
       THEN crashed' = TRUE /\ UNCHANGED wpc
       ELSE WorkerGoes(w, "insert") /\ UNCHANGED crashed
  /\ UNCHANGED <<wreq, deadlineTimers, fRPCRunning, fRPCInWarmup, mapCommands,
                 timerInterface, stage, started, shutdownRequested>>
  /\ UNCHANGED rescanVars

\* deadlineTimers.emplace(name, timer): a no-op when another worker put a
\* timer of that name in since the erase.
RunLaterEmplace(w) ==
  /\ Alive /\ wpc[w] = "insert"
  /\ Reply(w)
  /\ deadlineTimers' = deadlineTimers \cup {TimerOf[Method(w)]}
  /\ UNCHANGED shutdownRequested /\ UnchangedButWorker
  /\ UNCHANGED rescanVars

UnchangedButRescan ==
  UNCHANGED <<deadlineTimers, shutdownRequested>> /\ UnchangedButWorker

\* WalletRescanReserver::reserve(): under mutexScanning, false while
\* another reserver holds the wallet, else take it.  A command that could
\* not reserve throws "Wallet is currently rescanning"; either way the
\* reserver is destroyed when the command leaves its scope.
reserve(w) ==
  /\ Alive /\ wpc[w] = "reserve"
  /\ ~couldReserve[w]
  /\ IF fScanningWallet
       THEN WorkerGoes(w, "release") /\ UNCHANGED rescanVars
       ELSE /\ WorkerGoes(w, "scan")
            /\ fScanningWallet' = TRUE
            /\ couldReserve' = [couldReserve EXCEPT ![w] = TRUE]
  /\ UNCHANGED wreq /\ UnchangedButRescan

\* isReserved(): m_could_reserve && fScanningWallet, read without the mutex.
isReserved(w) == couldReserve[w] /\ fScanningWallet

\* ScanForWalletTransactions(..., reserver): asserts reserver.isReserved()
\* and scans; its body is in wallet.cpp.
ScanForWalletTransactions(w) ==
  /\ Alive /\ wpc[w] = "scan"
  /\ isReserved(w)
  /\ WorkerGoes(w, "release")
  /\ UNCHANGED <<wreq, rescanVars>> /\ UnchangedButRescan

\* Forgets the m_could_reserve test: any reserver clears the flag.
ReleaseUnconditionally(w) ==
  /\ Alive /\ wpc[w] = "release"
  /\ Reply(w)
  /\ fScanningWallet' = FALSE
  /\ couldReserve' = [couldReserve EXCEPT ![w] = WalletRescanReserver]
  /\ UnchangedButRescan

\* ~WalletRescanReserver() as the command returns: under mutexScanning,
\* the holder gives the wallet back.
Release(w) ==
  /\ Alive /\ wpc[w] = "release"
  /\ Reply(w)
  /\ fScanningWallet' = IF couldReserve[w] THEN FALSE ELSE fScanningWallet
  /\ couldReserve' = [couldReserve EXCEPT ![w] = WalletRescanReserver]
  /\ UnchangedButRescan

\* The node is down, or the process died; nothing else happens.
Halted ==
  /\ stage = "down" \/ crashed
  /\ UNCHANGED vars

Next ==
  \/ \E n \in CommandNames : appendCommand(n)
  \/ StartRPC \/ RPCSetTimerInterface \/ SetRPCWarmupFinished
  \/ RequestShutdown \/ InterruptRPC \/ RPCUnsetTimerInterface \/ StopRPC
  \/ StopHTTPServer
  \/ \E w \in Workers :
       \/ \E r \in Requests : Accept(w, r)
       \/ ExecuteCommand(w) \/ execute(w) \/ RunLaterErase(w)
       \/ RunLaterNewTimer(w) \/ RunLaterEmplace(w)
       \/ reserve(w) \/ ScanForWalletTransactions(w) \/ Release(w)
  \/ Halted

\* The init/shutdown thread runs its steps one after another, and a worker
\* that took a request runs the command to its end.  Nothing is assumed of
\* clients: Accept, appendCommand and RequestShutdown are not fair.
Fairness ==
  /\ WF_vars(StartRPC) /\ WF_vars(RPCSetTimerInterface)
  /\ WF_vars(SetRPCWarmupFinished) /\ WF_vars(InterruptRPC)
  /\ WF_vars(RPCUnsetTimerInterface) /\ WF_vars(StopRPC)
  /\ WF_vars(StopHTTPServer)
  /\ \A w \in Workers :
       /\ WF_vars(ExecuteCommand(w)) /\ WF_vars(execute(w))
       /\ WF_vars(RunLaterErase(w)) /\ WF_vars(RunLaterNewTimer(w))
       /\ WF_vars(RunLaterEmplace(w))
       /\ WF_vars(reserve(w)) /\ WF_vars(ScanForWalletTransactions(w))
       /\ WF_vars(Release(w))

Spec == Init /\ [][Next]_vars /\ Fairness

-----------------------------------------------------------------------------
(* Properties.                                                             *)

\* The server's phase as RPCLifecycle sees it: stopped once StopRPC ran,
\* running while fRPCRunning, interrupted after InterruptRPC.
AbsPhase ==
  IF stage \in {"stopped", "down"} THEN "stopped"
  ELSE IF fRPCRunning THEN "running"
  ELSE IF started THEN "interrupted"
  ELSE "idle"

LC == INSTANCE RPCLifecycle
        WITH phase <- AbsPhase, table <- mapCommands, warmup <- fRPCInWarmup,
             timers <- deadlineTimers,
             CommandNames <- CommandNames \cup BuiltinNames,
             TimerNames <- Range(TimerOf)

NoNullTimerInterface == ~crashed

\* However workers' rescans and failed reservations interleave, the wallet
\* is marked as scanning exactly while one reserver holds it, so no two
\* commands scan at once, and a failed reserve() does not release the
\* wallet under the scan that holds it.
ScanningHeldByOneReserver ==
  /\ fScanningWallet = (\E w \in Workers : couldReserve[w])
  /\ \A v, w \in Workers : v # w => ~(couldReserve[v] /\ couldReserve[w])
  /\ \A w \in Workers : wpc[w] = "scan" => isReserved(w)

\* Once shutdown is requested (a signal, the GUI or the stop command), the
\* node gets through InterruptRPC, StopRPC and StopHTTPServer, which waits
\* for every worker: no request, rescan or relock keeps a worker busy for
\* ever, and the interrupt stops new requests from arriving, unless the
\* process died in RPCRunLater.
ShutdownCompletes == shutdownRequested ~> (stage = "down" \/ crashed)
=============================================================================

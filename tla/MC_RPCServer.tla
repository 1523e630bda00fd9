---------------------------- MODULE MC_RPCServer ----------------------------
EXTENDS RPCServer, TLC

CONSTANTS w1, w2, httpTimers, noInterface

MCWorkers == {w1, w2}

MCBuiltinNames == {"help", "stop", "uptime"}

\* Wallet commands registered at init, and a second registration of a
\* built-in name, which appendCommand refuses.
MCCommandNames == {"walletpassphrase", "rescanblockchain", "help"}

\* walletpassphrase schedules the wallet's relock.
MCTimerOf == "walletpassphrase" :> "lockwallet(wallet.dat)"

\* rescanblockchain scans the wallet under a WalletRescanReserver.
MCRescanCommands == {"rescanblockchain"}

MCMethods == {"stop", "uptime", "walletpassphrase", "getinfo",
              "rescanblockchain"}

\* Single calls, and batches of two calls.
MCRequests == {<<m>> : m \in MCMethods} \cup (MCMethods \X MCMethods)
=============================================================================

------------------------------ MODULE GuiStartup -----------------------------
(***************************************************************************)
(* Start-up and shutdown of the Qt client (src/qt/bitcoin.cpp).            *)
(*                                                                         *)
(* The GUI thread runs main(): a chain of steps, each of which may return  *)
(* early, then two invocations of the Qt event loop.  BitcoinApplication's *)
(* requestInitialize and requestShutdown emit signals that are queued to   *)
(* the DeVault executor on the core thread, which runs appInitMain and     *)
(* appShutdown and answers with signals queued back to the GUI thread.     *)
(* Queued signals are delivered in order, one at a time, by the receiving  *)
(* thread's event loop.  When main returns, its locals (rpcServer,         *)
(* httpRPCRequestProcessor, ...) are destroyed before app, whose           *)
(* destructor stops the core thread and deletes what it owns.              *)
(*                                                                         *)
(* Outcomes of node calls and user dialogs are nondeterministic.  A        *)
(* pointer member the constructor does not initialise is "uninit".         *)
(***************************************************************************)
EXTENDS Sequences

CONSTANTS EXIT_SUCCESS, EXIT_FAILURE

VARIABLES
  mpc,               \* GUI thread: where main is
  platformStyle,     \* "uninit", "set", "deleted"
  window, optionsModel, pollShutdownTimer, clientModel, coreThread,
  timerActive,       \* pollShutdownTimer is started
  quitting,          \* quit() was called; the running event loop returns
  returnValue,
  guiQ,              \* signals queued to the GUI thread
  coreQ,             \* signals queued to the executor
  cpc,               \* core thread: "idle", "init", "shutdown", "stopped"
  shutdownAsked,     \* ShutdownRequested() of the node
  localsAlive,       \* main's locals after app
  badDelete,         \* delete of an uninitialised pointer
  exited,            \* ::exit after a runaway exception
  splash             \* the splash screen: "none", "shown", "closed"

vars == <<mpc, platformStyle, window, optionsModel, pollShutdownTimer,
          clientModel, coreThread, timerActive, quitting, returnValue, guiQ,
          coreQ, cpc, shutdownAsked, localsAlive, badDelete, exited,
          splash>>

appVars == <<platformStyle, window, optionsModel, pollShutdownTimer,
             clientModel, coreThread, timerActive>>

\* The BitcoinApplication constructor initialises every pointer member but
\* platformStyle.
AppConstructed ==
  /\ platformStyle = "uninit"
  /\ window = FALSE /\ optionsModel = FALSE /\ pollShutdownTimer = FALSE
  /\ clientModel = FALSE /\ coreThread = FALSE /\ timerActive = FALSE
  /\ returnValue = 0

\* main up to the help check: argument parsing, the app object, Qt
\* attributes and meta types, settings migration and translations, none of
\* which returns early.
Init ==
  /\ mpc = "help"
  /\ AppConstructed
  /\ quitting = FALSE
  /\ guiQ = <<>> /\ coreQ = <<>> /\ cpc = "idle"
  /\ shutdownAsked = FALSE /\ localsAlive = TRUE
  /\ badDelete = FALSE /\ exited = FALSE
  /\ splash = "none"

Running == ~exited

Goto(pc) == mpc' = pc

\* main returns v: its locals die, then ~BitcoinApplication runs.
Return(v) ==
  /\ returnValue' = v
  /\ Goto("destroy")

-----------------------------------------------------------------------------
(* main() before the event loop.                                           *)

\* -help / -version: show the help message and return.
HelpRequested ==
  /\ Running /\ mpc = "help"
  /\ \/ Return(EXIT_SUCCESS)
     \/ Goto("platform") /\ UNCHANGED returnValue
  /\ UNCHANGED <<appVars, quitting, guiQ, coreQ, cpc, shutdownAsked,
                 localsAlive, badDelete, exited, splash>>

\* app.initPlatformStyle(), falling back to "other".
initPlatformStyle ==
  /\ Running /\ mpc = "platform"
  /\ platformStyle' = "set"
  /\ Goto("datadir")
  /\ UNCHANGED <<window, optionsModel, pollShutdownTimer, clientModel,
                 coreThread, timerActive, quitting, returnValue, guiQ, coreQ,
                 cpc, shutdownAsked, localsAlive, badDelete, exited, splash>>

\* Intro::pickDataDirectory (cancel: EXIT_SUCCESS), the data directory
\* check, readConfigFile and selectParams (EXIT_FAILURE).
ChooseDataDirAndParams ==
  /\ Running /\ mpc = "datadir"
  /\ \/ Return(EXIT_SUCCESS)
     \/ Return(EXIT_FAILURE)
     \/ Goto("options") /\ UNCHANGED returnValue
  /\ UNCHANGED <<appVars, quitting, guiQ, coreQ, cpc, shutdownAsked,
                 localsAlive, badDelete, exited, splash>>

\* app.parameterSetup(); app.createOptionsModel(); createSplashScreen
\* when -splash and not -min.
createOptionsModel ==
  /\ Running /\ mpc = "options"
  /\ optionsModel' = TRUE
  /\ splash' \in {"none", "shown"}
  /\ Goto("window")
  /\ UNCHANGED <<platformStyle, window, pollShutdownTimer, clientModel,
                 coreThread, timerActive, quitting, returnValue, guiQ, coreQ,
                 cpc, shutdownAsked, localsAlive, badDelete, exited>>

\* app.createWindow: false when the passphrase dialog for a new wallet
\* returned an empty passphrase; otherwise window and pollShutdownTimer.
createWindow ==
  /\ Running /\ mpc = "window"
  /\ \/ Return(EXIT_FAILURE) /\ UNCHANGED <<window, pollShutdownTimer>>
     \/ /\ window' = TRUE /\ pollShutdownTimer' = TRUE
        /\ Goto("baseinit") /\ UNCHANGED returnValue
  /\ UNCHANGED <<platformStyle, optionsModel, clientModel, coreThread,
                 timerActive, quitting, guiQ, coreQ, cpc, shutdownAsked,
                 localsAlive, badDelete, exited, splash>>

\* node->baseInitialize(config): EXIT_FAILURE when it fails.
BaseInitialize ==
  /\ Running /\ mpc = "baseinit"
  /\ \/ Return(EXIT_FAILURE)
     \/ Goto("reqinit") /\ UNCHANGED returnValue
  /\ UNCHANGED <<appVars, quitting, guiQ, coreQ, cpc, shutdownAsked,
                 localsAlive, badDelete, exited, splash>>

\* startThread(); emit requestedInitialize (queued to the executor).
requestInitialize ==
  /\ Running /\ mpc = "reqinit"
  /\ coreThread' = TRUE
  /\ coreQ' = Append(coreQ, "initialize")
  /\ Goto("exec1")
  /\ UNCHANGED <<platformStyle, window, optionsModel, pollShutdownTimer,
                 clientModel, timerActive, quitting, returnValue, guiQ, cpc,
                 shutdownAsked, localsAlive, badDelete, exited, splash>>

-----------------------------------------------------------------------------
(* The GUI thread's event loops (app.exec()).                              *)

InLoop == mpc \in {"exec1", "exec2"}

\* exec() returns once quit() was called.
LoopReturns ==
  /\ Running /\ InLoop /\ quitting
  /\ quitting' = FALSE
  /\ Goto(IF mpc = "exec1" THEN "reqshutdown" ELSE "return")
  /\ UNCHANGED <<appVars, returnValue, guiQ, coreQ, cpc, shutdownAsked,
                 localsAlive, badDelete, exited, splash>>

\* Forgets quit() after a failed initialization.
initializeResultNoQuit(success) ==
  /\ splash' = IF splash = "shown" THEN "closed" ELSE splash
  /\ returnValue' = IF success THEN EXIT_SUCCESS ELSE EXIT_FAILURE
  /\ IF success
       THEN clientModel' = TRUE /\ timerActive' = TRUE /\ UNCHANGED quitting
       ELSE UNCHANGED <<quitting, clientModel, timerActive>>

\* BitcoinApplication::initializeResult: on failure emit splashFinished
\* and quit; on success create the client and wallet models, show the
\* window and start pollShutdownTimer.
initializeResult(success) ==
  /\ splash' = IF splash = "shown" THEN "closed" ELSE splash
  /\ returnValue' = IF success THEN EXIT_SUCCESS ELSE EXIT_FAILURE
  /\ IF success
       THEN clientModel' = TRUE /\ timerActive' = TRUE /\ UNCHANGED quitting
       ELSE quitting' = TRUE /\ UNCHANGED <<clientModel, timerActive>>

\* BitcoinApplication::shutdownResult: exit the second loop.
shutdownResult ==
  /\ quitting' = TRUE
  /\ UNCHANGED <<returnValue, clientModel, timerActive, splash>>

\* The loop delivers the next queued signal; handleRunawayException shows
\* a message box and calls ::exit.
DeliverToGui ==
  /\ Running /\ InLoop /\ ~quitting /\ guiQ # <<>>
  /\ guiQ' = Tail(guiQ)
  /\ CASE Head(guiQ) = "initOk"   -> initializeResult(TRUE) /\ UNCHANGED exited
       [] Head(guiQ) = "initFail" -> initializeResult(FALSE) /\ UNCHANGED exited
       [] Head(guiQ) = "shutdownResult" -> shutdownResult /\ UNCHANGED exited
       [] Head(guiQ) = "runaway" ->
            exited' = TRUE
            /\ UNCHANGED <<quitting, returnValue, clientModel, timerActive,
                           splash>>
  /\ UNCHANGED <<mpc, platformStyle, window, optionsModel, pollShutdownTimer,
                 coreThread, coreQ, cpc, shutdownAsked, localsAlive,
                 badDelete>>

\* pollShutdownTimer fires BitcoinGUI::detectShutdown, which quits once
\* the node has been asked to shut down.
DetectShutdown ==
  /\ Running /\ InLoop /\ ~quitting /\ timerActive /\ shutdownAsked
  /\ quitting' = TRUE
  /\ UNCHANGED <<mpc, appVars, returnValue, guiQ, coreQ, cpc, shutdownAsked,
                 localsAlive, badDelete, exited, splash>>

\* The user quits from the shown main window.
UserQuit ==
  /\ Running /\ mpc = "exec1" /\ ~quitting /\ clientModel
  /\ quitting' = TRUE
  /\ UNCHANGED <<mpc, appVars, returnValue, guiQ, coreQ, cpc, shutdownAsked,
                 localsAlive, badDelete, exited, splash>>

\* The user closes the splash screen, which calls StartShutdown.
CloseSplash ==
  /\ Running /\ splash = "shown"
  /\ splash' = "closed" /\ shutdownAsked' = TRUE
  /\ UNCHANGED <<mpc, appVars, quitting, returnValue, guiQ, coreQ, cpc,
                 localsAlive, badDelete, exited>>

\* An event loop with nothing to deliver waits.
LoopWaits ==
  /\ Running /\ InLoop
  /\ UNCHANGED vars

\* StartShutdown from elsewhere: a signal, whose handler baseInitialize's
\* AppInitBasicSetup installs, or the stop RPC, served once the core thread
\* initializes; both before requestShutdown sets the flag itself.
StartShutdown ==
  /\ Running /\ ~shutdownAsked /\ mpc \in {"reqinit", "exec1"}
  /\ shutdownAsked' = TRUE
  /\ UNCHANGED <<mpc, appVars, quitting, returnValue, guiQ, coreQ, cpc,
                 localsAlive, badDelete, exited, splash>>

\* Returns right after requestShutdown, without the second exec().
requestShutdownThenReturn ==
  /\ Running /\ mpc = "reqshutdown"
  /\ timerActive' = FALSE /\ clientModel' = FALSE /\ coreThread' = TRUE
  /\ shutdownAsked' = TRUE
  /\ coreQ' = Append(coreQ, "shutdown")
  /\ splash' = IF splash = "shown" THEN "closed" ELSE splash
  /\ Goto("return")
  /\ UNCHANGED <<platformStyle, window, optionsModel, pollShutdownTimer,
                 quitting, returnValue, guiQ, cpc, localsAlive, badDelete,
                 exited>>

\* requestShutdown: hide the window, stop pollShutdownTimer, delete the
\* models, startShutdown, emit requestedShutdown (which also closes the
\* splash screen); then the second exec().
requestShutdown ==
  /\ Running /\ mpc = "reqshutdown"
  /\ timerActive' = FALSE /\ clientModel' = FALSE /\ coreThread' = TRUE
  /\ shutdownAsked' = TRUE
  /\ coreQ' = Append(coreQ, "shutdown")
  /\ splash' = IF splash = "shown" THEN "closed" ELSE splash
  /\ Goto("exec2")
  /\ UNCHANGED <<platformStyle, window, optionsModel, pollShutdownTimer,
                 quitting, returnValue, guiQ, cpc, localsAlive, badDelete,
                 exited>>

\* return app.getReturnValue();
ReturnFromMain ==
  /\ Running /\ mpc = "return"
  /\ Return(returnValue)
  /\ UNCHANGED <<appVars, quitting, guiQ, coreQ, cpc, shutdownAsked,
                 localsAlive, badDelete, exited, splash>>

-----------------------------------------------------------------------------
(* Leaving main: locals, then ~BitcoinApplication.                         *)

DestroyLocals ==
  /\ Running /\ mpc = "destroy"
  /\ localsAlive' = FALSE
  /\ Goto("dtor")
  /\ UNCHANGED <<appVars, quitting, returnValue, guiQ, coreQ, cpc,
                 shutdownAsked, badDelete, exited, splash>>

\* The deletes at the end of ~BitcoinApplication.
DeleteMembers ==
  /\ badDelete' = (platformStyle = "uninit")
  /\ platformStyle' = "deleted" /\ window' = FALSE /\ optionsModel' = FALSE
  /\ Goto("done")

\* ~BitcoinApplication: with a core thread, emit stopThread and wait for it.
BitcoinApplicationDtor ==
  /\ Running /\ mpc = "dtor"
  /\ IF coreThread
       THEN /\ coreQ' = Append(coreQ, "stop") /\ Goto("wait")
            /\ UNCHANGED <<platformStyle, window, optionsModel, badDelete>>
       ELSE DeleteMembers /\ UNCHANGED coreQ
  /\ UNCHANGED <<pollShutdownTimer, clientModel, coreThread, timerActive,
                 quitting, returnValue, guiQ, cpc, shutdownAsked, localsAlive,
                 exited, splash>>

\* coreThread->wait() returns once the thread's loop has quit.
WaitCoreThread ==
  /\ Running /\ mpc = "wait" /\ cpc = "stopped"
  /\ DeleteMembers
  /\ UNCHANGED <<pollShutdownTimer, clientModel, coreThread, timerActive,
                 quitting, returnValue, guiQ, coreQ, cpc, shutdownAsked,
                 localsAlive, exited, splash>>

-----------------------------------------------------------------------------
(* The core thread: the DeVault executor's event loop.                     *)

\* The next queued signal: initialize, shutdown, or stopThread (deleteLater
\* and quit).
DeliverToCore ==
  /\ Running /\ cpc = "idle" /\ coreQ # <<>>
  /\ cpc' = CASE Head(coreQ) = "initialize" -> "init"
              [] Head(coreQ) = "shutdown"   -> "shutdown"
              [] Head(coreQ) = "stop"       -> "stopped"
  /\ coreQ' = Tail(coreQ)
  /\ UNCHANGED <<mpc, appVars, quitting, returnValue, guiQ, shutdownAsked,
                 localsAlive, badDelete, exited, splash>>

\* DeVault::initialize: appInitMain, then emit initializeResult; an
\* exception emits runawayException instead.
initialize ==
  /\ Running /\ cpc = "init"
  /\ \E r \in {"initOk", "initFail", "runaway"} : guiQ' = Append(guiQ, r)
  /\ cpc' = "idle"
  /\ UNCHANGED <<mpc, appVars, quitting, returnValue, coreQ, shutdownAsked,
                 localsAlive, badDelete, exited, splash>>

\* DeVault::shutdown: appShutdown, then emit shutdownResult.
shutdown ==
  /\ Running /\ cpc = "shutdown"
  /\ \E r \in {"shutdownResult", "runaway"} : guiQ' = Append(guiQ, r)
  /\ cpc' = "idle"
  /\ UNCHANGED <<mpc, appVars, quitting, returnValue, coreQ, shutdownAsked,
                 localsAlive, badDelete, exited, splash>>

\* main has finished, or ::exit ended the process.
Halted ==
  /\ mpc = "done" \/ exited
  /\ UNCHANGED vars

MainSteps ==
  \/ HelpRequested \/ initPlatformStyle \/ ChooseDataDirAndParams
  \/ createOptionsModel \/ createWindow \/ BaseInitialize
  \/ requestInitialize \/ requestShutdown \/ ReturnFromMain
  \/ DestroyLocals \/ BitcoinApplicationDtor \/ WaitCoreThread

Next ==
  \/ MainSteps \/ LoopReturns \/ DeliverToGui \/ DetectShutdown
  \/ UserQuit \/ StartShutdown \/ CloseSplash \/ LoopWaits
  \/ DeliverToCore \/ initialize \/ shutdown
  \/ Halted

\* Each thread keeps running: main proceeds through the steps that do not
\* wait for the user, each event loop delivers what is queued to it and
\* honours quit(), and pollShutdownTimer keeps firing.  The user is not
\* assumed to do anything: the Intro dialog (ChooseDataDirAndParams) and
\* the passphrase dialog of setupPassword (createWindow) may stay open for
\* ever, and UserQuit and CloseSplash are not fair.
Fairness ==
  /\ WF_vars(HelpRequested) /\ WF_vars(initPlatformStyle)
  /\ WF_vars(createOptionsModel) /\ WF_vars(BaseInitialize)
  /\ WF_vars(requestInitialize) /\ WF_vars(requestShutdown)
  /\ WF_vars(ReturnFromMain) /\ WF_vars(DestroyLocals)
  /\ WF_vars(BitcoinApplicationDtor) /\ WF_vars(WaitCoreThread)
  /\ WF_vars(LoopReturns) /\ WF_vars(DeliverToGui) /\ WF_vars(DetectShutdown)
  /\ WF_vars(DeliverToCore) /\ WF_vars(initialize) /\ WF_vars(shutdown)

Spec == Init /\ [][Next]_vars /\ Fairness

-----------------------------------------------------------------------------
(* Properties.                                                             *)

\* When main's locals (rpcServer, httpRPCRequestProcessor, config's users)
\* are destroyed, the core thread is not running appInitMain or
\* appShutdown and has no initialize or shutdown request still queued.
CoreIdleWhenLocalsDie ==
  ~localsAlive =>
    /\ cpc \notin {"init", "shutdown"}
    /\ \A i \in DOMAIN coreQ : coreQ[i] = "stop"

\* main is past the user's dialogs and has created the main window.
PastDialogs ==
  mpc \notin {"help", "platform", "datadir", "options", "window"}

\* Once main is past the dialogs and initialization has failed or the node
\* was asked to shut down (a signal, the stop RPC, the splash screen), main
\* returns (or the process exits on a runaway exception), whatever the core
\* thread answered and in whichever loop, with no help from the user.
MainEventuallyReturns ==
  (PastDialogs /\ (shutdownAsked \/ returnValue = EXIT_FAILURE))
    ~> (mpc = "done" \/ exited)

\* ~BitcoinApplication never deletes platformStyle before initPlatformStyle
\* has set it.
NoUninitialisedDelete == ~badDelete
=============================================================================

----------------------------- MODULE DesktopShell -----------------------------
(***************************************************************************)
(* The Electron shell of the gateway (electron/main.js): it spawns the Go  *)
(* server, probes its port until something answers, opens a tray icon and *)
(* a window, keeps running in the tray when the window is closed, reports  *)
(* a crash of the server in a dialog, and takes the server down with it    *)
(* when it quits.  The actors are the shell's event loop (each handler is  *)
(* one step), the child process, the network, and the user.                *)
(***************************************************************************)
EXTENDS Naturals, FiniteSets

CONSTANTS MaxRetries,   \* maxRetries of checkServerAvailability (30)
          WinIds        \* names for windows; their number bounds createWindow

ASSUME ShellAssumption == MaxRetries \in Nat \ {0} /\ IsFiniteSet(WinIds)

NoWin == "null"

ASSUME NoWinAssumption == NoWin \notin WinIds

VARIABLES
  dev,            \* NODE_ENV = development: no child, the Vite port is probed
  foreign,        \* another program answers on the probed port
  phase,          \* "launch", "starting", "running" (resolved), "failed"
  serverProcess,  \* the variable serverProcess holds a child object
  srv,            \* the child: "none", "booting", "up", "dead"
  code,           \* its exit code: "none", "zero", "null", "err"
  events,         \* events of the child not yet delivered
  signal,         \* strongest signal sent to a living child: "no","term","kill"
  attempts,       \* currentAttempt
  inflight,       \* probes waiting for an answer
  timers,         \* scheduled calls of tryConnect
  windows,        \* windows that exist
  visible,        \* windows that are shown
  mainWindow,     \* the variable mainWindow
  isQuitting,     \* app.isQuitting
  quitTimer,      \* a five second timer of before-quit is running
  quitHook,       \* before-quit has added its own 'close' listener
  dialogs,        \* open message boxes
  exited,         \* the shell's process is gone
  early,          \* history: a window was opened while the server was starting
  timedOut        \* history: a probe ran into its ten second timeout

probeVars  == <<attempts, inflight, timers, timedOut>>
childVars  == <<serverProcess, srv, code, events, signal>>
windowVars == <<windows, visible, mainWindow>>
quitVars   == <<isQuitting, quitTimer, quitHook, exited>>
envVars    == <<dev, foreign>>
vars == <<envVars, phase, childVars, probeVars, windowVars, quitVars, dialogs, early>>

Init ==
  /\ dev \in BOOLEAN /\ foreign \in BOOLEAN
  /\ phase = "launch"
  /\ serverProcess = FALSE /\ srv = "none" /\ code = "none"
  /\ events = {} /\ signal = "no"
  /\ attempts = 0 /\ inflight = 0 /\ timers = 0
  /\ windows = {} /\ visible = {} /\ mainWindow = NoWin
  /\ isQuitting = FALSE /\ quitTimer = FALSE /\ quitHook = FALSE
  /\ dialogs = {} /\ exited = FALSE
  /\ early = FALSE /\ timedOut = FALSE

Alive == srv \in {"booting", "up"}

(***************************************************************************)
(* startServer and checkServerAvailability                                 *)
(***************************************************************************)

\* app.whenReady: the child is spawned (not in development mode) and the first
\* probe is sent.  A spawn that fails reports through the 'error' event, which
\* Node may follow with 'close'.
StartServer ==
  /\ phase = "launch" /\ ~exited
  /\ phase' = "starting"
  /\ attempts' = 1 /\ inflight' = 1
  /\ IF dev
     THEN UNCHANGED childVars
     ELSE /\ serverProcess' = TRUE
          /\ UNCHANGED signal
          /\ \/ srv' = "booting" /\ UNCHANGED <<code, events>>
             \/ srv' = "dead" /\ code' = "err" /\ events' \in {{"error"}, {"error", "close"}}
  /\ UNCHANGED <<envVars, timers, timedOut, windowVars, quitVars, dialogs, early>>

\* startServer throws before it spawns anything (the data directory cannot be made):
\* its promise is rejected and the start-up dialog shown.
StartFails ==
  /\ phase = "launch" /\ ~exited /\ ~dev
  /\ phase' = "failed" /\ dialogs' = dialogs \cup {"start"}
  /\ UNCHANGED <<envVars, childVars, probeVars, windowVars, quitVars, early>>

\* createWindow: a new window becomes mainWindow and is shown.
CreateWindow(w) ==
  /\ w \in WinIds \ windows
  /\ windows' = windows \cup {w}
  /\ visible' = visible \cup {w}
  /\ mainWindow' = w

\* The promise of startServer is rejected: the catch block of whenReady shows
\* the start-up dialog.  A promise that is settled already stays as it is.
Rejected ==
  IF phase = "starting"
  THEN phase' = "failed" /\ dialogs' = dialogs \cup {"start"}
  ELSE UNCHANGED <<phase, dialogs>>

\* setTimeout(tryConnect, retryDelay) fires.
TryConnect ==
  /\ timers > 0 /\ ~exited
  /\ timers' = timers - 1
  /\ attempts' = attempts + 1
  /\ inflight' = inflight + 1
  /\ UNCHANGED <<envVars, phase, childVars, timedOut, windowVars, quitVars, dialogs, early>>

\* A probe is answered, by the child or by whatever holds the port: startServer
\* resolves, the tray and the window are created.  createTray or createWindow may
\* throw: the start-up dialog is shown, without a tray or with one and no window.
ProbeAnswered ==
  /\ inflight > 0 /\ ~exited
  /\ srv = "up" \/ foreign
  /\ inflight' = inflight - 1
  /\ IF phase = "starting"
     THEN \/ /\ phase' = "running" /\ UNCHANGED dialogs
             /\ \E w \in WinIds : CreateWindow(w)
          \/ /\ phase' \in {"running", "failed"} /\ UNCHANGED windowVars
             /\ dialogs' = dialogs \cup {"start"}
     ELSE UNCHANGED <<phase, dialogs, windowVars>>
  /\ UNCHANGED <<envVars, childVars, attempts, timers, timedOut, quitVars, early>>

\* Mutant: one attempt more.
RetryOnceMore(n) ==
  IF attempts > MaxRetries
  THEN Rejected /\ UNCHANGED timers
  ELSE timers' = timers + n /\ UNCHANGED <<phase, dialogs>>

\* Mutant: the last failure is not reported.
RetrySilently(n) ==
  /\ timers' = IF attempts >= MaxRetries THEN timers ELSE timers + n
  /\ UNCHANGED <<phase, dialogs>>

\* n handlers of a failed probe run: each gives up after maxRetries attempts, or
\* schedules another attempt.
Retry(n) ==
  IF attempts >= MaxRetries
  THEN Rejected /\ UNCHANGED timers
  ELSE timers' = timers + n /\ UNCHANGED <<phase, dialogs>>

\* req.on('error')
ProbeFailed ==
  /\ inflight > 0 /\ ~exited
  /\ inflight' = inflight - 1
  /\ Retry(1)
  /\ UNCHANGED <<envVars, childVars, attempts, timedOut, windowVars, quitVars, early>>

\* req.on('timeout'): destroying a request that has no response makes it emit
\* 'error' as well, so both handlers run for the one probe.
ProbeTimedOut ==
  /\ inflight > 0 /\ ~exited
  /\ inflight' = inflight - 1
  /\ timedOut' = TRUE
  /\ Retry(2)
  /\ UNCHANGED <<envVars, childVars, attempts, windowVars, quitVars, early>>

(***************************************************************************)
(* The child process                                                       *)
(***************************************************************************)

\* The server starts listening (it cannot while another program has the port).
ChildListens ==
  /\ srv = "booting" /\ ~foreign /\ signal # "kill"
  /\ srv' = "up"
  /\ UNCHANGED <<envVars, phase, serverProcess, code, events, signal, probeVars,
                 windowVars, quitVars, dialogs, early>>

\* The server ends: by itself, by an error, or by a signal (code null).
ChildExits ==
  /\ Alive
  /\ \E c \in {"zero", "err", "null"} :
        /\ c = "null" => signal # "no"
        /\ signal = "kill" => c = "null"
        /\ code' = c
  /\ srv' = "dead"
  /\ events' = events \cup {"close"}
  /\ UNCHANGED <<envVars, phase, serverProcess, signal, probeVars, windowVars,
                 quitVars, dialogs, early>>

\* serverProcess.on('error'): the promise is rejected.
ServerError ==
  /\ "error" \in events /\ ~exited
  /\ events' = events \ {"error"}
  /\ Rejected
  /\ UNCHANGED <<envVars, serverProcess, srv, code, signal, probeVars, windowVars,
                 quitVars, early>>

\* The 'close' handler of a window: destroyed when quitting, otherwise whatever
\* mainWindow names is hidden.
WindowClosed(w) ==
  IF isQuitting
  THEN windows' = windows \ {w} /\ visible' = visible \ {w} /\ mainWindow' = NoWin
  ELSE visible' = visible \ {mainWindow} /\ UNCHANGED <<windows, mainWindow>>

\* serverProcess.on('close'): an error code opens the crash dialog, a normal
\* exit closes the window.  The listener before-quit added runs after it and
\* ends the shell.  serverProcess keeps the dead child unless that one ran.
ServerClosed ==
  /\ "close" \in events /\ "error" \notin events /\ ~exited
  /\ events' = events \ {"close"}
  /\ IF code = "err"
     THEN dialogs' = dialogs \cup {"crash"} /\ UNCHANGED windowVars
     ELSE /\ UNCHANGED dialogs
          /\ IF mainWindow = NoWin THEN UNCHANGED windowVars ELSE WindowClosed(mainWindow)
  /\ IF quitHook
     THEN serverProcess' = FALSE /\ exited' = TRUE
     ELSE UNCHANGED <<serverProcess, exited>>
  /\ UNCHANGED <<envVars, phase, srv, code, signal, probeVars, isQuitting,
                 quitTimer, quitHook, early>>

(***************************************************************************)
(* Quitting                                                                *)
(***************************************************************************)

\* Mutant: before-quit waits for the close event alone.
AppQuitWaits(q) ==
  /\ isQuitting' = q
  /\ IF serverProcess
     THEN /\ quitHook' = TRUE
          /\ signal' = IF Alive /\ signal = "no" THEN "term" ELSE signal
          /\ UNCHANGED <<windowVars, exited, quitTimer>>
     ELSE /\ UNCHANGED <<quitTimer, quitHook, signal>>
          /\ IF q \/ windows = {}
             THEN windows' = {} /\ visible' = {} /\ mainWindow' = NoWin /\ exited' = TRUE
             ELSE visible' = visible \ {mainWindow} /\ UNCHANGED <<windows, mainWindow, exited>>
  /\ UNCHANGED <<serverProcess, srv, code, events>>

\* app.quit() with app.isQuitting = q.  before-quit holds the quit back while
\* serverProcess is set, sends SIGTERM and starts the five second timer.  With
\* no child Electron closes the windows, which a close handler may refuse.
AppQuit(q) ==
  /\ isQuitting' = q
  /\ IF serverProcess
     THEN /\ quitTimer' = TRUE /\ quitHook' = TRUE
          /\ signal' = IF Alive /\ signal = "no" THEN "term" ELSE signal
          /\ UNCHANGED <<windowVars, exited>>
     ELSE /\ UNCHANGED <<quitTimer, quitHook, signal>>
          /\ IF q \/ windows = {}
             THEN windows' = {} /\ visible' = {} /\ mainWindow' = NoWin /\ exited' = TRUE
             ELSE visible' = visible \ {mainWindow} /\ UNCHANGED <<windows, mainWindow, exited>>
  /\ UNCHANGED <<serverProcess, srv, code, events>>

\* Mutant: the timer only exits.
QuitTimerExits ==
  /\ quitTimer /\ ~exited
  /\ exited' = TRUE /\ quitTimer' = FALSE
  /\ UNCHANGED <<envVars, phase, childVars, probeVars,
                 windowVars, isQuitting, quitHook, dialogs, early>>

\* The timer of before-quit: a child that is still there is killed, the shell exits.
QuitTimerFires ==
  /\ quitTimer /\ ~exited
  /\ signal' = IF serverProcess /\ Alive THEN "kill" ELSE signal
  /\ exited' = TRUE /\ quitTimer' = FALSE
  /\ UNCHANGED <<envVars, phase, serverProcess, srv, code, events, probeVars,
                 windowVars, isQuitting, quitHook, dialogs, early>>

\* saveAndOpenErrorLog: whether or not the log could be written, a second
\* message box confirms and only offers to quit.
FullLog(d) == IF d = "crash" THEN "crashLog" ELSE "startLog"

\* The user asks a message box for the full log.
ViewLog(d) ==
  /\ d \in dialogs \cap {"crash", "start"} /\ ~exited
  /\ dialogs' = (dialogs \ {d}) \cup {FullLog(d)}
  /\ UNCHANGED <<envVars, phase, childVars, probeVars, windowVars, quitVars, early>>

\* The crash dialog, or the confirmation after it, is answered with quit.
AnswerCrash(d) ==
  /\ d \in dialogs \cap {"crash", "crashLog"} /\ ~exited
  /\ dialogs' = dialogs \ {d}
  /\ AppQuit(TRUE)
  /\ UNCHANGED <<envVars, phase, probeVars, early>>

\* The start-up dialog is answered with quit: app.isQuitting is not set here.
AnswerStart(d) ==
  /\ d \in dialogs \cap {"start", "startLog"} /\ ~exited
  /\ dialogs' = dialogs \ {d}
  /\ AppQuit(isQuitting)
  /\ UNCHANGED <<envVars, phase, probeVars, early>>

\* Quit in the tray menu.
TrayQuit ==
  /\ phase = "running" /\ ~exited
  /\ AppQuit(TRUE)
  /\ UNCHANGED <<envVars, phase, probeVars, dialogs, early>>

\* The system asks the application to quit (menu, dock, end of session).
SystemQuit ==
  /\ phase # "launch" /\ ~exited
  /\ AppQuit(isQuitting)
  /\ UNCHANGED <<envVars, phase, probeVars, dialogs, early>>

(***************************************************************************)
(* Windows and tray                                                        *)
(***************************************************************************)

\* The user closes a window.
CloseWindow(w) ==
  /\ w \in visible /\ ~exited
  /\ WindowClosed(w)
  /\ UNCHANGED <<envVars, phase, childVars, probeVars, quitVars, dialogs, early>>

\* "Show" in the tray menu, or a click on the icon of a hidden window; the icon
\* of a shown window hides it.
TrayShow ==
  /\ phase = "running" /\ ~exited
  /\ IF mainWindow = NoWin
     THEN \E w \in WinIds : CreateWindow(w)
     ELSE /\ visible' \in {visible \cup {mainWindow}} \cup
                          (IF mainWindow \in visible THEN {visible \ {mainWindow}} ELSE {})
          /\ UNCHANGED <<windows, mainWindow>>
  /\ UNCHANGED <<envVars, phase, childVars, probeVars, quitVars, dialogs, early>>

\* Mutant: activate does not look at the windows there are.
ActivateAlways ==
  /\ phase # "launch" /\ ~exited
  /\ \E w \in WinIds : CreateWindow(w)
  /\ early' = (early \/ phase = "starting")
  /\ UNCHANGED <<envVars, phase, childVars, probeVars, quitVars, dialogs>>

\* app.on('activate') (macOS): a window is made when there is none, whether or
\* not the server has come up.
Activate ==
  /\ phase # "launch" /\ ~exited
  /\ windows = {}
  /\ \E w \in WinIds : CreateWindow(w)
  /\ early' = (early \/ phase = "starting")
  /\ UNCHANGED <<envVars, phase, childVars, probeVars, quitVars, dialogs>>

-----------------------------------------------------------------------------

Next ==
  \/ StartServer \/ StartFails \/ TryConnect \/ ProbeAnswered \/ ProbeFailed \/ ProbeTimedOut
  \/ ChildListens \/ ChildExits \/ ServerError \/ ServerClosed
  \/ QuitTimerFires \/ TrayQuit \/ SystemQuit
  \/ \E d \in dialogs : ViewLog(d) \/ AnswerCrash(d) \/ AnswerStart(d)
  \/ \E w \in WinIds : CloseWindow(w)
  \/ TrayShow \/ Activate

Spec == Init /\ [][Next]_vars

\* Timers fire, a request ends at the latest by its timeout, events that were
\* raised are delivered.  Nothing is assumed of the user or of the child.
FairSpec ==
  /\ Spec
  /\ WF_vars(TryConnect)
  /\ WF_vars(ProbeAnswered \/ ProbeFailed \/ ProbeTimedOut)
  /\ WF_vars(QuitTimerFires)
  /\ WF_vars(ServerError \/ ServerClosed)

-----------------------------------------------------------------------------
(***************************************************************************)
(* Properties                                                              *)
(***************************************************************************)

TypeOK ==
  /\ dev \in BOOLEAN /\ foreign \in BOOLEAN
  /\ phase \in {"launch", "starting", "running", "failed"}
  /\ serverProcess \in BOOLEAN
  /\ srv \in {"none", "booting", "up", "dead"}
  /\ code \in {"none", "zero", "null", "err"}
  /\ events \subseteq {"error", "close"}
  /\ signal \in {"no", "term", "kill"}
  /\ attempts \in Nat /\ inflight \in Nat /\ timers \in Nat
  /\ windows \subseteq WinIds /\ visible \subseteq windows
  /\ mainWindow \in windows \cup {NoWin}
  /\ isQuitting \in BOOLEAN /\ quitTimer \in BOOLEAN /\ quitHook \in BOOLEAN
  /\ dialogs \subseteq {"crash", "crashLog", "start", "startLog"}
  /\ exited \in BOOLEAN /\ early \in BOOLEAN /\ timedOut \in BOOLEAN

\* Whatever way the shell ends (tray, system, a dialog after a crash or a failed
\* start, the close event or the five second timer), it leaves no server behind:
\* the child is gone or has been sent SIGKILL.
NoOrphan == exited => (~Alive \/ signal = "kill")

\* mainWindow tracks every window through closing to the tray, the tray menu,
\* activation and quitting: a second window, which no handler would find again,
\* appears only when macOS activates the application while the server is still
\* starting (whenReady then makes its own window without looking).
OneWindow == Cardinality(windows) > 1 => early

\* Probes follow one another: two of them overlap, or more than maxRetries are
\* sent, only after one ran into its timeout (whose destroyed request also
\* reports an error, so that two retries are scheduled).
OneProbeChain == ~timedOut => inflight + timers <= 1 /\ attempts <= MaxRetries

\* The start always comes to an end: the window opens, or the failure is
\* reported, or the user has quit meanwhile.
StartupSettles == (phase = "starting") ~> (phase # "starting" \/ exited)

\* A quit the user asked for ends the shell, also when the server died before
\* and its close event will never come again.
QuitExits == (isQuitting \/ quitTimer) ~> exited

\* The comment at the close handler of the server says that a normal exit
\* (code 0 or null) closes the window directly.
NormalExitClosesWindow ==
  [][ServerClosed /\ code # "err" => mainWindow \notin windows']_vars
=============================================================================

-------------------------- MODULE DesktopShellProofs --------------------------
(***************************************************************************)
(* Proofs about the desktop shell, for every number of retries and of      *)
(* windows: it leaves no server process behind, probes of the port         *)
(* follow one another until one of them times out, and mainWindow is the   *)
(* only window unless one was opened while the server was starting.        *)
(***************************************************************************)
EXTENDS DesktopShell, FiniteSetTheorems, TLAPS

\* A child that lives is the one serverProcess names, so that quitting finds it;
\* a 'close' event is raised by a dead child; nothing happens before StartServer.
ChildKnown ==
  /\ Alive => serverProcess
  /\ "close" \in events => ~Alive
  /\ phase = "launch" => events = {} /\ ~Alive

\* NoOrphan with what makes it inductive.
OrphanInv == TypeOK /\ ChildKnown /\ NoOrphan

\* OneProbeChain counts the attempt a timer stands for, and starts from nothing.
ProbeChain ==
  /\ phase = "launch" => inflight = 0 /\ timers = 0
  /\ ~timedOut => inflight + timers <= 1 /\ attempts + timers <= MaxRetries

ProbeInv == TypeOK /\ ProbeChain

\* The flags of TypeOK, and the rest of it.
FlagsOK ==
  /\ dev \in BOOLEAN /\ foreign \in BOOLEAN /\ serverProcess \in BOOLEAN
  /\ isQuitting \in BOOLEAN /\ quitTimer \in BOOLEAN /\ quitHook \in BOOLEAN
  /\ exited \in BOOLEAN /\ early \in BOOLEAN /\ timedOut \in BOOLEAN

StatesOK ==
  /\ phase \in {"launch", "starting", "running", "failed"}
  /\ srv \in {"none", "booting", "up", "dead"}
  /\ code \in {"none", "zero", "null", "err"}
  /\ events \subseteq {"error", "close"}
  /\ signal \in {"no", "term", "kill"}
  /\ attempts \in Nat /\ inflight \in Nat /\ timers \in Nat
  /\ dialogs \subseteq {"crash", "crashLog", "start", "startLog"}

WindowsOK ==
  /\ windows \subseteq WinIds /\ visible \subseteq windows
  /\ mainWindow \in windows \cup {NoWin}

\* Handlers set flags to Booleans.
LEMMA FlagsStep == TypeOK /\ [Next]_vars => FlagsOK'
<1> SUFFICES ASSUME TypeOK, [Next]_vars PROVE FlagsOK'
  OBVIOUS
<1>1. CASE StartServer
  BY <1>1, Zenon DEF TypeOK, FlagsOK, StartServer, envVars, childVars, windowVars, quitVars
<1>20. CASE StartFails
  BY <1>20, Zenon DEF TypeOK, FlagsOK, StartFails, envVars, childVars, probeVars, windowVars, quitVars
<1>2. CASE TryConnect
  BY <1>2, Zenon DEF TypeOK, FlagsOK, TryConnect, envVars, childVars, windowVars, quitVars
<1>3. CASE ProbeAnswered
  BY <1>3, Zenon DEF TypeOK, FlagsOK, ProbeAnswered, CreateWindow, envVars, childVars,
     windowVars, quitVars
<1>4. CASE ProbeFailed
  BY <1>4, Zenon DEF TypeOK, FlagsOK, ProbeFailed, Retry, Rejected, envVars, childVars,
     windowVars, quitVars
<1>5. CASE ProbeTimedOut
  BY <1>5, Zenon DEF TypeOK, FlagsOK, ProbeTimedOut, Retry, Rejected, envVars,
     childVars, windowVars, quitVars
<1>6. CASE ChildListens
  BY <1>6, Zenon DEF TypeOK, FlagsOK, ChildListens, envVars, probeVars, windowVars, quitVars
<1>7. CASE ChildExits
  BY <1>7, Zenon DEF TypeOK, FlagsOK, ChildExits, envVars, probeVars, windowVars, quitVars
<1>8. CASE ServerError
  BY <1>8, Zenon DEF TypeOK, FlagsOK, ServerError, Rejected, envVars, probeVars,
     windowVars, quitVars
<1>9. CASE ServerClosed
  BY <1>9, Zenon DEF TypeOK, FlagsOK, ServerClosed, WindowClosed, envVars, probeVars,
     windowVars
<1>10. CASE QuitTimerFires
  BY <1>10, Zenon DEF TypeOK, FlagsOK, QuitTimerFires, envVars, probeVars, windowVars
<1>11. CASE TrayQuit
  BY <1>11, Zenon DEF TypeOK, FlagsOK, TrayQuit, AppQuit, envVars, probeVars, windowVars
<1>12. CASE SystemQuit
  BY <1>12, Zenon DEF TypeOK, FlagsOK, SystemQuit, AppQuit, envVars, probeVars, windowVars
<1>13. ASSUME NEW d \in dialogs, ViewLog(d) PROVE FlagsOK'
  BY <1>13, Zenon DEF TypeOK, FlagsOK, ViewLog, FullLog, envVars, childVars, probeVars,
     windowVars, quitVars
<1>14. ASSUME NEW d \in dialogs, AnswerCrash(d) PROVE FlagsOK'
  BY <1>14, Zenon DEF TypeOK, FlagsOK, AnswerCrash, AppQuit, envVars, probeVars, windowVars
<1>15. ASSUME NEW d \in dialogs, AnswerStart(d) PROVE FlagsOK'
  BY <1>15, Zenon DEF TypeOK, FlagsOK, AnswerStart, AppQuit, envVars, probeVars, windowVars
<1>16. ASSUME NEW w \in WinIds, CloseWindow(w) PROVE FlagsOK'
  BY <1>16, Zenon DEF TypeOK, FlagsOK, CloseWindow, WindowClosed, envVars, childVars,
     probeVars, quitVars
<1>17. CASE TrayShow
  BY <1>17, Zenon DEF TypeOK, FlagsOK, TrayShow, CreateWindow, envVars, childVars,
     probeVars, quitVars
<1>18. CASE Activate
  BY <1>18, Zenon DEF TypeOK, FlagsOK, Activate, CreateWindow, envVars, childVars,
     probeVars, quitVars
<1>19. CASE UNCHANGED vars
  BY <1>19, Zenon DEF TypeOK, FlagsOK, vars, envVars, childVars, probeVars, windowVars,
     quitVars
<1> QED
  BY <1>1, <1>2, <1>3, <1>4, <1>5, <1>6, <1>7, <1>8, <1>9, <1>10, <1>11, <1>12, <1>13,
     <1>14, <1>15, <1>16, <1>17, <1>18, <1>19, <1>20 DEF Next

\* Handlers keep the phase, the child's state, the counters and the dialogs in their types.
LEMMA StatesStep == TypeOK /\ [Next]_vars => StatesOK'
<1> SUFFICES ASSUME TypeOK, [Next]_vars PROVE StatesOK'
  OBVIOUS
<1> USE ShellAssumption, NoWinAssumption
<1>1. CASE StartServer
  BY <1>1 DEF TypeOK, StatesOK, StartServer, envVars, childVars, windowVars, quitVars
<1>20. CASE StartFails
  BY <1>20 DEF TypeOK, StatesOK, StartFails, envVars, childVars, probeVars, windowVars, quitVars
<1>2. CASE TryConnect
  BY <1>2 DEF TypeOK, StatesOK, TryConnect, envVars, childVars, windowVars, quitVars
<1>3. CASE ProbeAnswered
  <2>1. inflight' \in Nat /\ timers' \in Nat /\ attempts' \in Nat
    BY <1>3 DEF TypeOK, ProbeAnswered
  <2>2. /\ phase' \in {"launch", "starting", "running", "failed"}
        /\ dialogs' \subseteq {"crash", "crashLog", "start", "startLog"}
    BY <1>3 DEF TypeOK, ProbeAnswered
  <2>3. QED
    BY <1>3, <2>1, <2>2 DEF TypeOK, StatesOK, ProbeAnswered, childVars
<1>4. CASE ProbeFailed
  <2>1. MaxRetries \in Nat
    BY ShellAssumption
  <2>2. inflight' \in Nat /\ timers' \in Nat /\ attempts' \in Nat
    BY <1>4, <2>1 DEF TypeOK, ProbeFailed, Retry
  <2>3. /\ phase' \in {"launch", "starting", "running", "failed"}
        /\ dialogs' \subseteq {"crash", "crashLog", "start", "startLog"}
    BY <1>4 DEF TypeOK, ProbeFailed, Retry, Rejected
  <2>4. QED
    BY <1>4, <2>2, <2>3 DEF TypeOK, StatesOK, ProbeFailed, childVars
<1>5. CASE ProbeTimedOut
  <2>1. MaxRetries \in Nat
    BY ShellAssumption
  <2>2. inflight' \in Nat /\ timers' \in Nat /\ attempts' \in Nat
    BY <1>5, <2>1 DEF TypeOK, ProbeTimedOut, Retry
  <2>3. /\ phase' \in {"launch", "starting", "running", "failed"}
        /\ dialogs' \subseteq {"crash", "crashLog", "start", "startLog"}
    BY <1>5 DEF TypeOK, ProbeTimedOut, Retry, Rejected
  <2>4. QED
    BY <1>5, <2>2, <2>3 DEF TypeOK, StatesOK, ProbeTimedOut, childVars
<1>6. CASE ChildListens
  BY <1>6 DEF TypeOK, StatesOK, ChildListens, envVars, probeVars, windowVars, quitVars
<1>7. CASE ChildExits
  BY <1>7 DEF TypeOK, StatesOK, ChildExits, envVars, probeVars, windowVars, quitVars
<1>8. CASE ServerError
  BY <1>8 DEF TypeOK, StatesOK, ServerError, Rejected, envVars, probeVars, windowVars,
     quitVars
<1>9. CASE ServerClosed
  BY <1>9 DEF TypeOK, StatesOK, ServerClosed, WindowClosed, envVars, probeVars, windowVars
<1>10. CASE QuitTimerFires
  BY <1>10 DEF TypeOK, StatesOK, QuitTimerFires, envVars, probeVars, windowVars
<1>11. CASE TrayQuit
  BY <1>11 DEF TypeOK, StatesOK, TrayQuit, AppQuit, envVars, probeVars, windowVars
<1>12. CASE SystemQuit
  BY <1>12 DEF TypeOK, StatesOK, SystemQuit, AppQuit, envVars, probeVars, windowVars
<1>13. ASSUME NEW d \in dialogs, ViewLog(d) PROVE StatesOK'
  BY <1>13 DEF TypeOK, StatesOK, ViewLog, FullLog, envVars, childVars, probeVars,
     windowVars, quitVars
<1>14. ASSUME NEW d \in dialogs, AnswerCrash(d) PROVE StatesOK'
  BY <1>14 DEF TypeOK, StatesOK, AnswerCrash, AppQuit, envVars, probeVars, windowVars
<1>15. ASSUME NEW d \in dialogs, AnswerStart(d) PROVE StatesOK'
  BY <1>15 DEF TypeOK, StatesOK, AnswerStart, AppQuit, envVars, probeVars, windowVars
<1>16. ASSUME NEW w \in WinIds, CloseWindow(w) PROVE StatesOK'
  BY <1>16 DEF TypeOK, StatesOK, CloseWindow, WindowClosed, envVars, childVars,
     probeVars, quitVars
<1>17. CASE TrayShow
  BY <1>17 DEF TypeOK, StatesOK, TrayShow, CreateWindow, envVars, childVars, probeVars,
     quitVars
<1>18. CASE Activate
  BY <1>18 DEF TypeOK, StatesOK, Activate, CreateWindow, envVars, childVars, probeVars,
     quitVars
<1>19. CASE UNCHANGED vars
  BY <1>19 DEF TypeOK, StatesOK, vars, envVars, childVars, probeVars, windowVars, quitVars
<1> QED
  BY <1>1, <1>2, <1>3, <1>4, <1>5, <1>6, <1>7, <1>8, <1>9, <1>10, <1>11, <1>12, <1>13,
     <1>14, <1>15, <1>16, <1>17, <1>18, <1>19, <1>20 DEF Next

\* Handlers show windows that exist, and mainWindow names one of them or none.
LEMMA WindowsStep == TypeOK /\ [Next]_vars => WindowsOK'
<1> SUFFICES ASSUME TypeOK, [Next]_vars PROVE WindowsOK'
  OBVIOUS
<1> USE ShellAssumption, NoWinAssumption
<1>1. CASE StartServer
  BY <1>1 DEF TypeOK, WindowsOK, StartServer, envVars, childVars, windowVars, quitVars
<1>20. CASE StartFails
  BY <1>20 DEF TypeOK, WindowsOK, StartFails, envVars, childVars, probeVars, windowVars, quitVars
<1>2. CASE TryConnect
  BY <1>2 DEF TypeOK, WindowsOK, TryConnect, envVars, childVars, windowVars, quitVars
<1>3. CASE ProbeAnswered
  BY <1>3 DEF TypeOK, WindowsOK, ProbeAnswered, CreateWindow, envVars, childVars,
     windowVars, quitVars
<1>4. CASE ProbeFailed
  BY <1>4 DEF TypeOK, WindowsOK, ProbeFailed, Retry, Rejected, envVars, childVars,
     windowVars, quitVars
<1>5. CASE ProbeTimedOut
  BY <1>5 DEF TypeOK, WindowsOK, ProbeTimedOut, Retry, Rejected, envVars, childVars,
     windowVars, quitVars
<1>6. CASE ChildListens
  BY <1>6 DEF TypeOK, WindowsOK, ChildListens, envVars, probeVars, windowVars, quitVars
<1>7. CASE ChildExits
  BY <1>7 DEF TypeOK, WindowsOK, ChildExits, envVars, probeVars, windowVars, quitVars
<1>8. CASE ServerError
  BY <1>8 DEF TypeOK, WindowsOK, ServerError, Rejected, envVars, probeVars, windowVars,
     quitVars
<1>9. CASE ServerClosed
  BY <1>9 DEF TypeOK, WindowsOK, ServerClosed, WindowClosed, envVars, probeVars, windowVars
<1>10. CASE QuitTimerFires
  BY <1>10 DEF TypeOK, WindowsOK, QuitTimerFires, envVars, probeVars, windowVars
<1>11. CASE TrayQuit
  BY <1>11 DEF TypeOK, WindowsOK, TrayQuit, AppQuit, envVars, probeVars, windowVars
<1>12. CASE SystemQuit
  BY <1>12 DEF TypeOK, WindowsOK, SystemQuit, AppQuit, envVars, probeVars, windowVars
<1>13. ASSUME NEW d \in dialogs, ViewLog(d) PROVE WindowsOK'
  BY <1>13 DEF TypeOK, WindowsOK, ViewLog, FullLog, envVars, childVars, probeVars,
     windowVars, quitVars
<1>14. ASSUME NEW d \in dialogs, AnswerCrash(d) PROVE WindowsOK'
  BY <1>14 DEF TypeOK, WindowsOK, AnswerCrash, AppQuit, envVars, probeVars, windowVars
<1>15. ASSUME NEW d \in dialogs, AnswerStart(d) PROVE WindowsOK'
  BY <1>15 DEF TypeOK, WindowsOK, AnswerStart, AppQuit, envVars, probeVars, windowVars
<1>16. ASSUME NEW w \in WinIds, CloseWindow(w) PROVE WindowsOK'
  BY <1>16 DEF TypeOK, WindowsOK, CloseWindow, WindowClosed, envVars, childVars,
     probeVars, quitVars
<1>17. CASE TrayShow
  BY <1>17 DEF TypeOK, WindowsOK, TrayShow, CreateWindow, envVars, childVars, probeVars,
     quitVars
<1>18. CASE Activate
  BY <1>18 DEF TypeOK, WindowsOK, Activate, CreateWindow, envVars, childVars, probeVars,
     quitVars
<1>19. CASE UNCHANGED vars
  BY <1>19 DEF TypeOK, WindowsOK, vars, envVars, childVars, probeVars, windowVars, quitVars
<1> QED
  BY <1>1, <1>2, <1>3, <1>4, <1>5, <1>6, <1>7, <1>8, <1>9, <1>10, <1>11, <1>12, <1>13,
     <1>14, <1>15, <1>16, <1>17, <1>18, <1>19, <1>20 DEF Next

\* No handler loses sight of a living child, or ends the shell before it.
LEMMA OrphanStep == OrphanInv /\ [Next]_vars => ChildKnown' /\ NoOrphan'
<1> SUFFICES ASSUME OrphanInv, [Next]_vars PROVE ChildKnown' /\ NoOrphan'
  OBVIOUS
<1> USE DEF OrphanInv, TypeOK, ChildKnown, NoOrphan, Alive
<1>1. CASE StartServer
  BY <1>1 DEF StartServer, envVars, childVars, windowVars, quitVars
<1>20. CASE StartFails
  BY <1>20 DEF StartFails, envVars, childVars, probeVars, windowVars, quitVars
<1>2. CASE TryConnect
  BY <1>2 DEF TryConnect, envVars, childVars, windowVars, quitVars
<1>3. CASE ProbeAnswered
  BY <1>3 DEF ProbeAnswered, CreateWindow, envVars, childVars, windowVars, quitVars
<1>4. CASE ProbeFailed
  BY <1>4 DEF ProbeFailed, Retry, Rejected, envVars, childVars, windowVars, quitVars
<1>5. CASE ProbeTimedOut
  BY <1>5 DEF ProbeTimedOut, Retry, Rejected, envVars, childVars, windowVars, quitVars
<1>6. CASE ChildListens
  BY <1>6 DEF ChildListens, envVars, probeVars, windowVars, quitVars
<1>7. CASE ChildExits
  BY <1>7 DEF ChildExits, envVars, probeVars, windowVars, quitVars
<1>8. CASE ServerError
  BY <1>8 DEF ServerError, Rejected, envVars, probeVars, windowVars, quitVars
<1>9. CASE ServerClosed
  BY <1>9 DEF ServerClosed, WindowClosed, envVars, probeVars, windowVars
<1>10. CASE QuitTimerFires
  BY <1>10 DEF QuitTimerFires, envVars, probeVars, windowVars
<1>11. CASE TrayQuit
  BY <1>11 DEF TrayQuit, AppQuit, envVars, probeVars, windowVars
<1>12. CASE SystemQuit
  BY <1>12 DEF SystemQuit, AppQuit, envVars, probeVars, windowVars
<1>13. ASSUME NEW d \in dialogs, ViewLog(d) PROVE ChildKnown' /\ NoOrphan'
  BY <1>13 DEF ViewLog, FullLog, envVars, childVars, probeVars, windowVars, quitVars
<1>14. ASSUME NEW d \in dialogs, AnswerCrash(d) PROVE ChildKnown' /\ NoOrphan'
  BY <1>14 DEF AnswerCrash, AppQuit, envVars, probeVars, windowVars
<1>15. ASSUME NEW d \in dialogs, AnswerStart(d) PROVE ChildKnown' /\ NoOrphan'
  BY <1>15 DEF AnswerStart, AppQuit, envVars, probeVars, windowVars
<1>16. ASSUME NEW w \in WinIds, CloseWindow(w) PROVE ChildKnown' /\ NoOrphan'
  BY <1>16 DEF CloseWindow, WindowClosed, envVars, childVars, probeVars, quitVars
<1>17. CASE TrayShow
  BY <1>17 DEF TrayShow, CreateWindow, envVars, childVars, probeVars, quitVars
<1>18. CASE Activate
  BY <1>18 DEF Activate, CreateWindow, envVars, childVars, probeVars, quitVars
<1>19. CASE UNCHANGED vars
  BY <1>19 DEF vars, envVars, childVars, probeVars, windowVars, quitVars
<1> QED
  BY <1>1, <1>2, <1>3, <1>4, <1>5, <1>6, <1>7, <1>8, <1>9, <1>10, <1>11, <1>12, <1>13,
     <1>14, <1>15, <1>16, <1>17, <1>18, <1>19, <1>20 DEF Next

\* A probe that fails schedules the next one; only a timeout schedules two.
LEMMA ProbeStep == ProbeInv /\ [Next]_vars => ProbeChain'
<1> SUFFICES ASSUME ProbeInv, [Next]_vars PROVE ProbeChain'
  OBVIOUS
<1> USE DEF ProbeInv, TypeOK, ProbeChain
<1>0. MaxRetries \in Nat \ {0}
  BY ShellAssumption
<1> USE <1>0
<1>1. CASE StartServer
  BY <1>1 DEF StartServer, envVars, childVars, windowVars, quitVars
<1>20. CASE StartFails
  BY <1>20 DEF StartFails, envVars, childVars, probeVars, windowVars, quitVars
<1>2. CASE TryConnect
  BY <1>2 DEF TryConnect, envVars, childVars, windowVars, quitVars
<1>3. CASE ProbeAnswered
  BY <1>3 DEF ProbeAnswered, CreateWindow, envVars, childVars, windowVars, quitVars
<1>4. CASE ProbeFailed
  BY <1>4 DEF ProbeFailed, Retry, Rejected, envVars, childVars, windowVars, quitVars
<1>5. CASE ProbeTimedOut
  BY <1>5 DEF ProbeTimedOut, Retry, Rejected, envVars, childVars, windowVars, quitVars
<1>6. CASE ChildListens
  BY <1>6 DEF ChildListens, envVars, probeVars, windowVars, quitVars
<1>7. CASE ChildExits
  BY <1>7 DEF ChildExits, envVars, probeVars, windowVars, quitVars
<1>8. CASE ServerError
  BY <1>8 DEF ServerError, Rejected, envVars, probeVars, windowVars, quitVars
<1>9. CASE ServerClosed
  BY <1>9 DEF ServerClosed, WindowClosed, envVars, probeVars, windowVars
<1>10. CASE QuitTimerFires
  BY <1>10 DEF QuitTimerFires, envVars, probeVars, windowVars
<1>11. CASE TrayQuit
  BY <1>11 DEF TrayQuit, AppQuit, envVars, probeVars, windowVars
<1>12. CASE SystemQuit
  BY <1>12 DEF SystemQuit, AppQuit, envVars, probeVars, windowVars
<1>13. ASSUME NEW d \in dialogs, ViewLog(d) PROVE ProbeChain'
  BY <1>13 DEF ViewLog, FullLog, envVars, childVars, probeVars, windowVars, quitVars
<1>14. ASSUME NEW d \in dialogs, AnswerCrash(d) PROVE ProbeChain'
  BY <1>14 DEF AnswerCrash, AppQuit, envVars, probeVars, windowVars
<1>15. ASSUME NEW d \in dialogs, AnswerStart(d) PROVE ProbeChain'
  BY <1>15 DEF AnswerStart, AppQuit, envVars, probeVars, windowVars
<1>16. ASSUME NEW w \in WinIds, CloseWindow(w) PROVE ProbeChain'
  BY <1>16 DEF CloseWindow, WindowClosed, envVars, childVars, probeVars, quitVars
<1>17. CASE TrayShow
  BY <1>17 DEF TrayShow, CreateWindow, envVars, childVars, probeVars, quitVars
<1>18. CASE Activate
  BY <1>18 DEF Activate, CreateWindow, envVars, childVars, probeVars, quitVars
<1>19. CASE UNCHANGED vars
  BY <1>19 DEF vars, envVars, childVars, probeVars, windowVars, quitVars
<1> QED
  BY <1>1, <1>2, <1>3, <1>4, <1>5, <1>6, <1>7, <1>8, <1>9, <1>10, <1>11, <1>12, <1>13,
     <1>14, <1>15, <1>16, <1>17, <1>18, <1>19, <1>20 DEF Next

\* The initial state, and every step from a well-typed state, is well typed.
LEMMA TypeInit == Init => TypeOK
<1>1. Init => FlagsOK
  BY Zenon DEF Init, FlagsOK
<1>2. Init => StatesOK /\ WindowsOK
  BY DEF Init, StatesOK, WindowsOK
<1>3. QED
  BY <1>1, <1>2, Zenon DEF TypeOK, FlagsOK, StatesOK, WindowsOK

\* Every step of the shell keeps the three parts of the type invariant.
LEMMA TypeStep == TypeOK /\ [Next]_vars => TypeOK'
<1> SUFFICES ASSUME TypeOK, [Next]_vars PROVE TypeOK'
  OBVIOUS
<1>1. FlagsOK' /\ StatesOK' /\ WindowsOK'
  BY FlagsStep, StatesStep, WindowsStep
<1>2. QED
  BY <1>1, Zenon DEF TypeOK, FlagsOK, StatesOK, WindowsOK

\* TypeOK holds in every behaviour of the shell (the variables of main.js).
THEOREM ShellTypeCorrect == Spec => []TypeOK
BY TypeInit, TypeStep, PTL DEF Spec

\* Whichever of its ways the shell ends, the server is gone or has been sent SIGKILL
\* (before-quit and its timer, the close handler, main.js), for every number of
\* retries and windows.
THEOREM ShellLeavesNoOrphan == Spec => []NoOrphan
<1>1. Init => OrphanInv
  <2>1. Init => ChildKnown /\ NoOrphan
    BY DEF Init, ChildKnown, NoOrphan, Alive
  <2>2. QED
    BY TypeInit, <2>1 DEF OrphanInv
<1>2. OrphanInv /\ [Next]_vars => OrphanInv'
  BY TypeStep, OrphanStep DEF OrphanInv
<1>3. OrphanInv => NoOrphan
  BY DEF OrphanInv
<1>4. QED
  BY <1>1, <1>2, <1>3, PTL DEF Spec

\* Until a probe times out there is one chain of probes, of at most maxRetries
\* attempts (tryConnect in checkServerAvailability).
THEOREM ShellProbesInTurn == Spec => []OneProbeChain
<1>1. Init => ProbeInv
  <2>1. MaxRetries \in Nat
    BY ShellAssumption
  <2>2. QED
    BY TypeInit, <2>1 DEF Init, ProbeInv, ProbeChain
<1>2. ProbeInv /\ [Next]_vars => ProbeInv'
  BY TypeStep, ProbeStep DEF ProbeInv
<1>3. ProbeInv => OneProbeChain
  <2>1. MaxRetries \in Nat
    BY ShellAssumption
  <2>2. QED
    BY <2>1 DEF ProbeInv, ProbeChain, OneProbeChain, TypeOK
<1>4. QED
  BY <1>1, <1>2, <1>3, PTL DEF Spec

-----------------------------------------------------------------------------
(* Windows. *)

\* Until an early activation mainWindow names the only window there is, and there is
\* none before the server is up: createWindow, which does not look, finds none then.
Tracked ==
  ~early => /\ windows \subseteq {mainWindow}
            /\ phase \in {"launch", "starting"} => windows = {}

\* Closing or destroying a window leaves mainWindow in step with the windows.
LEMMA ClosedTracked ==
  ASSUME TypeOK, Tracked, NEW w \in windows, WindowClosed(w),
         phase' = phase, early' = early
  PROVE  Tracked'
BY DEF TypeOK, Tracked, WindowClosed

\* So does quitting, whether it is held back, refused or carried out.
LEMMA QuitTracked ==
  ASSUME TypeOK, Tracked, NEW q, AppQuit(q), phase' = phase, early' = early
  PROVE  Tracked'
BY DEF TypeOK, Tracked, AppQuit, windowVars

\* Every handler.
LEMMA TrackedStep == TypeOK /\ Tracked /\ [Next]_vars => Tracked'
<1> SUFFICES ASSUME TypeOK, Tracked, [Next]_vars PROVE Tracked'
  OBVIOUS
<1>1. CASE UNCHANGED <<windowVars, phase, early>>
  BY <1>1 DEF Tracked, windowVars
<1>2. CASE StartServer
  BY <1>2 DEF Tracked, StartServer, windowVars
<1>13. CASE StartFails
  BY <1>13 DEF Tracked, StartFails, windowVars
<1>3. CASE ProbeAnswered
  <2>1. CASE phase = "starting"
    <3>1. phase' \in {"running", "failed"} /\ early' = early
      BY <1>3, <2>1 DEF ProbeAnswered
    <3>2. CASE UNCHANGED windowVars
      BY <3>1, <3>2 DEF Tracked, windowVars
    <3>3. CASE \E w \in WinIds : CreateWindow(w)
      BY <2>1, <3>1, <3>3 DEF Tracked, CreateWindow
    <3>4. QED
      BY <1>3, <2>1, <3>2, <3>3 DEF ProbeAnswered
  <2>2. CASE phase # "starting"
    BY <1>1, <1>3, <2>2 DEF ProbeAnswered
  <2>3. QED
    BY <2>1, <2>2
<1>4. CASE ProbeFailed \/ ProbeTimedOut \/ ServerError
  <2>1. windows' = windows /\ mainWindow' = mainWindow /\ early' = early
    BY <1>4 DEF ProbeFailed, ProbeTimedOut, ServerError, windowVars
  <2>2. phase' = phase \/ (phase = "starting" /\ phase' = "failed")
    BY <1>4 DEF ProbeFailed, ProbeTimedOut, ServerError, Retry, Rejected
  <2>3. QED
    BY <2>1, <2>2 DEF Tracked
<1>5. CASE TryConnect \/ ChildListens \/ ChildExits \/ QuitTimerFires
  BY <1>1, <1>5 DEF TryConnect, ChildListens, ChildExits, QuitTimerFires
<1>6. CASE ServerClosed
  <2>1. phase' = phase /\ early' = early
    BY <1>6 DEF ServerClosed
  <2>2. CASE UNCHANGED windowVars
    BY <1>1, <2>1, <2>2
  <2>3. CASE mainWindow # NoWin /\ WindowClosed(mainWindow)
    <3>1. mainWindow \in windows
      BY <2>3 DEF TypeOK
    <3>2. QED
      BY <2>1, <2>3, <3>1, ClosedTracked
  <2>4. QED
    BY <1>6, <2>2, <2>3 DEF ServerClosed
<1>7. CASE TrayQuit \/ SystemQuit \/ \E d \in dialogs : AnswerCrash(d) \/ AnswerStart(d)
  BY <1>7, QuitTracked DEF TrayQuit, SystemQuit, AnswerCrash, AnswerStart
<1>8. CASE \E d \in dialogs : ViewLog(d)
  BY <1>1, <1>8 DEF ViewLog
<1>9. CASE \E w \in WinIds : CloseWindow(w)
  <2>1. PICK w \in WinIds : CloseWindow(w)
    BY <1>9
  <2>2. w \in windows /\ WindowClosed(w) /\ phase' = phase /\ early' = early
    BY <2>1 DEF CloseWindow, TypeOK
  <2>3. QED
    BY <2>2, ClosedTracked
<1>10. CASE TrayShow
  <2>1. phase' = phase /\ early' = early /\ phase = "running"
    BY <1>10 DEF TrayShow
  <2>2. CASE mainWindow = NoWin
    <3>1. PICK w \in WinIds : windows' = windows \cup {w} /\ mainWindow' = w
      BY <1>10, <2>2 DEF TrayShow, CreateWindow
    <3>2. ~early => windows = {}
      BY <2>2, NoWinAssumption DEF Tracked, TypeOK
    <3>3. QED
      BY <2>1, <3>1, <3>2 DEF Tracked
  <2>3. CASE mainWindow # NoWin
    BY <1>10, <2>1, <2>3 DEF TrayShow, Tracked
  <2>4. QED
    BY <2>2, <2>3
<1>11. CASE Activate
  <2>1. PICK w \in WinIds : windows' = windows \cup {w} /\ mainWindow' = w
    BY <1>11 DEF Activate, CreateWindow
  <2>2. /\ windows = {} /\ phase # "launch" /\ phase' = phase
        /\ early' = (early \/ phase = "starting")
    BY <1>11 DEF Activate
  <2>3. QED
    BY <2>1, <2>2 DEF Tracked
<1>12. CASE UNCHANGED vars
  BY <1>1, <1>12 DEF vars
<1> QED
  BY <1>2, <1>3, <1>4, <1>5, <1>6, <1>7, <1>8, <1>9, <1>10, <1>11, <1>12, <1>13 DEF Next

\* mainWindow follows every window through the tray, closing, crashes of the server
\* and refused quits (createWindow and its close handlers, the tray's handlers and
\* 'activate' in main.js): a second window needs an activation while the server was
\* starting.
THEOREM ShellOneWindow == Spec => []OneWindow
<1>1. Init => Tracked
  BY DEF Init, Tracked
<1>2. TypeOK /\ Tracked => OneWindow
  <2> SUFFICES ASSUME TypeOK, Tracked, ~early PROVE ~(Cardinality(windows) > 1)
    BY DEF OneWindow
  <2>1. windows = {} \/ windows = {mainWindow}
    BY DEF Tracked
  <2>2. Cardinality(windows) = 0 \/ Cardinality(windows) = 1
    BY <2>1, FS_EmptySet, FS_Singleton
  <2>3. QED
    BY <2>2
<1>3. QED
  BY <1>1, <1>2, TypeInit, TypeStep, TrackedStep, PTL DEF Spec
=============================================================================

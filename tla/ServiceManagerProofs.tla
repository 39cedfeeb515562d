------------------------ MODULE ServiceManagerProofs ------------------------
(***************************************************************************)
(* Proofs about ServiceManager that hold for every set of clients and of   *)
(* pids: type correctness, that a manager never loses the handle of a live *)
(* child it spawned (OwnedChildTracked) nor replaces one                   *)
(* (ChildNeverReplaced), and that one client never stamps an incomplete    *)
(* binary.                                                                 *)
(***************************************************************************)
EXTENDS ServiceManager, TLAPS

USE ConstantsAssumption
    DEF Phases, RestPhases, PollPhases, WaitPhases, StartPhases, StopPhases,
        ServiceStates

\* The phases of start() before _execute_binary() may set self.process.
PreLaunchPhases ==
    {"disc_poll", "disc_wait", "disc_health", "provision", "download",
     "extract", "extracting", "stamp", "launch"}

\* start() reaches the launch only through a manager without a child: the
\* `if self.process is not None` early return sends the others to "ready".
NoChildBeforeLaunch ==
    \A c \in Clients : pc[c] \in PreLaunchPhases => process[c] = NoPid

\* The inductive invariant behind OwnedChildTracked.
IInv == TypeOK /\ OwnedChildTracked /\ NoChildBeforeLaunch

-----------------------------------------------------------------------------
\* Every step keeps the variables in their types.
LEMMA TypeStep == TypeOK /\ [Next]_vars => TypeOK'
<1> SUFFICES ASSUME TypeOK, [Next]_vars PROVE TypeOK'
  OBVIOUS
<1>1. ASSUME NEW c \in Clients, StartCached(c) PROVE TypeOK'
  BY <1>1 DEF StartCached, TypeOK
<1>2. ASSUME NEW c \in Clients, Start(c) PROVE TypeOK'
  BY <1>2 DEF Start, TypeOK
<1>3. ASSUME NEW c \in Clients, GetPortHit(c) PROVE TypeOK'
  BY <1>3 DEF GetPortHit, RunFileLive, TypeOK
<1>4. ASSUME NEW c \in Clients, GetPortMiss(c) PROVE TypeOK'
  BY <1>4 DEF GetPortMiss, TypeOK
<1>5. ASSUME NEW c \in Clients, GetPortRetry(c) PROVE TypeOK'
  BY <1>5 DEF GetPortRetry, TypeOK
<1>6. ASSUME NEW c \in Clients, GetPortTimeout(c) PROVE TypeOK'
  BY <1>6 DEF GetPortTimeout, TypeOK
<1>7. ASSUME NEW c \in Clients, Attach(c) PROVE TypeOK'
  BY <1>7 DEF Attach, TypeOK
<1>8. ASSUME NEW c \in Clients, DownloadAndExtractCheck(c) PROVE TypeOK'
  BY <1>8 DEF DownloadAndExtractCheck, TypeOK
<1>9. ASSUME NEW c \in Clients, Download(c) PROVE TypeOK'
  BY <1>9 DEF Download, TypeOK
<1>10. ASSUME NEW c \in Clients, ExtractBegin(c) PROVE TypeOK'
  BY <1>10 DEF ExtractBegin, TypeOK
<1>11. ASSUME NEW c \in Clients, ExtractEnd(c) PROVE TypeOK'
  BY <1>11 DEF ExtractEnd, TypeOK
<1>12. ASSUME NEW c \in Clients, WriteVersion(c) PROVE TypeOK'
  BY <1>12 DEF WriteVersion, TypeOK
<1>13. ASSUME NEW c \in Clients, ExecuteBinary(c) PROVE TypeOK'
  BY <1>13 DEF ExecuteBinary, FreePid, TypeOK
<1>14. ASSUME NEW c \in Clients, Registered(c) PROVE TypeOK'
  BY <1>14 DEF Registered, TypeOK
<1>15. ASSUME NEW c \in Clients, Stop(c) PROVE TypeOK'
  BY <1>15 DEF Stop, TypeOK
<1>16. ASSUME NEW c \in Clients, StopReadRunFile(c) PROVE TypeOK'
  BY <1>16 DEF StopReadRunFile, RunFileLive, TypeOK
<1>17. ASSUME NEW c \in Clients, StopKillRunFilePid(c) PROVE TypeOK'
  BY <1>17 DEF StopKillRunFilePid, TypeOK
<1>18. ASSUME NEW c \in Clients, ClientExit(c) PROVE TypeOK'
  BY <1>18 DEF ClientExit, TypeOK
<1>19. ASSUME NEW p \in Pids, EnvStep(p) PROVE TypeOK'
  BY <1>19 DEF EnvStep, ServiceRegister, ServiceCrash, ForeignStart,
               ForeignExit, FreePid, TypeOK
<1>20. CASE UNCHANGED vars
  BY <1>20 DEF vars, TypeOK
<1>21. QED
  BY <1>1, <1>2, <1>3, <1>4, <1>5, <1>6, <1>7, <1>8, <1>9, <1>10, <1>11,
     <1>12, <1>13, <1>14, <1>15, <1>16, <1>17, <1>18, <1>19, <1>20
  DEF Next, ClientStep, ClientBusyStep

\* Type correctness of the lifecycle for every set of clients and pids.
THEOREM TypeCorrect == Spec => []TypeOK
<1>1. Init => TypeOK
  BY DEF Init, TypeOK
<1>2. QED
  BY <1>1, TypeStep, PTL DEF Spec

-----------------------------------------------------------------------------
\* The invariant holds initially: no pid has an owner, no client is in start().
LEMMA IInvInit == Init => IInv
BY DEF Init, IInv, TypeOK, OwnedChildTracked, NoChildBeforeLaunch,
       PreLaunchPhases

\* Every step preserves the invariant.  Only the steps that change pc,
\* process, proc or owner can disturb it; the proof has one step per action.
LEMMA IInvStep == IInv /\ [Next]_vars => IInv'
<1> SUFFICES ASSUME IInv, [Next]_vars PROVE IInv'
  OBVIOUS
<1>0. TypeOK'
  BY TypeStep DEF IInv
<1> DEFINE Keep == OwnedChildTracked' /\ NoChildBeforeLaunch'
<1> USE DEF IInv, TypeOK, PreLaunchPhases
<1>1. ASSUME NEW c \in Clients, StartCached(c) PROVE Keep
  BY <1>1 DEF StartCached, OwnedChildTracked, NoChildBeforeLaunch
<1>2. ASSUME NEW c \in Clients, Start(c) PROVE Keep
  BY <1>2 DEF Start, OwnedChildTracked, NoChildBeforeLaunch
<1>3. ASSUME NEW c \in Clients, GetPortHit(c) PROVE Keep
  BY <1>3 DEF GetPortHit, OwnedChildTracked, NoChildBeforeLaunch
<1>4. ASSUME NEW c \in Clients, GetPortMiss(c) PROVE Keep
  BY <1>4 DEF GetPortMiss, OwnedChildTracked, NoChildBeforeLaunch
<1>5. ASSUME NEW c \in Clients, GetPortRetry(c) PROVE Keep
  BY <1>5 DEF GetPortRetry, OwnedChildTracked, NoChildBeforeLaunch
<1>6. ASSUME NEW c \in Clients, GetPortTimeout(c) PROVE Keep
  BY <1>6 DEF GetPortTimeout, OwnedChildTracked, NoChildBeforeLaunch
<1>7. ASSUME NEW c \in Clients, Attach(c) PROVE Keep
  BY <1>7 DEF Attach, OwnedChildTracked, NoChildBeforeLaunch
<1>8. ASSUME NEW c \in Clients, DownloadAndExtractCheck(c) PROVE Keep
  BY <1>8 DEF DownloadAndExtractCheck, OwnedChildTracked, NoChildBeforeLaunch
<1>9. ASSUME NEW c \in Clients, Download(c) PROVE Keep
  BY <1>9 DEF Download, OwnedChildTracked, NoChildBeforeLaunch
<1>10. ASSUME NEW c \in Clients, ExtractBegin(c) PROVE Keep
  BY <1>10 DEF ExtractBegin, OwnedChildTracked, NoChildBeforeLaunch
<1>11. ASSUME NEW c \in Clients, ExtractEnd(c) PROVE Keep
  BY <1>11 DEF ExtractEnd, OwnedChildTracked, NoChildBeforeLaunch
<1>12. ASSUME NEW c \in Clients, WriteVersion(c) PROVE Keep
  BY <1>12 DEF WriteVersion, OwnedChildTracked, NoChildBeforeLaunch
<1>13. ASSUME NEW c \in Clients, ExecuteBinary(c) PROVE Keep
  \* The launching client had no child, so no live service was owned by it.
  <2>1. process[c] = NoPid
    BY <1>13 DEF ExecuteBinary, NoChildBeforeLaunch
  <2>2. \A q \in Pids : owner[q] = c => proc[q] \notin ServiceStates
    BY <2>1 DEF OwnedChildTracked
  <2>3. CASE pc'[c] = "failed"
    BY <1>13, <2>3 DEF ExecuteBinary, OwnedChildTracked, NoChildBeforeLaunch
  <2>4. CASE pc'[c] # "failed"
    <3>1. PICK p \in Pids : /\ FreePid(p)
                            /\ proc' = [proc EXCEPT ![p] = "booting"]
                            /\ process' = [process EXCEPT ![c] = p]
                            /\ owner' = [owner EXCEPT ![p] = c]
                            /\ pc' = [pc EXCEPT ![c] = "reg_poll"]
      BY <1>13, <2>4 DEF ExecuteBinary
    <3>2. OwnedChildTracked'
      BY <2>2, <3>1 DEF OwnedChildTracked, FreePid
    <3>3. NoChildBeforeLaunch'
      BY <3>1 DEF NoChildBeforeLaunch
    <3>4. QED
      BY <3>2, <3>3
  <2>5. QED
    BY <2>3, <2>4
<1>14. ASSUME NEW c \in Clients, Registered(c) PROVE Keep
  BY <1>14 DEF Registered, OwnedChildTracked, NoChildBeforeLaunch
<1>15. ASSUME NEW c \in Clients, Stop(c) PROVE Keep
  \* The child stop() kills is the only live service the client owns.
  BY <1>15 DEF Stop, OwnedChildTracked, NoChildBeforeLaunch
<1>16. ASSUME NEW c \in Clients, StopReadRunFile(c) PROVE Keep
  BY <1>16 DEF StopReadRunFile, OwnedChildTracked, NoChildBeforeLaunch
<1>17. ASSUME NEW c \in Clients, StopKillRunFilePid(c) PROVE Keep
  BY <1>17 DEF StopKillRunFilePid, OwnedChildTracked, NoChildBeforeLaunch
<1>18. ASSUME NEW c \in Clients, ClientExit(c) PROVE Keep
  BY <1>18 DEF ClientExit, OwnedChildTracked, NoChildBeforeLaunch
<1>19. ASSUME NEW p \in Pids, EnvStep(p) PROVE Keep
  BY <1>19 DEF EnvStep, ServiceRegister, ServiceCrash, ForeignStart,
               ForeignExit, FreePid, OwnedChildTracked, NoChildBeforeLaunch
<1>20. CASE UNCHANGED vars
  BY <1>20 DEF vars, OwnedChildTracked, NoChildBeforeLaunch
<1>21. QED
  BY <1>0, <1>1, <1>2, <1>3, <1>4, <1>5, <1>6, <1>7, <1>8, <1>9, <1>10,
     <1>11, <1>12, <1>13, <1>14, <1>15, <1>16, <1>17, <1>18, <1>19, <1>20
  DEF Next, ClientStep, ClientBusyStep

\* A manager never loses the handle of a live child it spawned, for every
\* number of clients and pids (stop() and start()'s early return in
\* service_manager.py).
THEOREM ChildTracked == Spec => []OwnedChildTracked
<1>1. IInv => OwnedChildTracked
  BY DEF IInv
<1>2. QED
  BY <1>1, IInvInit, IInvStep, PTL DEF Spec

-----------------------------------------------------------------------------
(* start() never replaces a child (ChildNeverReplaced).                    *)

\* The only steps that change self.process: _execute_binary() of a client at
\* the launch, stop() and the client's exit; every other step keeps it.
LEMMA ProcessFrame ==
    ASSUME NEW c \in Clients, ClientStep(c),
           ~ExecuteBinary(c), ~Stop(c), ~ClientExit(c)
    PROVE  process' = process
BY DEF ClientStep, ClientBusyStep, StartCached, Start, GetPortHit, GetPortMiss,
       GetPortRetry, GetPortTimeout, Attach, DownloadAndExtractCheck, Download,
       ExtractBegin, ExtractEnd, WriteVersion, Registered, StopReadRunFile,
       StopKillRunFilePid

\* Under the invariant, a step gives a manager a new child only when it held
\* none, and the child's pid was unoccupied.
LEMMA ReplaceStep ==
    IInv /\ [Next]_vars =>
        \A d \in Clients :
            process'[d] # process[d] /\ process'[d] # NoPid
                => process[d] = NoPid /\ proc[process'[d]] = "none"
<1> SUFFICES ASSUME IInv, [Next]_vars, NEW d \in Clients,
                    process'[d] # process[d], process'[d] # NoPid
             PROVE  process[d] = NoPid /\ proc[process'[d]] = "none"
  OBVIOUS
<1> USE DEF IInv, TypeOK
<1>1. ASSUME NEW c \in Clients, ExecuteBinary(c)
      PROVE  process[d] = NoPid /\ proc[process'[d]] = "none"
  <2>1. CASE pc'[c] = "failed"
    BY <1>1, <2>1 DEF ExecuteBinary
  <2>2. CASE pc'[c] # "failed"
    <3>1. PICK p \in Pids : /\ FreePid(p)
                            /\ process' = [process EXCEPT ![c] = p]
      BY <1>1, <2>2 DEF ExecuteBinary
    <3>2. d = c /\ process'[d] = p
      BY <3>1
    <3>3. process[c] = NoPid
      BY <1>1 DEF ExecuteBinary, NoChildBeforeLaunch, PreLaunchPhases
    <3>4. QED
      BY <3>1, <3>2, <3>3 DEF FreePid
  <2>3. QED
    BY <2>1, <2>2
<1>2. ASSUME NEW c \in Clients, Stop(c)
      PROVE  process[d] = NoPid /\ proc[process'[d]] = "none"
  BY <1>2 DEF Stop
<1>3. ASSUME NEW c \in Clients, ClientExit(c)
      PROVE  process[d] = NoPid /\ proc[process'[d]] = "none"
  BY <1>3 DEF ClientExit
<1>4. ASSUME NEW c \in Clients, ClientStep(c),
             ~ExecuteBinary(c), ~Stop(c), ~ClientExit(c)
      PROVE  process[d] = NoPid /\ proc[process'[d]] = "none"
  BY <1>4, ProcessFrame
<1>5. ASSUME NEW p \in Pids, EnvStep(p)
      PROVE  process[d] = NoPid /\ proc[process'[d]] = "none"
  BY <1>5 DEF EnvStep, ServiceRegister, ServiceCrash, ForeignStart, ForeignExit
<1>6. CASE UNCHANGED vars
  BY <1>6 DEF vars
<1>7. QED
  BY <1>1, <1>2, <1>3, <1>4, <1>5, <1>6 DEF Next

\* start() never spawns a second service over a child its manager still
\* holds, and Popen's pid was free (run `two` checks ChildNeverReplaced on
\* two clients): for every number of clients and pids.
THEOREM NoReplacedChild == Spec => ChildNeverReplaced
<1> DEFINE Replace == \A c \in Clients :
                        process'[c] # process[c] /\ process'[c] # NoPid
                            => process[c] = NoPid /\ proc[process'[c]] = "none"
<1>1. Spec => []IInv
  BY IInvInit, IInvStep, PTL DEF Spec
<1>2. IInv /\ [Next]_vars => [Replace]_vars
  BY ReplaceStep
<1>3. QED
  BY <1>1, <1>2, PTL DEF Spec, ChildNeverReplaced

-----------------------------------------------------------------------------
(* The installation on a machine used by one client process.               *)

\* While one client downloads or extracts, version.txt does not name the
\* pinned release, and it writes version.txt only over a complete binary.
InstallSteps ==
    \A c \in Clients :
        /\ pc[c] \in {"download", "extract", "extracting"} => stamp # "pinned"
        /\ pc[c] = "stamp" => bin = "complete"

\* The inductive invariant behind InstallIntegrity for one client.
IInstall == TypeOK /\ InstallIntegrity /\ InstallSteps

LEMMA InstallStep ==
    ASSUME NEW c0, Clients = {c0}
    PROVE  IInstall /\ [Next]_vars => IInstall'
<1> SUFFICES ASSUME IInstall, [Next]_vars PROVE IInstall'
  OBVIOUS
<1>0. TypeOK'
  BY TypeStep DEF IInstall
<1> DEFINE Keep == InstallIntegrity' /\ InstallSteps'
<1> USE DEF IInstall, TypeOK, InstallIntegrity, InstallSteps
<1>1. CASE StartCached(c0) \/ Start(c0) \/ GetPortHit(c0) \/ GetPortMiss(c0)
           \/ GetPortRetry(c0) \/ GetPortTimeout(c0) \/ Attach(c0)
  \* The discovery steps leave the installation alone and move the client
  \* to no install phase.
  <2>1. UNCHANGED <<bin, stamp>>
    BY <1>1 DEF StartCached, Start, GetPortHit, GetPortMiss, GetPortRetry,
                GetPortTimeout, Attach
  <2>2. pc'[c0] \in {"ready", "disc_poll", "reg_poll", "disc_health",
                      "reg_health", "disc_wait", "reg_wait", "provision",
                      "failed"}
    <3>1. CASE StartCached(c0) \/ Attach(c0)
      BY <3>1 DEF StartCached, Attach
    <3>2. CASE Start(c0)
      BY <3>2 DEF Start
    <3>3. CASE GetPortHit(c0)
      BY <3>3 DEF GetPortHit
    <3>4. CASE GetPortMiss(c0)
      BY <3>4 DEF GetPortMiss
    <3>5. CASE GetPortRetry(c0)
      BY <3>5 DEF GetPortRetry
    <3>6. CASE GetPortTimeout(c0)
      BY <3>6 DEF GetPortTimeout
    <3>7. QED
      BY <1>1, <3>1, <3>2, <3>3, <3>4, <3>5, <3>6
  <2>3. QED
    BY <1>0, <2>1, <2>2 DEF Keep
<1>2. CASE DownloadAndExtractCheck(c0)
  \* The download starts only when the binary is absent or version.txt is
  \* not pinned, and a pinned stamp implies a complete binary.
  BY <1>2 DEF DownloadAndExtractCheck, Keep
<1>3. CASE Download(c0)
  BY <1>3 DEF Download, Keep
<1>4. CASE ExtractBegin(c0)
  BY <1>4 DEF ExtractBegin, Keep
<1>5. CASE ExtractEnd(c0)
  BY <1>5 DEF ExtractEnd, Keep
<1>6. CASE WriteVersion(c0)
  BY <1>6 DEF WriteVersion, Keep
<1>7. CASE ExecuteBinary(c0) \/ Registered(c0)
  BY <1>7 DEF ExecuteBinary, Registered, Keep
<1>8. CASE Stop(c0) \/ StopReadRunFile(c0) \/ StopKillRunFilePid(c0)
  <2>1. UNCHANGED <<bin, stamp>>
    BY <1>8 DEF Stop, StopReadRunFile, StopKillRunFilePid
  <2>2. pc'[c0] \in {"stop_read", "stop_kill", "idle"}
    <3>1. CASE Stop(c0)
      BY <3>1 DEF Stop
    <3>2. CASE StopReadRunFile(c0)
      BY <3>2 DEF StopReadRunFile
    <3>3. CASE StopKillRunFilePid(c0)
      BY <3>3 DEF StopKillRunFilePid
    <3>4. QED
      BY <1>8, <3>1, <3>2, <3>3
  <2>3. QED
    BY <1>0, <2>1, <2>2 DEF Keep
<1>9. CASE ClientExit(c0)
  BY <1>9 DEF ClientExit, Keep
<1>10. ASSUME NEW p \in Pids, EnvStep(p) PROVE Keep
  BY <1>10 DEF EnvStep, ServiceRegister, ServiceCrash, ForeignStart, ForeignExit
<1>11. CASE UNCHANGED vars
  BY <1>11 DEF vars, Keep
<1>12. QED
  BY <1>0, <1>1, <1>2, <1>3, <1>4, <1>5, <1>6, <1>7, <1>8, <1>9, <1>10, <1>11
  DEF Next, ClientStep, ClientBusyStep, Keep

\* The installation is never reported as the pinned release over a missing
\* or half-extracted binary (run `one` checks InstallIntegrity for one
\* client that may exit at any step), for every number of pids, when one
\* client process uses the machine: extraction before version.txt in
\* _download_and_extract_binary.  Run `install_race` shows that two clients
\* break it.
THEOREM InstallIntegritySingle ==
    ASSUME NEW c0, Clients = {c0}
    PROVE  Spec => []InstallIntegrity
<1>1. Init => IInstall
  BY DEF Init, IInstall, TypeOK, InstallIntegrity, InstallSteps
<1>2. IInstall => InstallIntegrity
  BY DEF IInstall
<1>3. QED
  BY <1>1, <1>2, InstallStep, PTL DEF Spec

=============================================================================

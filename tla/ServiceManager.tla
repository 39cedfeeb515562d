--------------------------- MODULE ServiceManager ---------------------------
(***************************************************************************)
(* The service process lifecycle of the spore-drive Python client:         *)
(* spore_drive/service_manager.py, class ServiceManager.                   *)
(*                                                                         *)
(* Several client processes (Clients), each holding its own ServiceManager *)
(* (the module-level singleton of get_service_manager), share one machine: *)
(* the install directory (binary and version.txt), the run file            *)
(* .spore-drive.run naming {pid, port} of a running service, and the       *)
(* process table.  A service process is spawned detached (new session) by  *)
(* a manager; once serving it writes the run file.  The OS may reuse a     *)
(* freed pid for an unrelated ("foreign") process.                         *)
(*                                                                         *)
(* Abstractions.  A port is identified with the pid of the service that    *)
(* registered it, so a record is just a pid.  The wall-clock timeouts of   *)
(* _get_port (3.5 s) bound its loop to at most PollLimit sleeps and may   *)
(* end it earlier.                                                         *)
(* The health-probe loops (_wait_for_health_check) never change what the   *)
(* caller does with the port (it is returned whatever the outcome), so     *)
(* each loop is the single step that returns from it.                      *)
(***************************************************************************)
EXTENDS Naturals

CONSTANTS
    Clients,    \* client processes, each with one ServiceManager
    Pids,       \* process ids a service or a foreign process may occupy
    NoPid,      \* None for self.process, self.port and an absent run file
    NoClient,   \* no owner
    Supported,  \* _parse_asset_name finds this platform in its maps
    PollLimit   \* sleeps of 0.5 s that fit in the 3.5 s deadline of _get_port

ASSUME ConstantsAssumption ==
    /\ NoPid \notin Pids
    /\ NoClient \notin Clients
    /\ Supported \in BOOLEAN
    /\ PollLimit \in Nat

VARIABLES
    pc,       \* where each client is in start()/stop()
    process,  \* self.process: pid of the child the manager spawned, or NoPid
    port,     \* self.port
    cand,     \* pid read from the run file by the call in progress
    polls,    \* sleeps so far in the current _get_port loop
    proc,     \* what occupies each pid: "none", "booting", "serving", "foreign"
    runFile,  \* pid named by the run file, or NoPid when there is none
    bin,      \* the binary in bin/: "absent", "partial", "complete"
    stamp,    \* version.txt: "none", "old", "pinned" (= service_version)
    owner     \* history: the client whose manager spawned the pid

vars == <<pc, process, port, cand, polls, proc, runFile, bin, stamp, owner>>

\* Phases between calls: never called or stopped, start() returned, start() raised.
RestPhases == {"idle", "ready", "failed"}
PollPhases == {"disc_poll", "reg_poll"}
WaitPhases == {"disc_wait", "reg_wait"}
StartPhases == PollPhases \cup WaitPhases \cup
    {"disc_health", "provision", "download", "extract", "extracting",
     "stamp", "launch", "reg_health"}
StopPhases == {"stop_read", "stop_kill"}
Phases == RestPhases \cup StartPhases \cup StopPhases

ServiceStates == {"booting", "serving"}

\* os.kill(pid, 0) succeeds: an occupied pid, or a dead child of a manager
\* that still holds its Popen handle (a zombie keeps its pid until reaped).
IsProcessRunning(p) ==
    proc[p] # "none" \/ \E c \in Clients : process[c] = p

\* The run file can be read and its pid answers kill(pid, 0).
RunFileLive ==
    runFile # NoPid /\ IsProcessRunning(runFile)

\* A pid Popen or the OS can hand out: unoccupied and not an unreaped zombie.
FreePid(p) ==
    proc[p] = "none" /\ \A c \in Clients : process[c] # p

-----------------------------------------------------------------------------
(* Mutants: plausible faults in the code, each the variant of one action  *)
(* below.  They are not part of the specification; substituting one for   *)
(* its action must make a checked property fail.                          *)

\* start() without the `if self.process is not None` early return.
StartNoChildCheck(c) ==
    /\ pc[c] \in RestPhases
    /\ pc' = [pc EXCEPT ![c] = "disc_poll"]
    /\ UNCHANGED <<process, port, cand, proc, runFile, bin, stamp, owner, polls>>

\* _get_port() polling `while True` with no deadline.
GetPortTimeoutNever(c) ==
    /\ FALSE
    /\ UNCHANGED vars

\* version.txt written before the archive is extracted.
ExtractBeginStampFirst(c) ==
    /\ pc[c] = "extract"
    /\ bin' = "partial"
    /\ stamp' = "pinned"
    /\ pc' = [pc EXCEPT ![c] = "extracting"]
    /\ UNCHANGED <<process, port, cand, proc, runFile, owner, polls>>

\* stop() signalling run_file.get('pid') without the `run_file and` check.
StopReadRunFileNoRecordCheck(c) ==
    /\ pc[c] = "stop_read"
    /\ IF runFile = NoPid \/ IsProcessRunning(runFile)
         THEN /\ cand' = [cand EXCEPT ![c] = runFile]
              /\ pc' = [pc EXCEPT ![c] = "stop_kill"]
         ELSE /\ pc' = [pc EXCEPT ![c] = "idle"]
              /\ UNCHANGED cand
    /\ UNCHANGED <<process, port, proc, runFile, bin, stamp, owner, polls>>

-----------------------------------------------------------------------------
Init ==
    /\ pc = [c \in Clients |-> "idle"]
    /\ process = [c \in Clients |-> NoPid]
    /\ port = [c \in Clients |-> NoPid]
    /\ cand = [c \in Clients |-> NoPid]
    /\ polls = [c \in Clients |-> 0]
    \* A machine may carry a service and its run file from an earlier
    \* session, or a stale run file whose pid died or was reused.
    /\ runFile \in Pids \cup {NoPid}
    /\ proc \in {f \in [Pids -> {"none", "serving", "foreign"}] :
                    \A p \in Pids : f[p] = "serving" => runFile = p}
    \* Nothing installed, an older release, or the pinned one.
    /\ \E inst \in {<<"absent", "none">>, <<"complete", "old">>,
                     <<"complete", "pinned">>} :
          bin = inst[1] /\ stamp = inst[2]
    /\ owner = [p \in Pids |-> NoClient]

-----------------------------------------------------------------------------
(* start(): a manager that holds a child returns self.port at once.        *)
StartCached(c) ==
    /\ pc[c] \in RestPhases \ {"ready"}
    /\ process[c] # NoPid
    /\ pc' = [pc EXCEPT ![c] = "ready"]
    /\ UNCHANGED <<process, port, cand, proc, runFile, bin, stamp, owner, polls>>

(* start() without a child: first _get_port() looks for a running service. *)
Start(c) ==
    /\ pc[c] \in RestPhases
    /\ process[c] = NoPid
    /\ pc' = [pc EXCEPT ![c] = "disc_poll"]
    /\ UNCHANGED <<process, port, cand, proc, runFile, bin, stamp, owner, polls>>

(* _get_port(): a poll finds a run file whose pid answers kill(pid, 0).    *)
GetPortHit(c) ==
    /\ pc[c] \in PollPhases
    /\ RunFileLive
    /\ cand' = [cand EXCEPT ![c] = runFile]
    /\ polls' = [polls EXCEPT ![c] = 0]
    /\ pc' = [pc EXCEPT ![c] = IF pc[c] = "disc_poll" THEN "disc_health"
                                                      ELSE "reg_health"]
    /\ UNCHANGED <<process, port, proc, runFile, bin, stamp, owner>>

(* _get_port(): a poll finds no run file, an unreadable one, or one whose *)
(* pid is gone, and the loop sleeps 0.5 s.                                 *)
GetPortMiss(c) ==
    /\ pc[c] \in PollPhases
    /\ ~RunFileLive
    /\ pc' = [pc EXCEPT ![c] = IF pc[c] = "disc_poll" THEN "disc_wait"
                                                      ELSE "reg_wait"]
    /\ UNCHANGED <<process, port, cand, proc, runFile, bin, stamp, owner, polls>>

(* _get_port(): after the sleep the deadline has not passed: poll again.   *)
(* At most PollLimit sleeps fit before the deadline.                       *)
GetPortRetry(c) ==
    /\ pc[c] \in WaitPhases
    /\ polls[c] < PollLimit
    /\ polls' = [polls EXCEPT ![c] = @ + 1]
    /\ pc' = [pc EXCEPT ![c] = IF pc[c] = "disc_wait" THEN "disc_poll"
                                                      ELSE "reg_poll"]
    /\ UNCHANGED <<process, port, cand, proc, runFile, bin, stamp, owner>>

(* _get_port(): after the sleep the 3.5 s deadline has passed: it returns  *)
(* None.  The first call falls through to provisioning; the second makes   *)
(* start() raise.  On a loaded machine the deadline may pass after fewer *)
(* than PollLimit sleeps.                                                  *)
GetPortTimeout(c) ==
    /\ pc[c] \in WaitPhases
    /\ polls' = [polls EXCEPT ![c] = 0]
    /\ pc' = [pc EXCEPT ![c] = IF pc[c] = "disc_wait" THEN "provision"
                                                      ELSE "failed"]
    /\ UNCHANGED <<process, port, cand, proc, runFile, bin, stamp, owner>>

(* _get_port() returns the port after the health loop whatever its result; *)
(* start() stores it in self.port and returns it.                          *)
Attach(c) ==
    /\ pc[c] = "disc_health"
    /\ port' = [port EXCEPT ![c] = cand[c]]
    /\ cand' = [cand EXCEPT ![c] = NoPid]
    /\ pc' = [pc EXCEPT ![c] = "ready"]
    /\ UNCHANGED <<process, proc, runFile, bin, stamp, owner, polls>>

(* _download_and_extract_binary(): skip when the binary exists and         *)
(* version.txt matches, raise on an unsupported platform, else download.   *)
DownloadAndExtractCheck(c) ==
    /\ pc[c] = "provision"
    /\ pc' = [pc EXCEPT ![c] =
                CASE bin # "absent" /\ stamp = "pinned" -> "launch"
                  [] ~Supported                         -> "failed"
                  [] OTHER                              -> "download"]
    /\ UNCHANGED <<process, port, cand, proc, runFile, bin, stamp, owner, polls>>

(* urlretrieve of the release archive: it succeeds or start() raises.      *)
Download(c) ==
    /\ pc[c] = "download"
    /\ \E next \in {"extract", "failed"} : pc' = [pc EXCEPT ![c] = next]
    /\ UNCHANGED <<process, port, cand, proc, runFile, bin, stamp, owner, polls>>

(* tar.extractall starts overwriting bin/drive.                            *)
ExtractBegin(c) ==
    /\ pc[c] = "extract"
    /\ bin' = "partial"
    /\ pc' = [pc EXCEPT ![c] = "extracting"]
    /\ UNCHANGED <<process, port, cand, proc, runFile, stamp, owner, polls>>

(* Extraction completes and the archive is removed, or it raises and the   *)
(* half-written binary stays.                                              *)
ExtractEnd(c) ==
    /\ pc[c] = "extracting"
    /\ \/ /\ bin' = "complete"
          /\ pc' = [pc EXCEPT ![c] = "stamp"]
       \/ /\ pc' = [pc EXCEPT ![c] = "failed"]
          /\ UNCHANGED bin
    /\ UNCHANGED <<process, port, cand, proc, runFile, stamp, owner, polls>>

(* version.txt := service_version, then chmod 755.                         *)
WriteVersion(c) ==
    /\ pc[c] = "stamp"
    /\ stamp' = "pinned"
    /\ pc' = [pc EXCEPT ![c] = "launch"]
    /\ UNCHANGED <<process, port, cand, proc, runFile, bin, owner, polls>>

(* _execute_binary(): Popen of bin/drive, detached.  A missing binary, a   *)
(* half-written one (exec fails) or a failing fork makes start() raise.    *)
ExecuteBinary(c) ==
    /\ pc[c] = "launch"
    /\ \/ /\ bin = "complete"
          /\ \E p \in Pids :
                /\ FreePid(p)
                /\ proc' = [proc EXCEPT ![p] = "booting"]
                /\ process' = [process EXCEPT ![c] = p]
                /\ owner' = [owner EXCEPT ![p] = c]
                /\ pc' = [pc EXCEPT ![c] = "reg_poll"]
       \/ /\ pc' = [pc EXCEPT ![c] = "failed"]
          /\ UNCHANGED <<proc, process, owner>>
    /\ UNCHANGED <<port, cand, runFile, bin, stamp, polls>>

(* Second _get_port() returned a port; start() runs one more health loop,  *)
(* ignores it, stores the port and returns it.                             *)
Registered(c) ==
    /\ pc[c] = "reg_health"
    /\ port' = [port EXCEPT ![c] = cand[c]]
    /\ cand' = [cand EXCEPT ![c] = NoPid]
    /\ pc' = [pc EXCEPT ![c] = "ready"]
    /\ UNCHANGED <<process, proc, runFile, bin, stamp, owner, polls>>

(* stop(): terminate the own child (kill after 5 s) and reap it, clearing  *)
(* self.process and self.port; without a child neither is touched.         *)
Stop(c) ==
    /\ pc[c] \in RestPhases
    /\ IF process[c] # NoPid
         THEN /\ proc' = [proc EXCEPT ![process[c]] = "none"]
              /\ process' = [process EXCEPT ![c] = NoPid]
              /\ port' = [port EXCEPT ![c] = NoPid]
         ELSE UNCHANGED <<proc, process, port>>
    /\ pc' = [pc EXCEPT ![c] = "stop_read"]
    /\ UNCHANGED <<cand, runFile, bin, stamp, owner, polls>>

(* stop(): load the run file and check its pid with kill(pid, 0).          *)
StopReadRunFile(c) ==
    /\ pc[c] = "stop_read"
    /\ IF RunFileLive
         THEN /\ cand' = [cand EXCEPT ![c] = runFile]
              /\ pc' = [pc EXCEPT ![c] = "stop_kill"]
         ELSE /\ pc' = [pc EXCEPT ![c] = "idle"]
              /\ UNCHANGED cand
    /\ UNCHANGED <<process, port, proc, runFile, bin, stamp, owner, polls>>

(* stop(): os.kill(pid, SIGTERM) on the pid read, then unlink whatever run *)
(* file exists now; an OSError (the pid is gone) skips the unlink.         *)
StopKillRunFilePid(c) ==
    /\ pc[c] = "stop_kill"
    /\ IF IsProcessRunning(cand[c])
         THEN /\ proc' = [proc EXCEPT ![cand[c]] = "none"]
              /\ runFile' = NoPid
         ELSE UNCHANGED <<proc, runFile>>
    /\ pc' = [pc EXCEPT ![c] = "idle"]
    /\ cand' = [cand EXCEPT ![c] = NoPid]
    /\ UNCHANGED <<process, port, bin, stamp, owner, polls>>

(* The client process exits at any point (or stop_service() drops the      *)
(* singleton): its manager is gone, its detached child lives on and init   *)
(* reaps it when it dies.                                                  *)
ClientExit(c) ==
    /\ pc' = [pc EXCEPT ![c] = "idle"]
    /\ process' = [process EXCEPT ![c] = NoPid]
    /\ port' = [port EXCEPT ![c] = NoPid]
    /\ cand' = [cand EXCEPT ![c] = NoPid]
    /\ polls' = [polls EXCEPT ![c] = 0]
    /\ owner' = [p \in Pids |-> IF owner[p] = c THEN NoClient ELSE owner[p]]
    /\ UNCHANGED <<proc, runFile, bin, stamp>>

-----------------------------------------------------------------------------
(* The service binary and the OS.                                          *)

\* The drive service comes up and writes {pid, port} to the run file.
ServiceRegister(p) ==
    /\ proc[p] = "booting"
    /\ proc' = [proc EXCEPT ![p] = "serving"]
    /\ runFile' = p
    /\ UNCHANGED <<pc, process, port, cand, bin, stamp, owner, polls>>

\* A service dies without removing its run file.
ServiceCrash(p) ==
    /\ proc[p] \in ServiceStates
    /\ proc' = [proc EXCEPT ![p] = "none"]
    /\ UNCHANGED <<pc, process, port, cand, runFile, bin, stamp, owner, polls>>

\* The OS gives a free pid to an unrelated process, which may exit again.
ForeignStart(p) ==
    /\ FreePid(p)
    /\ proc' = [proc EXCEPT ![p] = "foreign"]
    /\ UNCHANGED <<pc, process, port, cand, runFile, bin, stamp, owner, polls>>

ForeignExit(p) ==
    /\ proc[p] = "foreign"
    /\ proc' = [proc EXCEPT ![p] = "none"]
    /\ UNCHANGED <<pc, process, port, cand, runFile, bin, stamp, owner, polls>>

-----------------------------------------------------------------------------
\* The steps a client takes inside a call, bounded by the code's timeouts.
\* Download is not among them: urlretrieve has no timeout.
ClientBusyStep(c) ==
    \/ GetPortHit(c) \/ GetPortMiss(c) \/ GetPortRetry(c) \/ GetPortTimeout(c)
    \/ Attach(c)
    \/ DownloadAndExtractCheck(c) \/ ExtractBegin(c) \/ ExtractEnd(c)
    \/ WriteVersion(c) \/ ExecuteBinary(c) \/ Registered(c)
    \/ StopReadRunFile(c) \/ StopKillRunFilePid(c)

ClientStep(c) ==
    \/ StartCached(c) \/ Start(c) \/ Stop(c) \/ Download(c)
    \/ ClientBusyStep(c) \/ ClientExit(c)

EnvStep(p) ==
    \/ ServiceRegister(p) \/ ServiceCrash(p)
    \/ ForeignStart(p) \/ ForeignExit(p)

Next ==
    \/ \E c \in Clients : ClientStep(c)
    \/ \E p \in Pids : EnvStep(p)

\* A client inside a call keeps running it; calling, exiting, the download
\* and the environment are not assumed to happen.  The polling loop of
\* _get_port ends by its deadline after at most PollLimit sleeps.
Fairness ==
    \A c \in Clients : WF_vars(ClientBusyStep(c))

Spec == Init /\ [][Next]_vars

FairSpec == Spec /\ Fairness

-----------------------------------------------------------------------------
(* Properties.                                                             *)

\* Type invariant; a call that has read the run file holds a real pid.
TypeOK ==
    /\ pc \in [Clients -> Phases]
    /\ process \in [Clients -> Pids \cup {NoPid}]
    /\ port \in [Clients -> Pids \cup {NoPid}]
    /\ cand \in [Clients -> Pids \cup {NoPid}]
    /\ polls \in [Clients -> 0..PollLimit]
    /\ \A c \in Clients :
          (cand[c] \in Pids) <=> (pc[c] \in {"disc_health", "reg_health", "stop_kill"})
    /\ proc \in [Pids -> ServiceStates \cup {"none", "foreign"}]
    /\ runFile \in Pids \cup {NoPid}
    /\ bin \in {"absent", "partial", "complete"}
    /\ stamp \in {"none", "old", "pinned"}
    /\ owner \in [Pids -> Clients \cup {NoClient}]

\* The installation is never reported as the pinned version while the binary
\* is missing or half-extracted (the order extract-then-write-version.txt of
\* _download_and_extract_binary is what is meant to guarantee it, across
\* client crashes at any point).
InstallIntegrity ==
    stamp = "pinned" => bin = "complete"

\* A manager never loses the handle of a live child it spawned: while the
\* client process lives, every service it launched is dead or is still
\* self.process, so stop() terminates it (start() never spawns twice).
OwnedChildTracked ==
    \A p \in Pids :
        owner[p] # NoClient /\ proc[p] \in ServiceStates
            => process[owner[p]] = p

\* start() never spawns a second service over a child its manager still
\* holds, and never gives it a pid in use: self.process changes to a new
\* child only from None (the `if self.process is not None` early return,
\* with stop() and the client's exit clearing it), and Popen's pid was free.
ChildNeverReplaced ==
    [][\A c \in Clients :
          process'[c] # process[c] /\ process'[c] # NoPid
              => process[c] = NoPid /\ proc[process'[c]] = "none"]_vars

\* Every call of start() or stop() returns (or raises) unless it is blocked
\* in the release download: the run-file polls and the health probes are
\* bounded by their timeouts.
CallsReturn ==
    \A c \in Clients :
        pc[c] \in (StartPhases \cup StopPhases) \ {"download"}
            ~> pc[c] \in RestPhases \cup {"download"}

\* stop() sends SIGTERM only to a spore-drive service, never to an unrelated
\* process that inherited the pid of a stale run file.
StopSignalsOnlyServices ==
    [][\A c \in Clients :
          StopKillRunFilePid(c) => proc[cand[c]] # "foreign"]_vars

\* Discovery attaches only to a service that is up: start() adopts the port
\* of a run file only when the health probe can succeed (spec 4.1,
\* Discovering: "If healthy -> Attached").
AttachOnlyToServing ==
    [][\A c \in Clients : Attach(c) => proc[cand[c]] = "serving"]_vars

\* start() returns a port: a manager whose start() returned holds one.
ReadyHasPort ==
    \A c \in Clients : pc[c] = "ready" => port[c] # NoPid

\* After stop() get_port() is None (test_service_manager_start_stop).
StopClearsPort ==
    \A c \in Clients : pc[c] \in StopPhases \cup {"idle"} => port[c] = NoPid

\* No serving spore-drive service is lost: each is named by the run file,
\* so later clients find it, or is the child of a live manager.
NoLeakedService ==
    \A p \in Pids :
        proc[p] = "serving" =>
            runFile = p \/ \E c \in Clients : process[c] = p

=============================================================================

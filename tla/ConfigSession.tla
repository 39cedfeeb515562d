--------------------------- MODULE ConfigSession ---------------------------
(***************************************************************************)
(* A client session of spore_drive: a Config object (config.py), the      *)
(* section wrappers built from it (operations.py), a Drive built from the  *)
(* Config and a Course plotted on the Drive (drive.py), against the       *)
(* handles the service keeps.  Every server call is a request carrying the *)
(* handles named in it; the service answers it, or the transport fails and *)
(* the call raises (BaseOperation._do_request swallows that and returns an *)
(* empty Return).  start_service() is abstracted to "returns a port or     *)
(* raises"; ServiceManager.tla models it.  The service itself is Go code   *)
(* outside this tree: it issues a fresh handle on new/plot and releases it *)
(* on free/abort, and a call naming a released handle fails.              *)
(***************************************************************************)
EXTENDS WrapperTree, FiniteSets

CONSTANT MaxHandles   \* handles the service issues in a behaviour

ASSUME SessionAssumption == MaxHandles \in Nat \ {0}

Handles == 1 .. MaxHandles
NoHandle == 0                 \* None in a handle slot

\* The wrapper the user holds: its class, its op_path and the config
\* handle it captured; cls "none" when it holds none.
NoWrap == [cls |-> "none", path |-> <<>>, handle |-> NoHandle]

VARIABLES
    cfg,      \* the Config object: [client |-> _client set, handle |-> _config]
    wrap,     \* the section wrapper the user holds
    drv,      \* the Drive object: [client |-> _client set, handle |-> _drive]
    course,   \* the course handle of the Course object, NoHandle if none
    live,     \* service: the handles it holds
    issued,   \* service: handles issued so far (the next one is issued + 1)
    carried,  \* handles named by the requests of the last call
    ops,      \* the Op requests (ConfigClient.do) of the last call
    outcome   \* how the last call ended: "ok", "raised" or "invalid"

vars == <<cfg, wrap, drv, course, live, issued, carried, ops, outcome>>

\* An Op request: the config handle, the wrapper's op_path and the action
\* (OperationEncoder.Encode gives the message bound from them).
Req(h, path, act) == [handle |-> h, path |-> path, act |-> act]

\* The set() of a StringOperation reached from `path` by the selectors `tags`.
SetReq(h, path, tags, v) ==
    Req(h, path \o [i \in 1 .. Len(tags) |-> Selector(tags[i], "none", v)],
        [cls |-> "String", case |-> "set", value |-> v])

\* The service: a fresh handle, when one is left.
Fresh == issued + 1
CanIssue == issued < MaxHandles

Init ==
    /\ cfg = [client |-> FALSE, handle |-> NoHandle]
    /\ wrap = NoWrap
    /\ drv = [client |-> FALSE, handle |-> NoHandle]
    /\ course = NoHandle
    /\ live = {}
    /\ issued = 0
    /\ carried = {}
    /\ ops = {}
    /\ outcome = "ok"

\* A call that sends nothing.
Quiet(result) == carried' = {} /\ ops' = {} /\ outcome' = result

-----------------------------------------------------------------------------
(* Config (config.py).                                                     *)

\* Config.create / new / from_directory / from_archive, __aenter__ and a
\* direct call -> init(): start_service(), a ConfigClient, then new (or
\* load / upload of the source).  init() has no guard of its own: called on
\* a Config that holds a handle it replaces it (__aenter__ skips the call
\* then, a step that changes nothing).  A missing source directory raises
\* before any of this.
ConfigInit ==
    /\ UNCHANGED <<wrap, drv, course>>
    /\ \/ /\ Quiet("raised")                        \* start_service raised
          /\ UNCHANGED <<cfg, live, issued>>
       \/ /\ carried' = {} /\ ops' = {}
          /\ \/ /\ CanIssue
                /\ cfg' = [client |-> TRUE, handle |-> Fresh]
                /\ live' = live \cup {Fresh}
                /\ issued' = Fresh
                /\ outcome' = "ok"
             \/ /\ cfg' = [cfg EXCEPT !.client = TRUE]  \* new/load failed
                /\ outcome' = "raised"
                /\ UNCHANGED <<live, issued>>

\* Mutant of ConfigFree: free() without its "_config and _client" check.
ConfigFreeNoCheck ==
    /\ UNCHANGED <<cfg, wrap, drv, course, issued>>
    /\ ops' = {}
    /\ carried' = {cfg.handle}
    /\ \/ /\ cfg.handle \in live
          /\ live' = live \ {cfg.handle}
          /\ outcome' = "ok"
       \/ /\ outcome' = "raised"
          /\ UNCHANGED live

\* Config.free / __aexit__: frees the handle and keeps it in _config.
ConfigFree ==
    /\ UNCHANGED <<cfg, wrap, drv, course, issued>>
    /\ ops' = {}
    /\ IF cfg.handle # NoHandle /\ cfg.client
         THEN /\ carried' = {cfg.handle}
              /\ \/ /\ cfg.handle \in live
                    /\ live' = live \ {cfg.handle}
                    /\ outcome' = "ok"
                 \/ /\ outcome' = "raised"
                    /\ UNCHANGED live
         ELSE /\ carried' = {} /\ outcome' = "ok"
              /\ UNCHANGED live

\* The guard of cloud/hosts/auth/shapes/commit/download.
Initialized == cfg.handle # NoHandle /\ cfg.client

\* Config.commit / save, and Config.download: one call naming the handle.
ConfigCall ==
    /\ UNCHANGED <<cfg, wrap, drv, course, live, issued>>
    /\ ops' = {}
    /\ IF Initialized
         THEN /\ carried' = {cfg.handle}
              /\ outcome' \in IF cfg.handle \in live THEN {"ok", "raised"}
                                                     ELSE {"raised"}
         ELSE Quiet("raised")

\* Mutant of Section: the property forgets the "Config not initialized" check.
SectionNoInitCheck(root) ==
    /\ UNCHANGED <<cfg, drv, course, live, issued>>
    /\ carried' = {} /\ ops' = {}
    /\ wrap' = [cls |-> Roots[root], path |-> <<Selector(root, "none", root)>>,
                handle |-> cfg.handle]
    /\ outcome' = "ok"

\* Config.cloud / hosts / auth / shapes: a root wrapper on the handle.
Section(root) ==
    /\ UNCHANGED <<cfg, drv, course, live, issued>>
    /\ carried' = {} /\ ops' = {}
    /\ IF Initialized
         THEN /\ wrap' = [cls |-> Roots[root],
                          path |-> <<Selector(root, "none", root)>>,
                          handle |-> cfg.handle]
              /\ outcome' = "ok"
         ELSE /\ outcome' = "raised"
              /\ UNCHANGED wrap

-----------------------------------------------------------------------------
(* Section wrappers (operations.py).                                       *)

\* A property or selection method of the held wrapper.
Navigate(s, n) ==
    /\ wrap.cls = s.from
    /\ wrap' = [wrap EXCEPT !.cls = s.to,
                            !.path = Append(@, Selector(s.tag, s.qual, n))]
    /\ Quiet("ok")
    /\ UNCHANGED <<cfg, drv, course, live, issued>>

\* A terminal method: one Op through _do_request, whose failures are
\* swallowed, so the call returns whatever the transport did.
Issue(a, v) ==
    /\ wrap.cls = a.cls
    /\ ops' = {Req(wrap.handle, wrap.path, [cls |-> a.cls, case |-> a.case, value |-> v])}
    /\ carried' = {wrap.handle}
    /\ outcome' = "ok"
    /\ UNCHANGED <<cfg, wrap, drv, course, live, issued>>

\* The set() method of the held wrapper with config `c`: the leaf set()
\* calls of its plan in order, each an Op through _do_request, up to the
\* first raise (Signer.set's key-and-password check), which ends the call.
SectionSet(c) ==
    /\ wrap.cls \in SetClasses
    /\ LET plan == SetPlan(wrap.cls, c)
           stop == SelectInSeq(plan, LAMBDA st : st.kind = "raise")
           done == IF stop = 0 THEN Len(plan) ELSE stop - 1
           sent == {Req(wrap.handle, wrap.path \o plan[i].sel,
                        [cls |-> plan[i].cls, case |-> "set", value |-> plan[i].value])
                     : i \in 1 .. done}
       IN /\ ops' = sent
          /\ carried' = {r.handle : r \in sent}
          /\ outcome' = IF stop = 0 THEN "ok" ELSE "invalid"
    /\ UNCHANGED <<cfg, wrap, drv, course, live, issued>>

-----------------------------------------------------------------------------
(* Drive and Course (drive.py).                                            *)

\* Drive(...) with create / with_latest_tau / with_version / with_url /
\* with_path, or __aenter__ -> init(): start_service(), a DriveClient, the
\* config copied into the request (a TypeError on None), the tau source
\* (_normalize_tau_source, whose ValueError comes before any call) as one
\* field of the request, then new.
DriveInit ==
    /\ UNCHANGED <<cfg, wrap, course>>
    /\ ops' = {}
    /\ \/ /\ Quiet("raised")                        \* start_service raised
          /\ UNCHANGED <<drv, live, issued>>
       \/ /\ cfg.handle = NoHandle                   \* CopyFrom(None)
          /\ drv' = [drv EXCEPT !.client = TRUE]
          /\ carried' = {} /\ outcome' = "raised"
          /\ UNCHANGED <<live, issued>>
       \/ /\ cfg.handle # NoHandle
          /\ carried' = {cfg.handle}
          /\ \/ /\ cfg.handle \in live /\ CanIssue
                /\ drv' = [client |-> TRUE, handle |-> Fresh]
                /\ live' = live \cup {Fresh}
                /\ issued' = Fresh
                /\ outcome' = "ok"
             \/ /\ drv' = [drv EXCEPT !.client = TRUE]
                /\ outcome' = "raised"
                /\ UNCHANGED <<live, issued>>

\* Drive.free / __aexit__: frees the drive and keeps it in _drive.
DriveFree ==
    /\ UNCHANGED <<cfg, wrap, drv, course, issued>>
    /\ ops' = {}
    /\ IF drv.handle # NoHandle /\ drv.client
         THEN /\ carried' = {drv.handle}
              /\ \/ /\ drv.handle \in live
                    /\ live' = live \ {drv.handle}
                    /\ outcome' = "ok"
                 \/ /\ outcome' = "raised"
                    /\ UNCHANGED live
         ELSE /\ carried' = {} /\ outcome' = "ok"
              /\ UNCHANGED live

\* Drive.plot: a Course on the drive.
Plot ==
    /\ UNCHANGED <<cfg, wrap, drv>>
    /\ ops' = {}
    /\ IF drv.handle # NoHandle /\ drv.client
         THEN /\ carried' = {drv.handle}
              /\ \/ /\ drv.handle \in live /\ CanIssue
                    /\ course' = Fresh
                    /\ live' = live \cup {Fresh}
                    /\ issued' = Fresh
                    /\ outcome' = "ok"
                 \/ /\ outcome' = "raised"
                    /\ UNCHANGED <<course, live, issued>>
         ELSE /\ Quiet("raised")
              /\ UNCHANGED <<course, live, issued>>

\* Course.displace and Course.progress: a call naming the course.
Displace ==
    /\ course # NoHandle
    /\ carried' = {course}
    /\ outcome' \in IF course \in live THEN {"ok", "raised"} ELSE {"raised"}
    /\ UNCHANGED <<cfg, wrap, drv, course, live, issued>>
    /\ ops' = {}

\* Course.abort / __aexit__: the service ends the course.
Abort ==
    /\ course # NoHandle
    /\ carried' = {course}
    /\ \/ /\ course \in live
          /\ live' = live \ {course}
          /\ outcome' = "ok"
       \/ /\ outcome' = "raised"
          /\ UNCHANGED live
    /\ UNCHANGED <<cfg, wrap, drv, course, issued>>
    /\ ops' = {}

-----------------------------------------------------------------------------
Next ==
    \/ ConfigInit \/ ConfigFree \/ ConfigCall
    \/ \E r \in DOMAIN Roots : Section(r)
    \/ \E s \in NavSteps, n \in Names : Navigate(s, n)
    \/ \E a \in Acts : \E v \in Payloads(a.payload) : Issue(a, v)
    \/ \E c \in SetConfigs(wrap.cls) : SectionSet(c)
    \/ DriveInit \/ DriveFree \/ Plot \/ Displace \/ Abort

Spec == Init /\ [][Next]_vars

-----------------------------------------------------------------------------
(* Properties.                                                             *)

\* The type of the session; a wrapper the user holds captured a handle the
\* service issued (the "Config not initialized" guard of the section
\* properties).
TypeOK ==
    /\ issued \in 0 .. MaxHandles
    /\ cfg \in [client : BOOLEAN, handle : 0 .. issued]
    /\ drv \in [client : BOOLEAN, handle : 0 .. issued]
    /\ course \in 0 .. issued
    /\ DOMAIN wrap = {"cls", "path", "handle"}
    /\ wrap.cls # "none" => wrap.handle \in 1 .. issued
    /\ live \subseteq 1 .. issued
    /\ outcome \in {"ok", "raised", "invalid"}

\* No call reaches the service naming None or a handle the service never
\* issued: the "not initialized" guards of Config, Drive and free(),
\* Drive.init's copy of the Config's handle, the handle a wrapper captured
\* and the course a Course was built with all hold an issued id.
IssuedHandlesOnly == carried \subseteq 1 .. issued

\* A handle must not be used after its release (spec section 3): no call
\* sends a request naming a handle the service no longer holds.
NoUseAfterFree == [][\A h \in carried' : h \in live]_vars

\* Signer.set validation (spec section 7): a call rejected for carrying both
\* a key and a password raises before it makes any remote call.
ValidationBeforeCalls == outcome = "invalid" => carried = {}

=============================================================================

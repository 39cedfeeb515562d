------------------------ MODULE ConfigSessionProofs ------------------------
(***************************************************************************)
(* Proofs about ConfigSession that hold for every number of handles and   *)
(* every set of names and payloads: the session stays well typed (a held  *)
(* wrapper always captured an issued handle), and no call reaches the     *)
(* service naming None or a handle it never issued.                       *)
(***************************************************************************)
EXTENDS ConfigSession, TLAPS

USE SessionAssumption DEF NoHandle, Handles

\* Every wrapper class is named: a navigation step starts from a held
\* wrapper, a terminal method and a set() method belong to one.
LEMMA NamedClasses ==
    /\ \A s \in NavSteps : s.from # "none"
    /\ \A a \in Acts : a.cls # "none"
    /\ "none" \notin SetClasses
<1>1. \A s \in NavSteps : s.from # "none"
  BY DEF NavSteps, Trees, CloudTree, P2PTree, HostsTree, AuthTree, ShapesTree, Nav
<1>2. \A a \in Acts : a.cls # "none"
  BY DEF Acts, LeafActs, Trees, CloudTree, P2PTree, HostsTree, AuthTree,
         ShapesTree, Act
<1>3. "none" \notin SetClasses
  BY DEF SetClasses
<1>4. QED
  BY <1>1, <1>2, <1>3

-----------------------------------------------------------------------------
\* Every request of a set() plan names the handle its wrapper captured,
\* whatever the plan and wherever it stops.
LEMMA SetCarriesWrapHandle ==
    ASSUME NEW c, SectionSet(c)
    PROVE  \A x \in carried' : x = wrap.handle
<1> DEFINE plan == SetPlan(wrap.cls, c)
           stop == SelectInSeq(plan, LAMBDA st : st.kind = "raise")
           done == IF stop = 0 THEN Len(plan) ELSE stop - 1
           sent == {Req(wrap.handle, wrap.path \o plan[i].sel,
                        [cls |-> plan[i].cls, case |-> "set", value |-> plan[i].value])
                     : i \in 1 .. done}
<1>1. carried' = {r.handle : r \in sent}
  BY DEF SectionSet
<1>2. \A r \in sent : r.handle = wrap.handle
  <2>1. TAKE r \in sent
  <2>2. PICK i \in 1 .. done :
            r = Req(wrap.handle, wrap.path \o plan[i].sel,
                    [cls |-> plan[i].cls, case |-> "set", value |-> plan[i].value])
    BY DEF sent
  <2>3. QED
    BY <2>2 DEF Req
<1>3. QED
  BY <1>1, <1>2, Zenon

-----------------------------------------------------------------------------
\* Every step keeps the session in its type.
LEMMA TypeStep == TypeOK /\ [Next]_vars => TypeOK'
<1> SUFFICES ASSUME TypeOK, [Next]_vars PROVE TypeOK'
  OBVIOUS
<1>1. CASE ConfigInit
  <2>1. CASE Quiet("raised") /\ UNCHANGED <<cfg, live, issued>>
    BY <1>1, <2>1 DEF ConfigInit, Quiet, TypeOK
  <2>2. CASE /\ CanIssue
             /\ cfg' = [client |-> TRUE, handle |-> Fresh]
             /\ live' = live \cup {Fresh}
             /\ issued' = Fresh
             /\ outcome' = "ok"
    <3>1. issued \in Nat /\ issued' = issued + 1 /\ issued' <= MaxHandles
      BY <2>2 DEF CanIssue, Fresh, TypeOK
    <3>2. QED
      BY <1>1, <2>2, <3>1 DEF ConfigInit, Fresh, TypeOK
  <2>3. CASE /\ cfg' = [cfg EXCEPT !.client = TRUE]
             /\ outcome' = "raised"
             /\ UNCHANGED <<live, issued>>
    BY <1>1, <2>3 DEF ConfigInit, TypeOK
  <2>4. QED
    BY <1>1, <2>1, <2>2, <2>3 DEF ConfigInit
<1>2. CASE ConfigFree
  BY <1>2 DEF ConfigFree, TypeOK
<1>3. CASE ConfigCall
  BY <1>3 DEF ConfigCall, Initialized, Quiet, TypeOK
<1>4. ASSUME NEW r \in DOMAIN Roots, Section(r) PROVE TypeOK'
  BY <1>4 DEF Section, Initialized, TypeOK
<1>5. ASSUME NEW s \in NavSteps, NEW n \in Names, Navigate(s, n) PROVE TypeOK'
  <2>1. s.from # "none"
    BY NamedClasses
  <2>2. QED
    BY <1>5, <2>1 DEF Navigate, Quiet, TypeOK
<1>6. ASSUME NEW a \in Acts, NEW v \in Payloads(a.payload), Issue(a, v) PROVE TypeOK'
  BY <1>6 DEF Issue, TypeOK
<1>7. ASSUME NEW c \in SetConfigs(wrap.cls), SectionSet(c) PROVE TypeOK'
  BY <1>7 DEF SectionSet, TypeOK
<1>8. CASE DriveInit
  <2>1. CASE Quiet("raised") /\ UNCHANGED <<drv, live, issued>>
    BY <1>8, <2>1 DEF DriveInit, Quiet, TypeOK
  <2>2. CASE /\ drv' = [drv EXCEPT !.client = TRUE]
             /\ outcome' = "raised"
             /\ UNCHANGED <<live, issued>>
    BY <1>8, <2>2 DEF DriveInit, TypeOK
  <2>3. CASE /\ cfg.handle # NoHandle
             /\ cfg.handle \in live /\ CanIssue
             /\ drv' = [client |-> TRUE, handle |-> Fresh]
             /\ live' = live \cup {Fresh}
             /\ issued' = Fresh
             /\ outcome' = "ok"
    <3>1. issued \in Nat /\ issued' = issued + 1 /\ issued' <= MaxHandles
      BY <2>3 DEF CanIssue, Fresh, TypeOK
    <3>2. QED
      BY <1>8, <2>3, <3>1 DEF DriveInit, Fresh, TypeOK
  <2>4. QED
    BY <1>8, <2>1, <2>2, <2>3 DEF DriveInit, Quiet
<1>9. CASE DriveFree
  BY <1>9 DEF DriveFree, TypeOK
<1>10. CASE Plot
  <2>1. CASE /\ drv.handle \in live /\ CanIssue
             /\ course' = Fresh
             /\ live' = live \cup {Fresh}
             /\ issued' = Fresh
             /\ outcome' = "ok"
    <3>1. issued \in Nat /\ issued' = issued + 1 /\ issued' <= MaxHandles
      BY <2>1 DEF CanIssue, Fresh, TypeOK
    <3>2. QED
      BY <1>10, <2>1, <3>1 DEF Plot, Fresh, TypeOK
  <2>2. CASE UNCHANGED <<course, live, issued>>
    BY <1>10, <2>2 DEF Plot, Quiet, TypeOK
  <2>3. QED
    BY <1>10, <2>1, <2>2 DEF Plot, Quiet
<1>11. CASE Displace
  BY <1>11 DEF Displace, TypeOK
<1>12. CASE Abort
  BY <1>12 DEF Abort, TypeOK
<1>13. CASE UNCHANGED vars
  BY <1>13 DEF vars, TypeOK
<1>14. QED
  BY <1>1, <1>2, <1>3, <1>4, <1>5, <1>6, <1>7, <1>8, <1>9, <1>10, <1>11,
     <1>12, <1>13 DEF Next

\* Type correctness of the session (the run `session` checks TypeOK on one
\* instance): every held wrapper captured a handle the service issued.
THEOREM TypeCorrect == Spec => []TypeOK
<1>1. Init => TypeOK
  BY DEF Init, TypeOK, NoWrap
<1>2. QED
  BY <1>1, TypeStep, PTL DEF Spec

-----------------------------------------------------------------------------
\* Every step of a well-typed session sends only issued handles.
LEMMA IssuedStep ==
    TypeOK /\ IssuedHandlesOnly /\ [Next]_vars => IssuedHandlesOnly'
<1> SUFFICES ASSUME TypeOK, IssuedHandlesOnly, [Next]_vars
             PROVE IssuedHandlesOnly'
  OBVIOUS
<1>1. CASE ConfigInit
  BY <1>1 DEF ConfigInit, Quiet, IssuedHandlesOnly
<1>2. CASE ConfigFree
  BY <1>2 DEF ConfigFree, TypeOK, IssuedHandlesOnly
<1>3. CASE ConfigCall
  BY <1>3 DEF ConfigCall, Initialized, Quiet, TypeOK, IssuedHandlesOnly
<1>4. ASSUME NEW r \in DOMAIN Roots, Section(r) PROVE IssuedHandlesOnly'
  BY <1>4 DEF Section, IssuedHandlesOnly
<1>5. ASSUME NEW s \in NavSteps, NEW n \in Names, Navigate(s, n)
      PROVE IssuedHandlesOnly'
  BY <1>5 DEF Navigate, Quiet, IssuedHandlesOnly
<1>6. ASSUME NEW a \in Acts, NEW v \in Payloads(a.payload), Issue(a, v)
      PROVE IssuedHandlesOnly'
  <2>1. wrap.cls # "none"
    BY <1>6, NamedClasses DEF Issue
  <2>2. QED
    BY <1>6, <2>1 DEF Issue, TypeOK, IssuedHandlesOnly
<1>7. ASSUME NEW c \in SetConfigs(wrap.cls), SectionSet(c)
      PROVE IssuedHandlesOnly'
  <2>1. wrap.handle \in 1 .. issued
    BY <1>7, NamedClasses DEF SectionSet, TypeOK
  <2>2. \A x \in carried' : x = wrap.handle
    BY <1>7, SetCarriesWrapHandle
  <2>3. issued' = issued
    BY <1>7 DEF SectionSet
  <2>4. QED
    BY <2>1, <2>2, <2>3 DEF IssuedHandlesOnly
<1>8. CASE DriveInit
  BY <1>8 DEF DriveInit, Quiet, Fresh, TypeOK, IssuedHandlesOnly
<1>9. CASE DriveFree
  BY <1>9 DEF DriveFree, TypeOK, IssuedHandlesOnly
<1>10. CASE Plot
  BY <1>10 DEF Plot, Quiet, Fresh, TypeOK, IssuedHandlesOnly
<1>11. CASE Displace
  BY <1>11 DEF Displace, TypeOK, IssuedHandlesOnly
<1>12. CASE Abort
  BY <1>12 DEF Abort, TypeOK, IssuedHandlesOnly
<1>13. CASE UNCHANGED vars
  BY <1>13 DEF vars, IssuedHandlesOnly
<1>14. QED
  BY <1>1, <1>2, <1>3, <1>4, <1>5, <1>6, <1>7, <1>8, <1>9, <1>10, <1>11,
     <1>12, <1>13 DEF Next

\* The client never sends None or an unissued id (the run `session` checks
\* IssuedHandlesOnly on one instance): the guards of Config.free,
\* Config.cloud/hosts/auth/shapes/commit/download, Drive.init, Drive.free
\* and Drive.plot, for every number of handles.
THEOREM HandlesIssued == Spec => []IssuedHandlesOnly
<1>1. Init => TypeOK /\ IssuedHandlesOnly
  BY DEF Init, TypeOK, NoWrap, IssuedHandlesOnly
<1>2. QED
  BY <1>1, TypeStep, IssuedStep, PTL DEF Spec

=============================================================================

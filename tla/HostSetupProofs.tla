-------------------------- MODULE HostSetupProofs --------------------------
(***************************************************************************)
(* An install that ran by itself has put everything in place, and a daemon *)
(* keeps its socket's name unless somebody else removes it.                *)
(***************************************************************************)
EXTENDS HostSetup, TLAPS

\* The first states satisfy the inductive invariant.
LEMMA InitInv == Init => HostInv
<1> SUFFICES ASSUME Init PROVE HostInv
    OBVIOUS
<1>0. 0 \in 0..MaxFaults /\ job \in [Command -> {"install", "uninstall"}]
    BY SetupAssumption DEF Init
<1>1. TypeOK
    BY <1>0 DEF Init, TypeOK, Places, Phases, Ended
<1>2. InstallInv
    BY SetupAssumption DEF Init, InstallInv
<1>3. NameInv
    BY DEF Init, NameInv
<1> QED BY <1>1, <1>2, <1>3 DEF HostInv

\* The steps of `apw host install` and `apw host uninstall` keep the types.
LEMMA SetupType ==
    ASSUME TypeOK, NEW c \in Command, SetupStep(c)
    PROVE  TypeOK'
<1> USE DEF fileVars, hostVars, daemonVars, nameVars, HostGone, Places, Ended, GoTo
<1>0. alone' \in Command \cup {None}
    BY DEF SetupStep, Install, Uninstall, Begins, Clear, Copy, WritePlist, Bootout, Bootstrap,
           Kickstart, RemovePlist, RemoveBundle, RemoveSocket, TypeOK
<1>1. CASE Install(c)
    BY <1>0, <1>1 DEF Install, Begins, TypeOK
<1>2. CASE Clear(c)
    BY <1>2 DEF Clear, TypeOK
<1>3. CASE Copy(c)
    BY <1>3 DEF Copy, TypeOK
<1>4. CASE WritePlist(c)
    BY <1>4 DEF WritePlist, TypeOK
<1>5. CASE Bootout(c)
    BY <1>5 DEF Bootout, TypeOK
<1>6. CASE Bootstrap(c)
    BY <1>6 DEF Bootstrap, TypeOK
<1>7. CASE Kickstart(c)
    BY <1>7 DEF Kickstart, TypeOK
<1>8. CASE Uninstall(c)
    BY <1>0, <1>8 DEF Uninstall, Begins, TypeOK
<1>9. CASE RemovePlist(c)
    BY <1>9 DEF RemovePlist, TypeOK
<1>10. CASE RemoveBundle(c)
    BY <1>10 DEF RemoveBundle, TypeOK
<1>11. CASE RemoveSocket(c)
    BY <1>11 DEF RemoveSocket, Unname, TypeOK
<1> QED BY <1>1, <1>2, <1>3, <1>4, <1>5, <1>6, <1>7, <1>8, <1>9, <1>10, <1>11 DEF SetupStep

\* The type invariant is kept by every step.
LEMMA TypeStep ==
    ASSUME TypeOK, [Next]_vars
    PROVE  TypeOK'
<1> USE DEF fileVars, hostVars, daemonVars, nameVars, HostGone, Phases
<1>1. ASSUME NEW d \in Daemon, StartStep(d)
      PROVE  TypeOK'
    BY <1>1 DEF StartStep, Preflight, Unlink, BindUnix, BindUdp, Serve, GiveUp, Ends,
                Becomes, Unname, TypeOK
<1>2. ASSUME NEW d \in Daemon, Attach(d) \/ Detach(d)
      PROVE  TypeOK'
    BY <1>2 DEF Attach, Detach, TypeOK
<1>3. ASSUME Fault
      PROVE  faults' \in 0..MaxFaults
    BY <1>3, SetupAssumption DEF Fault, TypeOK
<1>4. ASSUME NEW c \in Command, KillCommand(c)
      PROVE  TypeOK'
    BY <1>3, <1>4 DEF KillCommand, GoTo, Places, Ended, TypeOK
<1>5. CASE KillHost \/ BreakConnection
    BY <1>3, <1>5 DEF KillHost, BreakConnection, TypeOK
<1>6. ASSUME NEW d \in Daemon, KillDaemon(d)
      PROVE  TypeOK'
    BY <1>3, <1>6 DEF KillDaemon, Ends, Becomes, TypeOK
<1>7. CASE Spawn \/ HostConnect \/ HostAsks \/ HelperReplies
    BY <1>7 DEF Spawn, HostConnect, HostAsks, HelperReplies, Reachable, TypeOK
<1>8. CASE UNCHANGED vars
    BY <1>8 DEF vars, TypeOK
<1> QED BY <1>1, <1>2, <1>4, <1>5, <1>6, <1>7, <1>8, SetupType DEF Next

\* A step of a command keeps what an install that is alone has put in place: another
\* command that begins ends its being alone.
LEMMA InstallStepInv ==
    ASSUME TypeOK, InstallInv, NEW c \in Command, SetupStep(c)
    PROVE  InstallInv'
<1> USE DEF fileVars, hostVars, daemonVars, nameVars, HostGone, Places, Ended, GoTo, InstallInv, Active
<1>1. CASE Install(c)
    BY <1>1, SetupAssumption DEF Install, Begins, TypeOK
<1>2. CASE Clear(c)
    BY <1>2 DEF Clear, TypeOK
<1>3. CASE Copy(c)
    <2>1. alone' = alone /\ plist' = plist /\ loaded' = loaded /\ job' = job
        BY <1>3 DEF Copy
    <2>2. at[c] = "copying" /\ (at' = at \/ at' = [at EXCEPT ![c] = "plist"]
                                  \/ at' = [at EXCEPT ![c] = "failed"])
        BY <1>3 DEF Copy
    <2>3. \A d \in Command \ {c} : alone # d
        BY <2>2
    <2>4. CASE alone = c
        <3>1. \A d \in Command \ {c} : at'[d] = at[d]
            BY <2>2 DEF TypeOK
        <3>2. at'[c] = "copying" \/ at'[c] = "failed" \/ (at'[c] = "plist" /\ bundle' = "complete")
            BY <1>3, <2>2, <2>4 DEF Copy, TypeOK
        <3>3. job[c] = "install" \/ at'[c] # "plist"
            BY <2>2, <2>4, <3>2
        <3> QED BY <2>1, <2>2, <2>4, <3>1, <3>2, <3>3 DEF TypeOK
    <2>5. CASE alone # c
        BY <2>1, <2>3, <2>5
    <2> QED BY <2>4, <2>5
<1>4. CASE WritePlist(c)
    BY <1>4 DEF WritePlist, TypeOK
<1>5. CASE Bootout(c)
    BY <1>5 DEF Bootout, TypeOK
<1>6. CASE Bootstrap(c)
    BY <1>6 DEF Bootstrap, TypeOK
<1>7. CASE Kickstart(c)
    BY <1>7 DEF Kickstart, TypeOK
<1>8. CASE Uninstall(c)
    BY <1>8, SetupAssumption DEF Uninstall, Begins, TypeOK
<1>9. CASE RemovePlist(c)
    BY <1>9 DEF RemovePlist, TypeOK
<1>10. CASE RemoveBundle(c)
    BY <1>10 DEF RemoveBundle, TypeOK
<1>11. CASE RemoveSocket(c)
    BY <1>11 DEF RemoveSocket, TypeOK
<1> QED BY <1>1, <1>2, <1>3, <1>4, <1>5, <1>6, <1>7, <1>8, <1>9, <1>10, <1>11 DEF SetupStep

\* InstallInv is kept by every step.
LEMMA InstallInvStep ==
    ASSUME TypeOK, InstallInv, [Next]_vars
    PROVE  InstallInv'
<1> USE DEF fileVars, hostVars, daemonVars, nameVars, HostGone
<1>1. CASE UNCHANGED <<job, at, alone, bundle, plist, loaded>>
    BY <1>1 DEF InstallInv, Active
<1>2. ASSUME NEW d \in Daemon, StartStep(d) \/ Attach(d) \/ Detach(d) \/ KillDaemon(d)
      PROVE  UNCHANGED <<job, at, alone, bundle, plist, loaded>>
    BY <1>2 DEF StartStep, Preflight, Unlink, BindUnix, BindUdp, Serve, GiveUp, Ends,
                Attach, Detach, KillDaemon
<1>3. ASSUME Spawn \/ HostConnect \/ HostAsks \/ HelperReplies \/ KillHost \/ BreakConnection
      PROVE  UNCHANGED <<job, at, alone, bundle, plist, loaded>>
    BY <1>3 DEF Spawn, HostConnect, HostAsks, HelperReplies, KillHost, BreakConnection
<1>4. ASSUME NEW c \in Command, KillCommand(c)
      PROVE  InstallInv'
    BY <1>4 DEF KillCommand, GoTo, InstallInv, Active, Ended, TypeOK
<1>5. CASE UNCHANGED vars
    BY <1>1, <1>5 DEF vars
<1> QED BY <1>1, <1>2, <1>3, <1>4, <1>5, InstallStepInv DEF Next

\* NameInv is kept: a name is lost to somebody else, or with its daemon.
LEMMA NameInvStep ==
    ASSUME TypeOK, NameInv, [Next]_vars
    PROVE  NameInv'
<1> USE DEF fileVars, hostVars, daemonVars, nameVars, HostGone, NameInv
<1>1. ASSUME NEW c \in Command, SetupStep(c)
      PROVE  NameInv'
    <2>1. CASE Bootout(c) \/ Kickstart(c) \/ Bootstrap(c)
        BY <2>1 DEF Bootout, Kickstart, Bootstrap, TypeOK
    <2>2. CASE RemoveSocket(c)
        BY <2>2, SetupAssumption DEF RemoveSocket, Unname, TypeOK
    <2>3. CASE UNCHANGED <<hostVars, daemonVars, nameVars>>
        BY <2>3
    <2> QED BY <1>1, <2>1, <2>2, <2>3 DEF SetupStep, Install, Clear, Copy, WritePlist,
                                        Uninstall, RemovePlist, RemoveBundle
<1>2. ASSUME NEW d \in Daemon, StartStep(d)
      PROVE  NameInv'
    <2>1. CASE Preflight(d)
        BY <2>1 DEF Preflight, Becomes, TypeOK
    <2>2. CASE Unlink(d)
        BY <2>2 DEF Unlink, Becomes, Unname, TypeOK
    <2>3. CASE BindUnix(d)
        <3>1. CASE name = None /\ Becomes(d, "bound") /\ name' = d
            <4>1. \A e \in Daemon : phase[e] \in {"bound", "waiting", "serving"} => e \in robbed
                BY <3>1, SetupAssumption
            <4>2. robbed' = robbed /\ UNCHANGED <<conn, host, asking, loaded>>
                BY <2>3 DEF BindUnix
            <4>3. phase' = [phase EXCEPT ![d] = "bound"]
                BY <3>1 DEF Becomes
            <4> QED BY <3>1, <4>1, <4>2, <4>3 DEF TypeOK
        <3>2. CASE Becomes(d, "stopped") /\ UNCHANGED name
            BY <2>3, <3>2 DEF BindUnix, Becomes, TypeOK
        <3> QED BY <2>3, <3>1, <3>2 DEF BindUnix
    <2>4. CASE BindUdp(d)
        BY <2>4 DEF BindUdp, Becomes, Ends, TypeOK
    <2>5. CASE Serve(d)
        BY <2>5 DEF Serve, Becomes, TypeOK
    <2>6. CASE GiveUp(d)
        BY <2>6 DEF GiveUp, Becomes, Ends, Unname, TypeOK
    <2> QED BY <1>2, <2>1, <2>2, <2>3, <2>4, <2>5, <2>6 DEF StartStep
<1>3. ASSUME NEW d \in Daemon, Attach(d) \/ Detach(d) \/ KillDaemon(d)
      PROVE  NameInv'
    BY <1>3 DEF Attach, Detach, KillDaemon, Ends, Becomes, TypeOK
<1>4. CASE Spawn \/ HostConnect \/ HostAsks \/ HelperReplies \/ KillHost \/ BreakConnection
    BY <1>4 DEF Spawn, HostConnect, HostAsks, HelperReplies, KillHost, BreakConnection, Reachable, TypeOK
<1>5. ASSUME NEW c \in Command, KillCommand(c)
      PROVE  NameInv'
    BY <1>5 DEF KillCommand
<1>6. CASE UNCHANGED vars
    BY <1>6 DEF vars
<1> QED BY <1>1, <1>2, <1>3, <1>4, <1>5, <1>6 DEF Next

\* HostInv holds of every reachable state: what each step of an install that is alone
\* has achieved (native_host_install), and that a daemon on its way up, or serving, has
\* the name of its socket unless somebody else removed it (start_native_daemon_inner).
THEOREM HostSetupInvariant == Spec => []HostInv
<1>1. HostInv /\ [Next]_vars => HostInv'
    BY TypeStep, InstallInvStep, NameInvStep DEF HostInv
<1> QED BY <1>1, InitInv, PTL DEF Spec

\* Whatever earlier commands left behind, an install that ran by itself and reported
\* success has put everything in place (native_host_install).
THEOREM HostSetupHeals == Spec => []InstallHeals
<1>1. HostInv => InstallHeals
    <2> SUFFICES ASSUME HostInv, NEW c \in Command, alone = c, at[c] = "installed"
                 PROVE  bundle = "complete" /\ plist = "written" /\ PreflightStatus = "ready"
        BY DEF InstallHeals
    <2>1. bundle = "complete" /\ plist = "written" /\ loaded
        BY DEF HostInv, InstallInv
    <2> QED BY <2>1 DEF PreflightStatus
<1> QED BY <1>1, HostSetupInvariant, PTL
=============================================================================

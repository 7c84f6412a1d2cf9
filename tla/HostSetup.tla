----------------------------- MODULE HostSetup -----------------------------
(***************************************************************************)
(* The native host around the native-mode daemon: `apw host install` and   *)
(* `apw host uninstall` (rust/src/host.rs), launchd's job and the host     *)
(* process it keeps alive (native-host/Sources/main.swift), and the start  *)
(* of daemons that want it (start_native_daemon_inner), which share one    *)
(* socket path.  What a daemon does with an attached host is NativeDaemon. *)
(***************************************************************************)
EXTENDS Naturals

CONSTANTS
    Command,    \* `apw host install` and `apw host uninstall` processes
    Daemon,     \* `apw start` processes, in native mode
    Setups,     \* what the commands do, and the UDP ports the daemons are to serve
    None,
    MaxFaults   \* bound: processes killed, connections broken

ASSUME SetupAssumption ==
    /\ \A setup \in Setups : setup.job \in [Command -> {"install", "uninstall"}]
    /\ None \notin Daemon /\ None \notin Command
    /\ MaxFaults \in Nat

VARIABLES
    job,        \* what each command does
    at,         \* where each command is
    alone,      \* a command that no other has overlapped, so far
    bundle,     \* the installed app bundle
    plist,      \* the LaunchAgent's file
    loaded,     \* launchd has the job
    host,       \* the host process runs
    conn,       \* the daemon it is connected to
    asking,     \* the host waits for Apple's helper
    port,       \* the UDP port each daemon is to serve
    phase,      \* where each daemon is
    bridge,     \* what each daemon knows of the host
    name,       \* the daemon whose socket the path names
    robbed,     \* daemons that somebody else took the name from
    faults

fileVars   == <<bundle, plist>>
hostVars   == <<loaded, host, conn, asking>>
daemonVars == <<phase, bridge>>
nameVars   == <<name, robbed>>
vars == <<job, at, alone, fileVars, hostVars, port, daemonVars, nameVars, faults>>

Ended  == {"installed", "uninstalled", "failed"}
Places == {"start", "clearing", "copying", "plist", "bootout", "bootstrap", "kickstart",
           "removePlist", "removeBundle", "removeSocket"} \cup Ended
Phases == {"off", "checked", "unlinked", "bound", "waiting", "serving", "stopped"}

TypeOK ==
    /\ job \in [Command -> {"install", "uninstall"}]
    /\ at \in [Command -> Places]
    /\ alone \in Command \cup {None}
    /\ bundle \in {"absent", "partial", "complete"}
    /\ plist \in {"absent", "broken", "written"}
    /\ loaded \in BOOLEAN
    /\ host \in BOOLEAN
    /\ conn \in Daemon \cup {None}
    /\ asking \in BOOLEAN
    /\ phase \in [Daemon -> Phases]
    /\ bridge \in [Daemon -> {"waiting", "attached", "disconnected"}]
    /\ name \in Daemon \cup {None}
    /\ robbed \subseteq Daemon
    /\ faults \in 0..MaxFaults

Init ==
    /\ \E setup \in Setups : job = setup.job /\ port = setup.port
    /\ at = [c \in Command |-> "start"]
    /\ alone = None
    /\ \/ bundle = "absent" /\ plist = "absent" /\ loaded = FALSE
       \/ bundle = "complete" /\ plist = "written" /\ loaded = TRUE
    /\ host = FALSE /\ conn = None /\ asking = FALSE
    /\ phase = [d \in Daemon |-> "off"]
    /\ bridge = [d \in Daemon |-> "waiting"]
    /\ name = None /\ robbed = {}
    /\ faults = 0

-----------------------------------------------------------------------------
(* native_host_install                                                      *)

Active(c) == at[c] \notin {"start"} \cup Ended

GoTo(c, where) == at' = [at EXCEPT ![c] = where]

\* A command begins; it is alone if no other is under way.
Begins(c, where) ==
    /\ at[c] = "start"
    /\ GoTo(c, where)
    /\ alone' = IF \E d \in Command : Active(d) THEN None ELSE c

\* The directories are made and the packaged bundle is found, or not; then
\* copy_dir_recursive begins, with the removal of the old bundle.
Install(c) ==
    /\ job[c] = "install"
    /\ \/ Begins(c, "failed") /\ UNCHANGED bundle
       \/ bundle = "absent" /\ Begins(c, "copying") /\ UNCHANGED bundle
       \/ bundle # "absent" /\ Begins(c, "clearing") /\ bundle' = "partial"
    /\ UNCHANGED <<job, plist, hostVars, port, daemonVars, nameVars, faults>>

Clear(c) ==
    /\ at[c] = "clearing"
    /\ \/ GoTo(c, "copying") /\ bundle' = "absent"
       \/ GoTo(c, "failed") /\ UNCHANGED bundle
    /\ UNCHANGED <<job, alone, plist, hostVars, port, daemonVars, nameVars, faults>>

\* Another command may remove what this one has copied.
Copy(c) ==
    /\ at[c] = "copying"
    /\ \/ bundle = "absent" /\ bundle' = "partial" /\ UNCHANGED at
       \/ /\ bundle # "absent"
          /\ bundle' \in IF alone = c THEN {"complete"} ELSE {"partial", "complete"}
          /\ GoTo(c, "plist")
       \/ GoTo(c, "failed") /\ UNCHANGED bundle
    /\ UNCHANGED <<job, alone, plist, hostVars, port, daemonVars, nameVars, faults>>

WritePlist(c) ==
    /\ at[c] = "plist"
    /\ \/ GoTo(c, "bootout") /\ plist' = "written"
       \/ GoTo(c, "failed") /\ plist' \in {plist, "broken"}
    /\ UNCHANGED <<job, alone, bundle, hostVars, port, daemonVars, nameVars, faults>>

HostGone == host' = FALSE /\ conn' = None /\ asking' = FALSE

\* launchctl bootout ends the job that the file names, and its process; its failure
\* is ignored.
Bootout(c) ==
    /\ at[c] = "bootout"
    /\ GoTo(c, IF job[c] = "install" THEN "bootstrap" ELSE "removePlist")
    /\ \/ UNCHANGED hostVars
       \/ /\ plist = "written"
          /\ loaded' = FALSE /\ HostGone
    /\ UNCHANGED <<job, alone, fileVars, port, daemonVars, nameVars, faults>>

\* Mutant: the failure of bootstrap is ignored as well.
BootstrapMayFail(c) ==
    /\ at[c] = "bootstrap"
    /\ GoTo(c, "kickstart")
    /\ loaded' \in {loaded, TRUE}
    /\ UNCHANGED <<job, alone, fileVars, host, conn, asking, port, daemonVars, nameVars, faults>>

Bootstrap(c) ==
    /\ at[c] = "bootstrap"
    /\ \/ /\ plist = "written" /\ ~loaded
          /\ loaded' = TRUE
          /\ GoTo(c, "kickstart")
       \/ GoTo(c, "failed") /\ UNCHANGED loaded
    /\ UNCHANGED <<job, alone, fileVars, host, conn, asking, port, daemonVars, nameVars, faults>>

\* launchctl kickstart -k replaces the process of the job; its failure is ignored.
Kickstart(c) ==
    /\ at[c] = "kickstart"
    /\ GoTo(c, "installed")
    /\ \/ loaded /\ HostGone
       \/ UNCHANGED <<host, conn, asking>>
    /\ UNCHANGED <<job, alone, fileVars, loaded, port, daemonVars, nameVars, faults>>

-----------------------------------------------------------------------------
(* native_host_uninstall: every failure is ignored.                         *)

Uninstall(c) ==
    /\ job[c] = "uninstall"
    /\ Begins(c, "bootout")
    /\ UNCHANGED <<job, fileVars, hostVars, port, daemonVars, nameVars, faults>>

RemovePlist(c) ==
    /\ at[c] = "removePlist"
    /\ GoTo(c, "removeBundle")
    /\ plist' \in {plist, "absent"}
    /\ UNCHANGED <<job, alone, bundle, hostVars, port, daemonVars, nameVars, faults>>

RemoveBundle(c) ==
    /\ at[c] = "removeBundle"
    /\ GoTo(c, "removeSocket")
    /\ bundle' \in IF bundle = "absent" THEN {"absent"} ELSE {"absent", "partial"}
    /\ UNCHANGED <<job, alone, plist, hostVars, port, daemonVars, nameVars, faults>>

\* The file is removed by somebody else than d (or by nobody in particular).
Unname(d) ==
    /\ name' = None
    /\ robbed' = robbed \cup ({name} \ {d, None})

RemoveSocket(c) ==
    /\ at[c] = "removeSocket"
    /\ GoTo(c, "uninstalled")
    /\ Unname(None) \/ UNCHANGED nameVars
    /\ UNCHANGED <<job, alone, fileVars, hostVars, port, daemonVars, faults>>

SetupStep(c) ==
    \/ Install(c) \/ Clear(c) \/ Copy(c) \/ WritePlist(c) \/ Bootout(c)
    \/ Bootstrap(c) \/ Kickstart(c)
    \/ Uninstall(c) \/ RemovePlist(c) \/ RemoveBundle(c) \/ RemoveSocket(c)

-----------------------------------------------------------------------------
(* launchd and the host process.                                            *)

\* Mutant: the job has RunAtLoad but not KeepAlive.
SpawnAtLoad ==
    /\ loaded /\ ~host /\ bundle # "absent"
    /\ \E c \in Command : at[c] = "kickstart"
    /\ host' = TRUE
    /\ UNCHANGED <<job, at, alone, fileVars, loaded, conn, asking, port, daemonVars, nameVars, faults>>

\* RunAtLoad, KeepAlive, kickstart: the job's process is started whenever there is none.
Spawn ==
    /\ loaded /\ ~host /\ bundle # "absent"
    /\ host' = TRUE
    /\ UNCHANGED <<job, at, alone, fileVars, loaded, conn, asking, port, daemonVars, nameVars, faults>>

\* The path names a socket of a daemon that runs.
Reachable == name # None /\ phase[name] \in {"bound", "waiting", "serving"}

\* connectSocket, tried again every defaultReconnectDelay; but the host has one thread,
\* and does not come to it as long as it waits for the helper.
HostConnect ==
    /\ host /\ conn = None /\ ~asking
    /\ Reachable
    /\ conn' = name
    /\ UNCHANGED <<job, at, alone, fileVars, loaded, host, asking, port, daemonVars, nameVars, faults>>

\* A request of the daemon's, passed on to the helper (HelperSession.send).
HostAsks ==
    /\ host /\ conn # None /\ ~asking
    /\ phase[conn] = "serving" /\ bridge[conn] = "attached"
    /\ asking' = TRUE
    /\ UNCHANGED <<job, at, alone, fileVars, loaded, host, conn, port, daemonVars, nameVars, faults>>

\* The helper answers, fails or ends.  To write to a connection that has ended may end the
\* host.
HelperReplies ==
    /\ asking
    /\ asking' = FALSE
    /\ host' \in IF conn = None THEN BOOLEAN ELSE {TRUE}
    /\ UNCHANGED <<job, at, alone, fileVars, loaded, conn, port, daemonVars, nameVars, faults>>

-----------------------------------------------------------------------------
(* start_native_daemon_inner, up to the request loop.                       *)

\* native_host_preflight_state; helper_missing may come instead of ready.
PreflightStatus ==
    CASE bundle = "absent"  -> "app_missing"
      [] bundle # "absent" /\ plist = "absent" -> "launch_agent_missing"
      [] bundle # "absent" /\ plist # "absent" /\ ~loaded -> "launch_agent_unloaded"
      [] OTHER -> "ready"

Becomes(d, to) == phase' = [phase EXCEPT ![d] = to]

Preflight(d) ==
    /\ phase[d] = "off"
    /\ Becomes(d, "stopped") \/ (PreflightStatus = "ready" /\ Becomes(d, "checked"))
    /\ UNCHANGED <<job, at, alone, fileVars, hostVars, port, bridge, nameVars, faults>>

\* A file at the path is taken for a stale one.  It may stay: the error is ignored.
Unlink(d) ==
    /\ phase[d] = "checked"
    /\ Becomes(d, "unlinked")
    /\ Unname(d) \/ UNCHANGED nameVars
    /\ UNCHANGED <<job, at, alone, fileVars, hostVars, port, bridge, faults>>

\* Mutant: the socket is bound over a file that has come back.
BindUnixOver(d) ==
    /\ phase[d] = "unlinked"
    /\ Becomes(d, "bound") /\ name' = d
    /\ UNCHANGED <<job, at, alone, fileVars, hostVars, port, bridge, robbed, faults>>

BindUnix(d) ==
    /\ phase[d] = "unlinked"
    /\ \/ name = None /\ Becomes(d, "bound") /\ name' = d
       \/ Becomes(d, "stopped") /\ UNCHANGED name
    /\ UNCHANGED <<job, at, alone, fileVars, hostVars, port, bridge, robbed, faults>>

\* A daemon that ends closes its end of the host's connection, and leaves its socket's
\* file where it is.
Ends(d) ==
    /\ Becomes(d, "stopped")
    /\ conn' = IF conn = d THEN None ELSE conn
    /\ UNCHANGED <<job, at, alone, fileVars, loaded, host, asking, port, bridge>>

\* The UDP port is free and config.json can be written; or it is a dry run, or a failure.
BindUdp(d) ==
    /\ phase[d] = "bound"
    /\ \/ /\ \A e \in Daemon \ {d} : port[e] = port[d] => phase[e] \notin {"waiting", "serving"}
          /\ Becomes(d, "waiting")
          /\ UNCHANGED <<job, at, alone, fileVars, hostVars, port, bridge>>
       \/ Ends(d)
    /\ UNCHANGED <<nameVars, faults>>

\* The accept loop takes the host's connection and its hello.
Attach(d) ==
    /\ phase[d] \in {"waiting", "serving"}
    /\ conn = d
    /\ bridge[d] # "attached"
    /\ bridge' = [bridge EXCEPT ![d] = "attached"]
    /\ UNCHANGED <<job, at, alone, fileVars, hostVars, port, phase, nameVars, faults>>

\* The connection has ended.
Detach(d) ==
    /\ phase[d] \in {"waiting", "serving"}
    /\ bridge[d] = "attached"
    /\ conn # d
    /\ bridge' = [bridge EXCEPT ![d] = "disconnected"]
    /\ UNCHANGED <<job, at, alone, fileVars, hostVars, port, phase, nameVars, faults>>

Serve(d) ==
    /\ phase[d] = "waiting"
    /\ bridge[d] = "attached"
    /\ Becomes(d, "serving")
    /\ UNCHANGED <<job, at, alone, fileVars, hostVars, port, bridge, nameVars, faults>>

\* BRIDGE_ATTACH_TIMEOUT_MS passed.  Whatever the path names is removed.
GiveUp(d) ==
    /\ phase[d] = "waiting"
    /\ Ends(d)
    /\ Unname(d) \/ UNCHANGED nameVars
    /\ UNCHANGED faults

StartStep(d) ==
    Preflight(d) \/ Unlink(d) \/ BindUnix(d) \/ BindUdp(d) \/ Serve(d) \/ GiveUp(d)

-----------------------------------------------------------------------------
(* From outside.                                                            *)

Fault == faults < MaxFaults /\ faults' = faults + 1

KillCommand(c) ==
    /\ Fault
    /\ Active(c)
    /\ GoTo(c, "failed")
    /\ UNCHANGED <<job, alone, fileVars, hostVars, port, daemonVars, nameVars>>

KillHost ==
    /\ Fault
    /\ host
    /\ HostGone
    /\ UNCHANGED <<job, at, alone, fileVars, loaded, port, daemonVars, nameVars>>

\* An error on the connection: the daemon's end is closed, and the host's when it next
\* reads or writes.
BreakConnection ==
    /\ Fault
    /\ conn # None
    /\ conn' = None
    /\ UNCHANGED <<job, at, alone, fileVars, loaded, host, asking, port, daemonVars, nameVars>>

KillDaemon(d) ==
    /\ Fault
    /\ phase[d] \notin {"off", "stopped"}
    /\ Ends(d)
    /\ UNCHANGED nameVars

Next ==
    \/ \E c \in Command : SetupStep(c) \/ KillCommand(c)
    \/ \E d \in Daemon : StartStep(d) \/ Attach(d) \/ Detach(d) \/ KillDaemon(d)
    \/ Spawn \/ HostConnect \/ HostAsks \/ HelperReplies \/ KillHost \/ BreakConnection

Spec == Init /\ [][Next]_vars

\* launchd starts the job, provided that there is something to start; the host tries to
\* connect again and again, once it has come to it; a daemon's loops go round.  Nothing is
\* assumed of the helper.
FairSpec ==
    /\ Spec
    /\ WF_vars(Spawn /\ bundle = "complete") /\ WF_vars(HostConnect)
    /\ \A d \in Daemon : WF_vars(Attach(d) \/ Detach(d))

-----------------------------------------------------------------------------
(* Properties.                                                              *)

\* What an install that is alone has put in place.
InstallInv ==
    \A c \in Command :
        alone = c =>
            /\ at[c] # "start"
            /\ \A d \in Command \ {c} : ~Active(d)
            /\ at[c] \in {"clearing", "copying", "plist", "bootstrap", "kickstart", "installed"}
                  => job[c] = "install"
            /\ at[c] \in {"plist", "bootout", "bootstrap", "kickstart", "installed"}
                  /\ job[c] = "install" => bundle = "complete"
            /\ at[c] \in {"bootout", "bootstrap", "kickstart", "installed"}
                  /\ job[c] = "install" => plist = "written"
            /\ at[c] \in {"kickstart", "installed"} => loaded

\* Where the name and the host's connection lead.
NameInv ==
    /\ \A d \in Daemon :
          phase[d] \in {"bound", "waiting", "serving"} => name = d \/ d \in robbed
    /\ name # None => phase[name] \in {"bound", "waiting", "serving", "stopped"}
    /\ conn # None => host /\ phase[conn] \in {"bound", "waiting", "serving"}
    /\ host => loaded
    /\ asking => host

HostInv == TypeOK /\ InstallInv /\ NameInv

\* Whatever killed or failed commands have left behind, an install that ran by itself
\* and reported success has put everything in place, and preflight says so.
InstallHeals ==
    \A c \in Command :
        alone = c /\ at[c] = "installed" =>
            bundle = "complete" /\ plist = "written" /\ PreflightStatus = "ready"

\* A daemon whose socket's name nobody else has removed sees the host again as long as
\* it is installed: after every broken connection, crash and reinstallation, unless the
\* host is left waiting for a helper that never answers.
HostReturns ==
    \A d \in Daemon :
        /\ <>[](phase[d] = "serving" /\ d \notin robbed /\ loaded /\ bundle = "complete")
        /\ []<>~asking
        => []<>(bridge[d] = "attached" /\ conn = d)
=============================================================================

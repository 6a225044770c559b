-------------------------- MODULE BackendLifecycle --------------------------
(***************************************************************************)
(* The Electron hosts of one machine and the app-server processes behind   *)
(* them (backend_lifecycle.js, backend_port.js): a host that starts reuses *)
(* a backend of its profile and build, or clears the preferred port and    *)
(* spawns one; a host that quits stops the backend it spawned, unless the  *)
(* client markers name another live host of its profile.                   *)
(*                                                                         *)
(* A host is one run of the application.  The marker of a process that has *)
(* ended counts for nothing, so it goes with the process.                  *)
(***************************************************************************)
EXTENDS Naturals

CONSTANTS
    Hosts,        \* runs of the desktop application
    Profiles,     \* Electron user-data directories
    Builds,       \* backend artifacts
    MaxAttempts,  \* BACKEND_STARTUP_ATTEMPTS
    LastPort,     \* the ports are 1..LastPort
    NoHost,
    NoBackend

ASSUME LifecycleAssumption ==
    /\ MaxAttempts \in Nat \ {0} /\ LastPort \in Nat \ {0}
    /\ NoHost \notin Hosts /\ NoBackend \notin Hosts \X (1..MaxAttempts)

VARIABLES
    install,  \* the profile and the build of each host
    taken,    \* the ports that other programs listen on
    host,     \* each Electron process
    marker,   \* the port in its client marker; 0: it has no marker
    server    \* each app-server process

lifecycleVars == <<install, taken, host, marker, server>>

Ports == 1..LastPort
PREFERRED_PORT == 1

\* The app server that a host spawns at its n-th attempt.
Backends == Hosts \X (1..MaxAttempts)

HostPhases == {"off", "begin", "search", "evict", "kill", "bind", "await",
               "run", "post", "stop", "quit", "gone"}

HostState ==
    [pc: HostPhases,
     attempt: 1..MaxAttempts,
     port: Ports,                       \* PORT
     owns: BOOLEAN,                     \* backendOwned, serverProc is of this attempt
     used: Backends \cup {NoBackend},   \* whose health was accepted
     left: SUBSET Ports,                \* candidates not probed yet
     heard: Backends \cup {NoBackend},  \* who answered for the preferred port
     absent: SUBSET Hosts,              \* had no marker to be counted
     unmarked: BOOLEAN]                 \* its marker could not be written

ServerState ==
    [state: {"none", "spawned", "up", "closing", "dead"},
     port: Ports \cup {0},
     by: Hosts \cup {NoHost}]           \* whose /app/shutdown it obeys

LifecycleTypeOK ==
    /\ install \in [Hosts -> [profile: Profiles, build: Builds]]
    /\ taken \subseteq Ports
    /\ host \in [Hosts -> HostState]
    /\ marker \in [Hosts -> Ports \cup {0}]
    /\ server \in [Backends -> ServerState]

LifecycleInit ==
    /\ install \in [Hosts -> [profile: Profiles, build: Builds]]
    /\ taken \in SUBSET Ports
    /\ host = [h \in Hosts |->
                 [pc |-> "off", attempt |-> 1, port |-> PREFERRED_PORT, owns |-> FALSE,
                  used |-> NoBackend, left |-> {}, heard |-> NoBackend, absent |-> {},
                  unmarked |-> FALSE]]
    /\ marker = [h \in Hosts |-> 0]
    /\ server = [b \in Backends |->
                   [state |-> "none", port |-> 0, by |-> NoHost]]

-----------------------------------------------------------------------------
(* Ports, health and markers *)

Own(h) == <<h, host[h].attempt>>

Listens(b, p) == server[b].state \in {"up", "closing"} /\ server[b].port = p

PortIsFree(p) == p \notin taken /\ \A b \in Backends : ~Listens(b, p)

SameProfile(g, h) == install[g].profile = install[h].profile

\* isCompatibleBackendHealth: the host's own launch token, or its profile and
\* its artifact.
Compatible(h, b) == install[b[1]] = install[h]

\* readAliveBackendClientMarkers, without its own.
OtherClients(h) == {g \in Hosts \ {h} : SameProfile(g, h) /\ marker[g] # 0}

\* A process that has ended holds no port.
Ended(b) == [server EXCEPT ![b] = [state |-> "dead", port |-> 0, by |-> NoHost]]

Becomes(h, state) == host' = [host EXCEPT ![h] = state]

-----------------------------------------------------------------------------
(* Startup *)

\* Broken: a host registers only when it is connected.
LaunchUnregistered(h) ==
    /\ host[h].pc = "off"
    /\ Becomes(h, [host[h] EXCEPT !.pc = "begin"])
    /\ UNCHANGED <<install, taken, marker, server>>

\* The first registerBackendClient, before anything else; a marker that cannot
\* be written is passed over.
Launch(h) ==
    /\ host[h].pc = "off"
    /\ \/ /\ marker' = [marker EXCEPT ![h] = host[h].port]
          /\ Becomes(h, [host[h] EXCEPT !.pc = "begin"])
       \/ /\ UNCHANGED marker
          /\ Becomes(h, [host[h] EXCEPT !.pc = "begin", !.unmarked = TRUE])
    /\ UNCHANGED <<install, taken, server>>

\* startBackendWithRetry: an attempt begins with the candidate ports.
BeginAttempt(h) ==
    /\ host[h].pc = "begin"
    /\ Becomes(h, [host[h] EXCEPT
         !.pc = "search",
         !.left = {PREFERRED_PORT, host[h].port} \cup {marker[g] : g \in OtherClients(h)}])
    /\ UNCHANGED <<install, taken, marker, server>>

\* The preferred port is probed first, then the last one used.
IsNextCandidate(h, p) ==
    /\ p \in host[h].left
    /\ PREFERRED_PORT \in host[h].left => p = PREFERRED_PORT
    /\ PREFERRED_PORT \notin host[h].left /\ host[h].port \in host[h].left
          => p = host[h].port

\* The second registerBackendClient: the marker names the port in use, unless it
\* cannot be written; then the first one stays.
Connect(h, state) ==
    \/ /\ marker' = [marker EXCEPT ![h] = state.port]
       /\ Becomes(h, [state EXCEPT !.unmarked = FALSE])
    \/ Becomes(h, state) /\ UNCHANGED marker

\* A compatible backend answers: it is reused.
Reuse(h, p, b) ==
    /\ host[h].pc = "search" /\ IsNextCandidate(h, p)
    /\ Listens(b, p) /\ Compatible(h, b)
    /\ Connect(h, [host[h] EXCEPT !.pc = "run", !.port = p, !.owns = FALSE,
                                  !.used = b, !.left = {}])
    /\ UNCHANGED <<install, taken, server>>

\* Nobody answers in time, or one that is not compatible.
PassOver(h, p) ==
    /\ host[h].pc = "search" /\ IsNextCandidate(h, p)
    /\ Becomes(h, [host[h] EXCEPT
         !.pc = IF host[h].left = {p} THEN "evict" ELSE "search",
         !.left = @ \ {p}])
    /\ UNCHANGED <<install, taken, marker, server>>

\* stopMismatchedBackendListener: what listens on the preferred port is left
\* when it answers as compatible or as of another profile.
LeaveListener(h, b) ==
    /\ host[h].pc = "evict"
    /\ Listens(b, PREFERRED_PORT)
    /\ Compatible(h, b) \/ ~SameProfile(h, b[1])
    /\ Becomes(h, [host[h] EXCEPT !.pc = "bind"])
    /\ UNCHANGED <<install, taken, marker, server>>

\* Broken: whatever is not compatible counts as obsolete.
ListenerIsForeign(h, b) ==
    /\ host[h].pc = "evict"
    /\ Listens(b, PREFERRED_PORT) /\ ~Compatible(h, b)
    /\ Becomes(h, [host[h] EXCEPT !.pc = "kill", !.heard = b])
    /\ UNCHANGED <<install, taken, marker, server>>

\* It answers as an obsolete one of this profile.
ListenerIsObsolete(h, b) ==
    /\ host[h].pc = "evict"
    /\ Listens(b, PREFERRED_PORT)
    /\ ~Compatible(h, b) /\ SameProfile(h, b[1])
    /\ Becomes(h, [host[h] EXCEPT !.pc = "kill", !.heard = b])
    /\ UNCHANGED <<install, taken, marker, server>>

\* Nobody answers within the 700 ms.
ListenerIsSilent(h) ==
    /\ host[h].pc = "evict"
    /\ Becomes(h, [host[h] EXCEPT !.pc = "kill"])
    /\ UNCHANGED <<install, taken, marker, server>>

\* netstat and taskkill: whoever listens by now is killed, but for the own process.
KillListener(h, b) ==
    /\ host[h].pc = "kill"
    /\ Listens(b, PREFERRED_PORT)
    /\ ~(host[h].owns /\ b = Own(h))
    /\ server' = Ended(b)
    /\ Becomes(h, [host[h] EXCEPT !.pc = "bind", !.heard = NoBackend])
    /\ UNCHANGED <<install, taken, marker>>

\* Or another program.
KillStranger(h) ==
    /\ host[h].pc = "kill"
    /\ PREFERRED_PORT \in taken
    /\ taken' = taken \ {PREFERRED_PORT}
    /\ Becomes(h, [host[h] EXCEPT !.pc = "bind", !.heard = NoBackend])
    /\ UNCHANGED <<install, marker, server>>

\* Nobody listens, or the kill is denied.
KillNobody(h) ==
    /\ host[h].pc = "kill"
    /\ Becomes(h, [host[h] EXCEPT !.pc = "bind", !.heard = NoBackend])
    /\ UNCHANGED <<install, taken, marker, server>>

\* findAvailableBackendPort and startBackend; the process does not listen yet.
Spawn(h, p) ==
    /\ host[h].pc = "bind"
    /\ PortIsFree(p) /\ (PortIsFree(PREFERRED_PORT) => p = PREFERRED_PORT)
    /\ server' = [server EXCEPT ![Own(h)] = [state |-> "spawned", port |-> p, by |-> NoHost]]
    /\ Becomes(h, [host[h] EXCEPT !.pc = "await", !.port = p, !.owns = TRUE])
    /\ UNCHANGED <<install, taken, marker>>

\* No free local port: the startup fails and the application quits.
NoPortLeft(h) ==
    /\ host[h].pc = "bind"
    /\ \A p \in Ports : ~PortIsFree(p)
    /\ Becomes(h, [host[h] EXCEPT !.pc = "quit"])
    /\ UNCHANGED <<install, taken, marker, server>>

\* waitForServer: whoever answers on the port as compatible will do; the own
\* process may have exited since it was last looked at.
ServerAnswers(h, b) ==
    /\ host[h].pc = "await"
    /\ Listens(b, host[h].port) /\ Compatible(h, b)
    /\ Connect(h, [host[h] EXCEPT !.pc = "run", !.used = b])
    /\ UNCHANGED <<install, taken, server>>

\* The process has exited or the deadline passes: it is killed, and the next
\* attempt or the end follows.
StartupFails(h) ==
    /\ host[h].pc = "await"
    /\ server' = Ended(Own(h))
    /\ Becomes(h, [host[h] EXCEPT
         !.owns = FALSE,
         !.pc = IF host[h].attempt < MaxAttempts THEN "begin" ELSE "quit",
         !.attempt = IF @ < MaxAttempts THEN @ + 1 ELSE @])
    /\ UNCHANGED <<install, taken, marker>>

-----------------------------------------------------------------------------
(* Shutdown *)

\* The hosts that a count cannot find: not started, or without a marker by a
\* failed write.
Unmarked == {g \in Hosts : host[g].pc = "off" \/ host[g].unmarked}

\* Broken: the client markers are not counted.
LeavesUncounted(h) == ~host[h].owns

\* requestBackendShutdown leaves a backend that is not its own, or that others use.
LeavesBackend(h) == ~host[h].owns \/ OtherClients(h) # {}

\* The window is closed: the backend is shut down before the application quits,
\* and the application quits in any case.
CloseWindow(h) ==
    /\ host[h].pc = "run"
    /\ \/ /\ LeavesBackend(h)
          /\ Becomes(h, [host[h] EXCEPT !.pc = "quit", !.used = NoBackend])
       \/ /\ ~LeavesBackend(h)
          /\ Becomes(h, [host[h] EXCEPT !.pc = "post", !.used = NoBackend,
                                        !.absent = Unmarked])
    /\ UNCHANGED <<install, taken, marker, server>>

\* app.quit without a close (an update), straight to before-quit.
QuitAtOnce(h) ==
    /\ host[h].pc = "run"
    /\ Becomes(h, [host[h] EXCEPT !.pc = "quit", !.used = NoBackend])
    /\ UNCHANGED <<install, taken, marker, server>>

\* POST /app/shutdown to whoever listens on the port; it exits a little later.
\* The answer of a listener that hangs is waited for without a limit.
PostShutdown(h, b) ==
    /\ host[h].pc = "post"
    /\ Listens(b, host[h].port)
    /\ server' = IF server[b].state = "up"
                 THEN [server EXCEPT ![b].state = "closing", ![b].by = h]
                 ELSE server
    /\ Becomes(h, [host[h] EXCEPT !.pc = "stop"])
    /\ UNCHANGED <<install, taken, marker>>

PostFails(h) ==
    /\ host[h].pc = "post"
    /\ \A b \in Backends : ~Listens(b, host[h].port)
    /\ Becomes(h, [host[h] EXCEPT !.pc = "stop"])
    /\ UNCHANGED <<install, taken, marker, server>>

\* terminateBackend: the own process exits in time or is killed.
StopOwn(h) ==
    /\ host[h].pc = "stop"
    /\ server' = Ended(Own(h))
    /\ Becomes(h, [host[h] EXCEPT !.pc = "quit", !.owns = FALSE])
    /\ UNCHANGED <<install, taken, marker>>

\* before-quit asks for the shutdown once more, and removes the marker.
BeforeQuit(h) ==
    /\ host[h].pc = "quit"
    /\ \/ /\ LeavesBackend(h)
          /\ Becomes(h, [host[h] EXCEPT !.pc = "gone"])
          /\ marker' = [marker EXCEPT ![h] = 0]
       \/ /\ ~LeavesBackend(h)
          /\ Becomes(h, [host[h] EXCEPT !.pc = "post", !.absent = Unmarked])
          /\ UNCHANGED marker
    /\ UNCHANGED <<install, taken, server>>

\* The process ends: killed, or quit without waiting for before-quit's handler.
HostEnds(h) ==
    /\ host[h].pc \notin {"off", "gone"}
    /\ Becomes(h, [host[h] EXCEPT !.pc = "gone", !.used = NoBackend, !.left = {},
                                  !.heard = NoBackend])
    /\ marker' = [marker EXCEPT ![h] = 0]
    /\ UNCHANGED <<install, taken, server>>

-----------------------------------------------------------------------------
(* The app-server processes outlive their hosts *)

\* The server binds its port, or finds it taken and exits.
BindPort(b) ==
    /\ server[b].state = "spawned"
    /\ server' = IF PortIsFree(server[b].port)
                 THEN [server EXCEPT ![b].state = "up"]
                 ELSE Ended(b)
    /\ UNCHANGED <<install, taken, host, marker>>

BackendExits(b) ==
    /\ server[b].state \in {"spawned", "up", "closing"}
    /\ server' = Ended(b)
    /\ UNCHANGED <<install, taken, host, marker>>

HostStep(h) ==
    \/ Launch(h) \/ BeginAttempt(h)
    \/ \E p \in Ports : PassOver(h, p) \/ Spawn(h, p) \/ \E b \in Backends : Reuse(h, p, b)
    \/ \E b \in Backends : LeaveListener(h, b) \/ ListenerIsObsolete(h, b) \/ KillListener(h, b)
    \/ ListenerIsSilent(h) \/ KillStranger(h) \/ KillNobody(h) \/ NoPortLeft(h)
    \/ \E b \in Backends : ServerAnswers(h, b) \/ PostShutdown(h, b)
    \/ StartupFails(h) \/ CloseWindow(h) \/ QuitAtOnce(h) \/ PostFails(h)
    \/ StopOwn(h) \/ BeforeQuit(h) \/ HostEnds(h)

LifecycleNext ==
    \/ \E h \in Hosts : HostStep(h)
    \/ \E b \in Backends : BindPort(b) \/ BackendExits(b)

LifecycleSpec == LifecycleInit /\ [][LifecycleNext]_lifecycleVars

-----------------------------------------------------------------------------
(* Properties *)

\* A host that quits could not know of this client: it counted before the client
\* was started or while the client's marker could not be written, or the client
\* is of another profile, at a port that the backend of the quitting host lost.
Unaware(g, h) == h \in host[g].absent \/ ~SameProfile(g, h)

\* The backend under an open window ends
\*   - of itself, or
\*   - because a host quits that could not know of the window, or
\*   - because the host that spawned it gives up waiting for it, or
\*   - because a host clears the preferred port that had no answer from it, or
\*     finds it an obsolete one of its own profile;
\* never because a host that knew of the window quits or starts
\* (requestBackendShutdown and stopMismatchedBackendListener).
BackendIsLeft ==
    \A h \in Hosts : LET b == host[h].used IN
        host[h].pc = "run" /\ server[b].state # "dead" /\ server'[b].state = "dead" =>
           \/ server[b].by = NoHost /\ UNCHANGED host
           \/ server[b].by # NoHost /\ Unaware(server[b].by, h)
           \/ \E g \in Hosts : /\ host'[g] # host[g]
                              /\ \/ host[g].pc = "stop" /\ Unaware(g, h)
                                 \/ host[g].pc = "await" /\ b = Own(g)
                                 \/ /\ host[g].pc = "kill"
                                    /\ host[g].heard = b =>
                                          /\ SameProfile(g, h)
                                          /\ install[g].build # install[h].build

\* No step ends a backend under an open window for any other reason.
ReliedOnBackendIsLeft == [][BackendIsLeft]_lifecycleVars
=============================================================================

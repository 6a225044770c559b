----------------------- MODULE BackendLifecycleProofs -----------------------
(***************************************************************************)
(* Proofs about BackendLifecycle: its types, and that the backend under an *)
(* open window is ended only for the reasons that ReliedOnBackendIsLeft    *)
(* lists, for any hosts, installations, ports and numbers of attempts.     *)
(*                                                                         *)
(* The argument is about what a host knows.  Every host that has begun has *)
(* a marker or a failed write (MarkersStand), so what a quitting host did  *)
(* not count had not begun, had no marker, or is gone (CountsAreComplete); *)
(* that stays so until the backend it asked to end has ended, as it counts *)
(* at most once more before it asks (ObeyedHostsAreQuitting).  And a host  *)
(* keeps an answer for the preferred port only to clear an obsolete        *)
(* backend of its profile (AnswersAreObsolete).                            *)
(***************************************************************************)
EXTENDS BackendLifecycle, TLAPS

\* A window uses a backend of its own profile and build.
UsedIsCompatible ==
    \A h \in Hosts : host[h].pc = "run" => host[h].used \in Backends /\ Compatible(h, host[h].used)

\* A live host has a marker, unless it could not be written.
MarkersStand ==
    \A h \in Hosts : host[h].pc \notin {"off", "gone"} => marker[h] # 0 \/ host[h].unmarked

\* What a host that shuts its backend down did not count.
FoundNobody(g) ==
    \A h \in Hosts \ {g} : SameProfile(g, h) => h \in host[g].absent \/ host[h].pc = "gone"

CountsAreComplete ==
    \A g \in Hosts : host[g].pc \in {"post", "stop"} => FoundNobody(g)

\* A backend obeys a host that has posted and does not post again.
ObeyedHostsAreQuitting ==
    \A b \in Backends : server[b].by # NoHost =>
        LET g == server[b].by IN
        /\ server[b].state = "closing"
        /\ host[g].pc \in {"stop", "quit", "gone"}
        /\ host[g].pc = "quit" => ~host[g].owns
        /\ FoundNobody(g)

\* An answer is kept only to clear an obsolete backend of the profile.
AnswersAreObsolete ==
    \A g \in Hosts : host[g].heard # NoBackend =>
        /\ host[g].pc = "kill"
        /\ SameProfile(g, host[g].heard[1])
        /\ ~Compatible(g, host[g].heard)

Known ==
    /\ LifecycleTypeOK /\ UsedIsCompatible /\ MarkersStand /\ CountsAreComplete
    /\ ObeyedHostsAreQuitting /\ AnswersAreObsolete

-----------------------------------------------------------------------------
(* What a step of a host does *)

\* What the proofs need of a step of a host: its new state, what it reads off
\* the markers, and what becomes of the servers.
Edge(h, s) ==
    /\ Becomes(h, s)
    /\ UNCHANGED install /\ taken' \subseteq Ports
    /\ marker' \in [Hosts -> Ports \cup {0}]
    /\ \A g \in Hosts \ {h} : marker'[g] = marker[g]
    /\ host[h].pc # "gone" /\ s.pc # "off"
    /\ host[h].pc = "run" => s.pc # "run"
    /\ s.pc = "run" => s.used \in Backends /\ Compatible(h, s.used)
    /\ s.pc # "gone" => marker'[h] # 0 \/ s.unmarked
    /\ s.pc \in {"post", "stop"} => \/ host[h].pc = "post" /\ s.absent = host[h].absent
                                    \/ OtherClients(h) = {} /\ s.absent = Unmarked
    /\ s.pc = "post" => host[h].owns
    /\ host[h].pc = "stop" \/ (host[h].pc = "quit" /\ ~host[h].owns) =>
          s.pc \in {"quit", "gone"} /\ (s.pc = "quit" => ~s.owns) /\ s.absent = host[h].absent
    /\ s.heard # NoBackend => /\ s.pc = "kill" /\ s.heard \in Backends
                              /\ SameProfile(h, s.heard[1]) /\ ~Compatible(h, s.heard)

\* How a step of a host changes a server.
ServerEdge(h, s) ==
    /\ server' \in [Backends -> ServerState]
    /\ \A b \in Backends :
          \/ server'[b] = server[b]
          \/ server'[b].by = NoHost
          \/ /\ server'[b].state = "closing" /\ server'[b].by = h
             /\ host[h].pc = "post" /\ s.pc = "stop" /\ s.absent = host[h].absent

\* A backend is named by its host and an attempt.
LEMMA OwnTypes ==
    ASSUME LifecycleTypeOK, NEW h \in Hosts
    PROVE  Own(h) \in Backends /\ host[h] \in HostState
<1>1. host[h] \in HostState
  BY DEF LifecycleTypeOK
<1> QED
  BY <1>1 DEF Own, Backends, HostState

\* A server that ends or is spawned obeys nobody.
LEMMA ServerReset ==
    ASSUME LifecycleTypeOK, NEW b \in Backends, NEW x \in ServerState,
           server' = [server EXCEPT ![b] = x]
    PROVE  /\ server' \in [Backends -> ServerState] /\ server'[b] = x
           /\ \A c \in Backends \ {b} : server'[c] = server[c]
  BY DEF LifecycleTypeOK

\* An ended server is a server.
LEMMA DeadTypes == [state |-> "dead", port |-> 0, by |-> NoHost] \in ServerState
  BY DEF ServerState

\* The same after a step that ends a server.
LEMMA ServerEnds ==
    ASSUME LifecycleTypeOK, NEW b \in Backends, server' = Ended(b)
    PROVE  /\ server' \in [Backends -> ServerState]
           /\ server'[b] = [state |-> "dead", port |-> 0, by |-> NoHost]
           /\ \A c \in Backends \ {b} : server'[c] = server[c]
  BY ServerReset, DeadTypes DEF Ended

\* An attempt begins.
LEMMA BeginAttemptEdge ==
    ASSUME LifecycleAssumption, Known, NEW h \in Hosts,
           BeginAttempt(h)
    PROVE  \E s \in HostState : Edge(h, s) /\ ServerEdge(h, s)
<1> DEFINE s == [host[h] EXCEPT !.pc = "search",
                             !.left = {PREFERRED_PORT, host[h].port} \cup {marker[g] : g \in OtherClients(h)}]
<1>1. host[h] \in HostState /\ Own(h) \in Backends
  BY OwnTypes DEF Known
<1>1a. {PREFERRED_PORT, host[h].port} \cup {marker[g] : g \in OtherClients(h)} \subseteq Ports
  <2>1. PREFERRED_PORT \in Ports
    BY LifecycleAssumption DEF PREFERRED_PORT, Ports
  <2>2. host[h].port \in Ports
    BY <1>1 DEF HostState
  <2>3. \A g \in OtherClients(h) : marker[g] \in Ports
    BY DEF OtherClients, Known, LifecycleTypeOK
  <2> QED
    BY <2>1, <2>2, <2>3
<1>2. s \in HostState
  BY <1>1, <1>1a DEF HostState, HostPhases
<1>3. /\ s.pc = "search" /\ s.owns = host[h].owns
      /\ s.used = host[h].used /\ s.heard = host[h].heard
      /\ s.absent = host[h].absent /\ s.unmarked = host[h].unmarked
  BY <1>1 DEF HostState
<1>4. Becomes(h, s)
  BY DEF BeginAttempt
<1> HIDE DEF s
<1>5. Edge(h, s)
  BY <1>1, <1>2, <1>3, <1>4 DEF Edge, BeginAttempt, Known,
         LifecycleTypeOK, MarkersStand, AnswersAreObsolete
<1>6. ServerEdge(h, s)
  BY DEF ServerEdge, BeginAttempt, Known, LifecycleTypeOK
<1> QED
  BY <1>2, <1>5, <1>6

\* A candidate port that is passed over.
LEMMA PassOverEdge ==
    ASSUME LifecycleAssumption, Known, NEW h \in Hosts, NEW p \in Ports,
           PassOver(h, p)
    PROVE  \E s \in HostState : Edge(h, s) /\ ServerEdge(h, s)
<1> DEFINE s == [host[h] EXCEPT !.pc = IF host[h].left = {p} THEN "evict" ELSE "search",
                             !.left = @ \ {p}]
<1>1. host[h] \in HostState /\ Own(h) \in Backends
  BY OwnTypes DEF Known
<1>2. s \in HostState
  BY <1>1 DEF HostState, HostPhases
<1>3. /\ s.pc = (IF host[h].left = {p} THEN "evict" ELSE "search") /\ s.owns = host[h].owns
      /\ s.used = host[h].used /\ s.heard = host[h].heard
      /\ s.absent = host[h].absent /\ s.unmarked = host[h].unmarked
  BY <1>1 DEF HostState
<1>4. Becomes(h, s)
  BY DEF PassOver
<1> HIDE DEF s
<1>5. Edge(h, s)
  BY <1>1, <1>2, <1>3, <1>4 DEF Edge, PassOver, Known,
         LifecycleTypeOK, MarkersStand, AnswersAreObsolete
<1>6. ServerEdge(h, s)
  BY DEF ServerEdge, PassOver, Known, LifecycleTypeOK
<1> QED
  BY <1>2, <1>5, <1>6

\* The listener of the preferred port is left.
LEMMA LeaveListenerEdge ==
    ASSUME LifecycleAssumption, Known, NEW h \in Hosts, NEW b \in Backends,
           LeaveListener(h, b)
    PROVE  \E s \in HostState : Edge(h, s) /\ ServerEdge(h, s)
<1> DEFINE s == [host[h] EXCEPT !.pc = "bind"]
<1>1. host[h] \in HostState /\ Own(h) \in Backends
  BY OwnTypes DEF Known
<1>2. s \in HostState
  BY <1>1 DEF HostState, HostPhases
<1>3. /\ s.pc = "bind" /\ s.owns = host[h].owns
      /\ s.used = host[h].used /\ s.heard = host[h].heard
      /\ s.absent = host[h].absent /\ s.unmarked = host[h].unmarked
  BY <1>1 DEF HostState
<1>4. Becomes(h, s)
  BY DEF LeaveListener
<1> HIDE DEF s
<1>5. Edge(h, s)
  BY <1>1, <1>2, <1>3, <1>4 DEF Edge, LeaveListener, Known,
         LifecycleTypeOK, MarkersStand, AnswersAreObsolete
<1>6. ServerEdge(h, s)
  BY DEF ServerEdge, LeaveListener, Known, LifecycleTypeOK
<1> QED
  BY <1>2, <1>5, <1>6

\* The listener answers as an obsolete one.
LEMMA ListenerIsObsoleteEdge ==
    ASSUME LifecycleAssumption, Known, NEW h \in Hosts, NEW b \in Backends,
           ListenerIsObsolete(h, b)
    PROVE  \E s \in HostState : Edge(h, s) /\ ServerEdge(h, s)
<1> DEFINE s == [host[h] EXCEPT !.pc = "kill", !.heard = b]
<1>1. host[h] \in HostState /\ Own(h) \in Backends
  BY OwnTypes DEF Known
<1>2. s \in HostState
  BY <1>1 DEF HostState, HostPhases
<1>3. /\ s.pc = "kill" /\ s.owns = host[h].owns
      /\ s.used = host[h].used /\ s.heard = b
      /\ s.absent = host[h].absent /\ s.unmarked = host[h].unmarked
  BY <1>1 DEF HostState
<1>4. Becomes(h, s)
  BY DEF ListenerIsObsolete
<1> HIDE DEF s
<1>5. Edge(h, s)
  BY <1>1, <1>2, <1>3, <1>4 DEF Edge, ListenerIsObsolete, Known,
         LifecycleTypeOK, MarkersStand, AnswersAreObsolete
<1>6. ServerEdge(h, s)
  BY DEF ServerEdge, ListenerIsObsolete, Known, LifecycleTypeOK
<1> QED
  BY <1>2, <1>5, <1>6

\* The listener does not answer.
LEMMA ListenerIsSilentEdge ==
    ASSUME LifecycleAssumption, Known, NEW h \in Hosts,
           ListenerIsSilent(h)
    PROVE  \E s \in HostState : Edge(h, s) /\ ServerEdge(h, s)
<1> DEFINE s == [host[h] EXCEPT !.pc = "kill"]
<1>1. host[h] \in HostState /\ Own(h) \in Backends
  BY OwnTypes DEF Known
<1>2. s \in HostState
  BY <1>1 DEF HostState, HostPhases
<1>3. /\ s.pc = "kill" /\ s.owns = host[h].owns
      /\ s.used = host[h].used /\ s.heard = host[h].heard
      /\ s.absent = host[h].absent /\ s.unmarked = host[h].unmarked
  BY <1>1 DEF HostState
<1>4. Becomes(h, s)
  BY DEF ListenerIsSilent
<1> HIDE DEF s
<1>5. Edge(h, s)
  BY <1>1, <1>2, <1>3, <1>4 DEF Edge, ListenerIsSilent, Known,
         LifecycleTypeOK, MarkersStand, AnswersAreObsolete
<1>6. ServerEdge(h, s)
  BY DEF ServerEdge, ListenerIsSilent, Known, LifecycleTypeOK
<1> QED
  BY <1>2, <1>5, <1>6

\* A listener is killed.
LEMMA KillListenerEdge ==
    ASSUME LifecycleAssumption, Known, NEW h \in Hosts, NEW b \in Backends,
           KillListener(h, b)
    PROVE  \E s \in HostState : Edge(h, s) /\ ServerEdge(h, s)
<1> DEFINE s == [host[h] EXCEPT !.pc = "bind", !.heard = NoBackend]
<1>1. host[h] \in HostState /\ Own(h) \in Backends
  BY OwnTypes DEF Known
<1>2. s \in HostState
  BY <1>1 DEF HostState, HostPhases
<1>3. /\ s.pc = "bind" /\ s.owns = host[h].owns
      /\ s.used = host[h].used /\ s.heard = NoBackend
      /\ s.absent = host[h].absent /\ s.unmarked = host[h].unmarked
  BY <1>1 DEF HostState
<1>4. Becomes(h, s)
  BY DEF KillListener
<1> HIDE DEF s
<1>5. Edge(h, s)
  BY <1>1, <1>2, <1>3, <1>4 DEF Edge, KillListener, Known,
         LifecycleTypeOK, MarkersStand, AnswersAreObsolete
<1>6. ServerEdge(h, s)
  BY ServerEnds DEF ServerEdge, KillListener, Known
<1> QED
  BY <1>2, <1>5, <1>6

\* Another program is killed.
LEMMA KillStrangerEdge ==
    ASSUME LifecycleAssumption, Known, NEW h \in Hosts,
           KillStranger(h)
    PROVE  \E s \in HostState : Edge(h, s) /\ ServerEdge(h, s)
<1> DEFINE s == [host[h] EXCEPT !.pc = "bind", !.heard = NoBackend]
<1>1. host[h] \in HostState /\ Own(h) \in Backends
  BY OwnTypes DEF Known
<1>2. s \in HostState
  BY <1>1 DEF HostState, HostPhases
<1>3. /\ s.pc = "bind" /\ s.owns = host[h].owns
      /\ s.used = host[h].used /\ s.heard = NoBackend
      /\ s.absent = host[h].absent /\ s.unmarked = host[h].unmarked
  BY <1>1 DEF HostState
<1>4. Becomes(h, s)
  BY DEF KillStranger
<1> HIDE DEF s
<1>5. Edge(h, s)
  BY <1>1, <1>2, <1>3, <1>4 DEF Edge, KillStranger, Known,
         LifecycleTypeOK, MarkersStand, AnswersAreObsolete
<1>6. ServerEdge(h, s)
  BY DEF ServerEdge, KillStranger, Known, LifecycleTypeOK
<1> QED
  BY <1>2, <1>5, <1>6

\* The kill finds nobody.
LEMMA KillNobodyEdge ==
    ASSUME LifecycleAssumption, Known, NEW h \in Hosts,
           KillNobody(h)
    PROVE  \E s \in HostState : Edge(h, s) /\ ServerEdge(h, s)
<1> DEFINE s == [host[h] EXCEPT !.pc = "bind", !.heard = NoBackend]
<1>1. host[h] \in HostState /\ Own(h) \in Backends
  BY OwnTypes DEF Known
<1>2. s \in HostState
  BY <1>1 DEF HostState, HostPhases
<1>3. /\ s.pc = "bind" /\ s.owns = host[h].owns
      /\ s.used = host[h].used /\ s.heard = NoBackend
      /\ s.absent = host[h].absent /\ s.unmarked = host[h].unmarked
  BY <1>1 DEF HostState
<1>4. Becomes(h, s)
  BY DEF KillNobody
<1> HIDE DEF s
<1>5. Edge(h, s)
  BY <1>1, <1>2, <1>3, <1>4 DEF Edge, KillNobody, Known,
         LifecycleTypeOK, MarkersStand, AnswersAreObsolete
<1>6. ServerEdge(h, s)
  BY DEF ServerEdge, KillNobody, Known, LifecycleTypeOK
<1> QED
  BY <1>2, <1>5, <1>6

\* A server is spawned.
LEMMA SpawnEdge ==
    ASSUME LifecycleAssumption, Known, NEW h \in Hosts, NEW p \in Ports,
           Spawn(h, p)
    PROVE  \E s \in HostState : Edge(h, s) /\ ServerEdge(h, s)
<1> DEFINE s == [host[h] EXCEPT !.pc = "await", !.port = p, !.owns = TRUE]
<1>1. host[h] \in HostState /\ Own(h) \in Backends
  BY OwnTypes DEF Known
<1>2. s \in HostState
  BY <1>1 DEF HostState, HostPhases
<1>3. /\ s.pc = "await" /\ s.owns = TRUE
      /\ s.used = host[h].used /\ s.heard = host[h].heard
      /\ s.absent = host[h].absent /\ s.unmarked = host[h].unmarked
  BY <1>1 DEF HostState
<1>4. Becomes(h, s)
  BY DEF Spawn
<1> HIDE DEF s
<1>5. Edge(h, s)
  BY <1>1, <1>2, <1>3, <1>4 DEF Edge, Spawn, Known,
         LifecycleTypeOK, MarkersStand, AnswersAreObsolete
<1>6. ServerEdge(h, s)
  <2>1. [state |-> "spawned", port |-> p, by |-> NoHost] \in ServerState
    BY DEF ServerState
  <2> QED
    BY <2>1, <1>1, ServerReset DEF ServerEdge, Spawn, Known
<1> QED
  BY <1>2, <1>5, <1>6

\* No port is left.
LEMMA NoPortLeftEdge ==
    ASSUME LifecycleAssumption, Known, NEW h \in Hosts,
           NoPortLeft(h)
    PROVE  \E s \in HostState : Edge(h, s) /\ ServerEdge(h, s)
<1> DEFINE s == [host[h] EXCEPT !.pc = "quit"]
<1>1. host[h] \in HostState /\ Own(h) \in Backends
  BY OwnTypes DEF Known
<1>2. s \in HostState
  BY <1>1 DEF HostState, HostPhases
<1>3. /\ s.pc = "quit" /\ s.owns = host[h].owns
      /\ s.used = host[h].used /\ s.heard = host[h].heard
      /\ s.absent = host[h].absent /\ s.unmarked = host[h].unmarked
  BY <1>1 DEF HostState
<1>4. Becomes(h, s)
  BY DEF NoPortLeft
<1> HIDE DEF s
<1>5. Edge(h, s)
  BY <1>1, <1>2, <1>3, <1>4 DEF Edge, NoPortLeft, Known,
         LifecycleTypeOK, MarkersStand, AnswersAreObsolete
<1>6. ServerEdge(h, s)
  BY DEF ServerEdge, NoPortLeft, Known, LifecycleTypeOK
<1> QED
  BY <1>2, <1>5, <1>6

\* A startup fails.
LEMMA StartupFailsEdge ==
    ASSUME LifecycleAssumption, Known, NEW h \in Hosts,
           StartupFails(h)
    PROVE  \E s \in HostState : Edge(h, s) /\ ServerEdge(h, s)
<1> DEFINE s == [host[h] EXCEPT !.owns = FALSE,
                             !.pc = IF host[h].attempt < MaxAttempts THEN "begin" ELSE "quit",
                             !.attempt = IF @ < MaxAttempts THEN @ + 1 ELSE @]
<1>1. host[h] \in HostState /\ Own(h) \in Backends
  BY OwnTypes DEF Known
<1>1a. host[h].attempt < MaxAttempts => host[h].attempt + 1 \in 1..MaxAttempts
  BY <1>1, LifecycleAssumption DEF HostState
<1>2. s \in HostState
  BY <1>1, <1>1a DEF HostState, HostPhases
<1>3. /\ s.pc = (IF host[h].attempt < MaxAttempts THEN "begin" ELSE "quit") /\ s.owns = FALSE
      /\ s.used = host[h].used /\ s.heard = host[h].heard
      /\ s.absent = host[h].absent /\ s.unmarked = host[h].unmarked
  BY <1>1 DEF HostState
<1>4. Becomes(h, s)
  BY DEF StartupFails
<1> HIDE DEF s
<1>5. Edge(h, s)
  BY <1>1, <1>2, <1>3, <1>4 DEF Edge, StartupFails, Known,
         LifecycleTypeOK, MarkersStand, AnswersAreObsolete
<1>6. ServerEdge(h, s)
  BY <1>1, ServerEnds DEF ServerEdge, StartupFails, Known, LifecycleAssumption
<1> QED
  BY <1>2, <1>5, <1>6

\* A window is closed and the backend left.
LEMMA LeaveClosedEdge ==
    ASSUME LifecycleAssumption, Known, NEW h \in Hosts,
           CloseWindow(h), LeavesBackend(h)
    PROVE  \E s \in HostState : Edge(h, s) /\ ServerEdge(h, s)
<1> DEFINE s == [host[h] EXCEPT !.pc = "quit", !.used = NoBackend]
<1>1. host[h] \in HostState /\ Own(h) \in Backends
  BY OwnTypes DEF Known
<1>2. s \in HostState
  BY <1>1 DEF HostState, HostPhases
<1>3. /\ s.pc = "quit" /\ s.owns = host[h].owns
      /\ s.used = NoBackend /\ s.heard = host[h].heard
      /\ s.absent = host[h].absent /\ s.unmarked = host[h].unmarked
  BY <1>1 DEF HostState
<1>4. Becomes(h, s)
  BY DEF CloseWindow
<1> HIDE DEF s
<1>5. Edge(h, s)
  BY <1>1, <1>2, <1>3, <1>4 DEF Edge, CloseWindow, LeavesBackend, Known,
         LifecycleTypeOK, MarkersStand, AnswersAreObsolete
<1>6. ServerEdge(h, s)
  BY DEF ServerEdge, CloseWindow, Known, LifecycleTypeOK
<1> QED
  BY <1>2, <1>5, <1>6

\* A window is closed and the backend shut down.
LEMMA PostClosedEdge ==
    ASSUME LifecycleAssumption, Known, NEW h \in Hosts,
           CloseWindow(h), ~LeavesBackend(h)
    PROVE  \E s \in HostState : Edge(h, s) /\ ServerEdge(h, s)
<1> DEFINE s == [host[h] EXCEPT !.pc = "post", !.used = NoBackend, !.absent = Unmarked]
<1>1. host[h] \in HostState /\ Own(h) \in Backends
  BY OwnTypes DEF Known
<1>2. s \in HostState
  BY <1>1 DEF HostState, HostPhases, Unmarked
<1>3. /\ s.pc = "post" /\ s.owns = host[h].owns
      /\ s.used = NoBackend /\ s.heard = host[h].heard
      /\ s.absent = Unmarked /\ s.unmarked = host[h].unmarked
  BY <1>1 DEF HostState
<1>4. Becomes(h, s)
  BY DEF CloseWindow
<1> HIDE DEF s
<1>5. Edge(h, s)
  BY <1>1, <1>2, <1>3, <1>4 DEF Edge, CloseWindow, LeavesBackend, Known,
         LifecycleTypeOK, MarkersStand, AnswersAreObsolete
<1>6. ServerEdge(h, s)
  BY DEF ServerEdge, CloseWindow, Known, LifecycleTypeOK
<1> QED
  BY <1>2, <1>5, <1>6

\* The application quits with its window open.
LEMMA QuitAtOnceEdge ==
    ASSUME LifecycleAssumption, Known, NEW h \in Hosts,
           QuitAtOnce(h)
    PROVE  \E s \in HostState : Edge(h, s) /\ ServerEdge(h, s)
<1> DEFINE s == [host[h] EXCEPT !.pc = "quit", !.used = NoBackend]
<1>1. host[h] \in HostState /\ Own(h) \in Backends
  BY OwnTypes DEF Known
<1>2. s \in HostState
  BY <1>1 DEF HostState, HostPhases
<1>3. /\ s.pc = "quit" /\ s.owns = host[h].owns
      /\ s.used = NoBackend /\ s.heard = host[h].heard
      /\ s.absent = host[h].absent /\ s.unmarked = host[h].unmarked
  BY <1>1 DEF HostState
<1>4. Becomes(h, s)
  BY DEF QuitAtOnce
<1> HIDE DEF s
<1>5. Edge(h, s)
  BY <1>1, <1>2, <1>3, <1>4 DEF Edge, QuitAtOnce, Known,
         LifecycleTypeOK, MarkersStand, AnswersAreObsolete
<1>6. ServerEdge(h, s)
  BY DEF ServerEdge, QuitAtOnce, Known, LifecycleTypeOK
<1> QED
  BY <1>2, <1>5, <1>6

\* The shutdown is posted.
LEMMA PostShutdownEdge ==
    ASSUME LifecycleAssumption, Known, NEW h \in Hosts, NEW b \in Backends,
           PostShutdown(h, b)
    PROVE  \E s \in HostState : Edge(h, s) /\ ServerEdge(h, s)
<1> DEFINE s == [host[h] EXCEPT !.pc = "stop"]
<1>1. host[h] \in HostState /\ Own(h) \in Backends
  BY OwnTypes DEF Known
<1>2. s \in HostState
  BY <1>1 DEF HostState, HostPhases
<1>3. /\ s.pc = "stop" /\ s.owns = host[h].owns
      /\ s.used = host[h].used /\ s.heard = host[h].heard
      /\ s.absent = host[h].absent /\ s.unmarked = host[h].unmarked
  BY <1>1 DEF HostState
<1>4. Becomes(h, s)
  BY DEF PostShutdown
<1> HIDE DEF s
<1>5. Edge(h, s)
  BY <1>1, <1>2, <1>3, <1>4 DEF Edge, PostShutdown, Known,
         LifecycleTypeOK, MarkersStand, AnswersAreObsolete
<1>6. ServerEdge(h, s)
  <2>1. server[b] \in ServerState
    BY DEF Known, LifecycleTypeOK
  <2> DEFINE x == IF server[b].state = "up" THEN [server[b] EXCEPT !.state = "closing", !.by = h] ELSE server[b]
  <2>2. x \in ServerState /\ server' = [server EXCEPT ![b] = x]
    BY <2>1 DEF ServerState, PostShutdown, Known, LifecycleTypeOK
  <2>3. x = server[b] \/ (x.state = "closing" /\ x.by = h)
    BY <2>1 DEF ServerState
  <2> HIDE DEF x
  <2> QED
    BY <2>2, <2>3, <1>3, ServerReset DEF ServerEdge, PostShutdown, Known
<1> QED
  BY <1>2, <1>5, <1>6

\* Nobody hears the shutdown.
LEMMA PostFailsEdge ==
    ASSUME LifecycleAssumption, Known, NEW h \in Hosts,
           PostFails(h)
    PROVE  \E s \in HostState : Edge(h, s) /\ ServerEdge(h, s)
<1> DEFINE s == [host[h] EXCEPT !.pc = "stop"]
<1>1. host[h] \in HostState /\ Own(h) \in Backends
  BY OwnTypes DEF Known
<1>2. s \in HostState
  BY <1>1 DEF HostState, HostPhases
<1>3. /\ s.pc = "stop" /\ s.owns = host[h].owns
      /\ s.used = host[h].used /\ s.heard = host[h].heard
      /\ s.absent = host[h].absent /\ s.unmarked = host[h].unmarked
  BY <1>1 DEF HostState
<1>4. Becomes(h, s)
  BY DEF PostFails
<1> HIDE DEF s
<1>5. Edge(h, s)
  BY <1>1, <1>2, <1>3, <1>4 DEF Edge, PostFails, Known,
         LifecycleTypeOK, MarkersStand, AnswersAreObsolete
<1>6. ServerEdge(h, s)
  BY DEF ServerEdge, PostFails, Known, LifecycleTypeOK
<1> QED
  BY <1>2, <1>5, <1>6

\* The own process is stopped.
LEMMA StopOwnEdge ==
    ASSUME LifecycleAssumption, Known, NEW h \in Hosts,
           StopOwn(h)
    PROVE  \E s \in HostState : Edge(h, s) /\ ServerEdge(h, s)
<1> DEFINE s == [host[h] EXCEPT !.pc = "quit", !.owns = FALSE]
<1>1. host[h] \in HostState /\ Own(h) \in Backends
  BY OwnTypes DEF Known
<1>2. s \in HostState
  BY <1>1 DEF HostState, HostPhases
<1>3. /\ s.pc = "quit" /\ s.owns = FALSE
      /\ s.used = host[h].used /\ s.heard = host[h].heard
      /\ s.absent = host[h].absent /\ s.unmarked = host[h].unmarked
  BY <1>1 DEF HostState
<1>4. Becomes(h, s)
  BY DEF StopOwn
<1> HIDE DEF s
<1>5. Edge(h, s)
  BY <1>1, <1>2, <1>3, <1>4 DEF Edge, StopOwn, Known,
         LifecycleTypeOK, MarkersStand, AnswersAreObsolete
<1>6. ServerEdge(h, s)
  BY <1>1, ServerEnds DEF ServerEdge, StopOwn, Known, LifecycleAssumption
<1> QED
  BY <1>2, <1>5, <1>6

\* The application quits and the backend is left.
LEMMA LeaveQuitEdge ==
    ASSUME LifecycleAssumption, Known, NEW h \in Hosts,
           BeforeQuit(h), LeavesBackend(h)
    PROVE  \E s \in HostState : Edge(h, s) /\ ServerEdge(h, s)
<1> DEFINE s == [host[h] EXCEPT !.pc = "gone"]
<1>1. host[h] \in HostState /\ Own(h) \in Backends
  BY OwnTypes DEF Known
<1>2. s \in HostState
  BY <1>1 DEF HostState, HostPhases
<1>3. /\ s.pc = "gone" /\ s.owns = host[h].owns
      /\ s.used = host[h].used /\ s.heard = host[h].heard
      /\ s.absent = host[h].absent /\ s.unmarked = host[h].unmarked
  BY <1>1 DEF HostState
<1>4. Becomes(h, s)
  BY DEF BeforeQuit
<1> HIDE DEF s
<1>5. Edge(h, s)
  BY <1>1, <1>2, <1>3, <1>4 DEF Edge, BeforeQuit, LeavesBackend, Known,
         LifecycleTypeOK, MarkersStand, AnswersAreObsolete
<1>6. ServerEdge(h, s)
  BY DEF ServerEdge, BeforeQuit, Known, LifecycleTypeOK
<1> QED
  BY <1>2, <1>5, <1>6

\* The application quits and the backend is shut down.
LEMMA PostQuitEdge ==
    ASSUME LifecycleAssumption, Known, NEW h \in Hosts,
           BeforeQuit(h), ~LeavesBackend(h)
    PROVE  \E s \in HostState : Edge(h, s) /\ ServerEdge(h, s)
<1> DEFINE s == [host[h] EXCEPT !.pc = "post", !.absent = Unmarked]
<1>1. host[h] \in HostState /\ Own(h) \in Backends
  BY OwnTypes DEF Known
<1>2. s \in HostState
  BY <1>1 DEF HostState, HostPhases, Unmarked
<1>3. /\ s.pc = "post" /\ s.owns = host[h].owns
      /\ s.used = host[h].used /\ s.heard = host[h].heard
      /\ s.absent = Unmarked /\ s.unmarked = host[h].unmarked
  BY <1>1 DEF HostState
<1>4. Becomes(h, s)
  BY DEF BeforeQuit
<1> HIDE DEF s
<1>5. Edge(h, s)
  BY <1>1, <1>2, <1>3, <1>4 DEF Edge, BeforeQuit, LeavesBackend, Known,
         LifecycleTypeOK, MarkersStand, AnswersAreObsolete
<1>6. ServerEdge(h, s)
  BY DEF ServerEdge, BeforeQuit, Known, LifecycleTypeOK
<1> QED
  BY <1>2, <1>5, <1>6

\* A process ends.
LEMMA HostEndsEdge ==
    ASSUME LifecycleAssumption, Known, NEW h \in Hosts,
           HostEnds(h)
    PROVE  \E s \in HostState : Edge(h, s) /\ ServerEdge(h, s)
<1> DEFINE s == [host[h] EXCEPT !.pc = "gone", !.used = NoBackend, !.left = {}, !.heard = NoBackend]
<1>1. host[h] \in HostState /\ Own(h) \in Backends
  BY OwnTypes DEF Known
<1>2. s \in HostState
  BY <1>1 DEF HostState, HostPhases
<1>3. /\ s.pc = "gone" /\ s.owns = host[h].owns
      /\ s.used = NoBackend /\ s.heard = NoBackend
      /\ s.absent = host[h].absent /\ s.unmarked = host[h].unmarked
  BY <1>1 DEF HostState
<1>4. Becomes(h, s)
  BY DEF HostEnds
<1> HIDE DEF s
<1>5. Edge(h, s)
  BY <1>1, <1>2, <1>3, <1>4 DEF Edge, HostEnds, Known,
         LifecycleTypeOK, MarkersStand, AnswersAreObsolete
<1>6. ServerEdge(h, s)
  BY DEF ServerEdge, HostEnds, Known, LifecycleTypeOK
<1> QED
  BY <1>2, <1>5, <1>6

\* A window opens: by the marker it can or cannot write.
LEMMA ConnectEdge ==
    ASSUME LifecycleAssumption, Known, NEW h \in Hosts, NEW x \in HostState,
           Connect(h, x), UNCHANGED <<install, taken, server>>,
           host[h].pc \in {"search", "await"},
           x.pc = "run", x.used \in Backends, Compatible(h, x.used),
           x.heard = host[h].heard, x.unmarked = host[h].unmarked
    PROVE  \E s \in HostState : Edge(h, s) /\ ServerEdge(h, s)
<1>1. CASE Becomes(h, x) /\ UNCHANGED marker
  <2>1. Edge(h, x)
    BY <1>1 DEF Edge, Known, LifecycleTypeOK, MarkersStand, AnswersAreObsolete
  <2> QED
    BY <2>1 DEF ServerEdge, Known, LifecycleTypeOK
<1>2. CASE Becomes(h, [x EXCEPT !.unmarked = FALSE]) /\ marker' = [marker EXCEPT ![h] = x.port]
  <2> DEFINE s == [x EXCEPT !.unmarked = FALSE]
  <2>0. x.port \in Ports /\ x.port # 0
    BY DEF HostState, Ports
  <2>1. s \in HostState
    BY DEF HostState
  <2>2. s.pc = x.pc /\ s.used = x.used /\ s.heard = x.heard
    BY DEF HostState
  <2>3. Becomes(h, s)
    BY <1>2
  <2> HIDE DEF s
  <2>4. Edge(h, s)
    BY <1>2, <2>0, <2>1, <2>2, <2>3 DEF Edge, Known, LifecycleTypeOK, MarkersStand, AnswersAreObsolete
  <2> QED
    BY <2>1, <2>4 DEF ServerEdge, Known, LifecycleTypeOK
<1> QED
  BY <1>1, <1>2 DEF Connect

\* A backend is reused.
LEMMA ReuseEdge ==
    ASSUME LifecycleAssumption, Known, NEW h \in Hosts, NEW p \in Ports, NEW b \in Backends,
           Reuse(h, p, b)
    PROVE  \E s \in HostState : Edge(h, s) /\ ServerEdge(h, s)
<1> DEFINE x == [host[h] EXCEPT !.pc = "run", !.port = p, !.owns = FALSE, !.used = b, !.left = {}]
<1>1. host[h] \in HostState
  BY OwnTypes DEF Known
<1>2. x \in HostState
  BY <1>1 DEF HostState, HostPhases
<1>3. x.pc = "run" /\ x.used = b /\ x.heard = host[h].heard /\ x.unmarked = host[h].unmarked
  BY <1>1 DEF HostState
<1>4. Connect(h, x) /\ host[h].pc = "search" /\ Compatible(h, b) /\ UNCHANGED <<install, taken, server>>
  BY DEF Reuse
<1> HIDE DEF x
<1> QED
  BY <1>2, <1>3, <1>4, ConnectEdge

\* The server answers.
LEMMA ServerAnswersEdge ==
    ASSUME LifecycleAssumption, Known, NEW h \in Hosts, NEW b \in Backends, ServerAnswers(h, b)
    PROVE  \E s \in HostState : Edge(h, s) /\ ServerEdge(h, s)
<1> DEFINE x == [host[h] EXCEPT !.pc = "run", !.used = b]
<1>1. host[h] \in HostState
  BY OwnTypes DEF Known
<1>2. x \in HostState
  BY <1>1 DEF HostState, HostPhases
<1>3. x.pc = "run" /\ x.used = b /\ x.heard = host[h].heard /\ x.unmarked = host[h].unmarked
  BY <1>1 DEF HostState
<1>4. Connect(h, x) /\ host[h].pc = "await" /\ Compatible(h, b) /\ UNCHANGED <<install, taken, server>>
  BY DEF ServerAnswers
<1> HIDE DEF x
<1> QED
  BY <1>2, <1>3, <1>4, ConnectEdge

\* A host starts: by the marker it can or cannot write.
LEMMA LaunchEdge ==
    ASSUME LifecycleAssumption, Known, NEW h \in Hosts, Launch(h)
    PROVE  \E s \in HostState : Edge(h, s) /\ ServerEdge(h, s)
<1>1. host[h] \in HostState
  BY OwnTypes DEF Known
<1>2. PICK s \in HostState :
         /\ Becomes(h, s)
         /\ s.pc = "begin" /\ s.heard = host[h].heard
         /\ s.unmarked \/ marker' = [marker EXCEPT ![h] = host[h].port]
         /\ marker' = [marker EXCEPT ![h] = host[h].port] \/ UNCHANGED marker
  <2> DEFINE u == [host[h] EXCEPT !.pc = "begin"]
             v == [host[h] EXCEPT !.pc = "begin", !.unmarked = TRUE]
  <2>1. u \in HostState /\ v \in HostState
    BY <1>1 DEF HostState, HostPhases
  <2>2. u.pc = "begin" /\ v.pc = "begin" /\ u.heard = host[h].heard /\ v.heard = host[h].heard
    BY <1>1 DEF HostState
  <2>3. v.unmarked = TRUE
    BY <1>1 DEF HostState
  <2>4. \/ Becomes(h, u) /\ marker' = [marker EXCEPT ![h] = host[h].port]
        \/ Becomes(h, v) /\ UNCHANGED marker
    BY DEF Launch
  <2> HIDE DEF u, v
  <2> QED
    BY <2>1, <2>2, <2>3, <2>4
<1>3. host[h].port \in Ports /\ host[h].port # 0
  BY <1>1 DEF HostState, Ports
<1>4. Edge(h, s)
  BY <1>2, <1>3 DEF Edge, Launch, Known, LifecycleTypeOK, AnswersAreObsolete
<1>5. ServerEdge(h, s)
  BY DEF ServerEdge, Launch, Known, LifecycleTypeOK
<1> QED
  BY <1>4, <1>5

\* Every step of a host is an edge.
LEMMA HostEdge ==
    ASSUME LifecycleAssumption, Known, NEW h \in Hosts, HostStep(h)
    PROVE  \E s \in HostState : Edge(h, s) /\ ServerEdge(h, s)
  BY LaunchEdge, BeginAttemptEdge, PassOverEdge, SpawnEdge, ReuseEdge, LeaveListenerEdge,
     ListenerIsObsoleteEdge, KillListenerEdge, ListenerIsSilentEdge, KillStrangerEdge,
     KillNobodyEdge, NoPortLeftEdge, ServerAnswersEdge, PostShutdownEdge, StartupFailsEdge,
     LeaveClosedEdge, PostClosedEdge, QuitAtOnceEdge, PostFailsEdge, StopOwnEdge,
     LeaveQuitEdge, PostQuitEdge, HostEndsEdge
  DEF HostStep

-----------------------------------------------------------------------------
(* What is known stays known *)

\* It holds when nothing has started.
LEMMA KnownInit ==
    ASSUME LifecycleAssumption, LifecycleInit
    PROVE  Known
<1> DEFINE off == [pc |-> "off", attempt |-> 1, port |-> PREFERRED_PORT, owns |-> FALSE,
                   used |-> NoBackend, left |-> {}, heard |-> NoBackend, absent |-> {},
                   unmarked |-> FALSE]
           none == [state |-> "none", port |-> 0, by |-> NoHost]
<1>1. off \in HostState /\ none \in ServerState
  <2>1. 1 \in 1..MaxAttempts /\ PREFERRED_PORT \in Ports
    BY LifecycleAssumption DEF PREFERRED_PORT, Ports
  <2> QED
    BY <2>1 DEF HostState, HostPhases, ServerState
<1>2. host = [h \in Hosts |-> off] /\ server = [b \in Backends |-> none]
  BY DEF LifecycleInit
<1>3. off.pc = "off" /\ off.heard = NoBackend /\ none.by = NoHost
  OBVIOUS
<1> HIDE DEF off, none
<1>4. LifecycleTypeOK
  <2>1. host \in [Hosts -> HostState] /\ server \in [Backends -> ServerState]
    BY <1>1, <1>2
  <2>2. marker \in [Hosts -> Ports \cup {0}]
    BY DEF LifecycleInit
  <2>3. install \in [Hosts -> [profile: Profiles, build: Builds]] /\ taken \subseteq Ports
    BY DEF LifecycleInit
  <2> QED
    BY <2>1, <2>2, <2>3, Zenon DEF LifecycleTypeOK
<1> QED
  BY <1>2, <1>3, <1>4 DEF Known, UsedIsCompatible, MarkersStand, CountsAreComplete,
                         ObeyedHostsAreQuitting, AnswersAreObsolete

\* A step of a host keeps it.
LEMMA KnownHost ==
    ASSUME LifecycleAssumption, Known, NEW h \in Hosts, NEW s \in HostState,
           Edge(h, s), ServerEdge(h, s)
    PROVE  Known'
<1>1. host' \in [Hosts -> HostState] /\ host'[h] = s /\ \A g \in Hosts \ {h} : host'[g] = host[g]
  BY DEF Edge, Becomes, Known, LifecycleTypeOK
<1>2. LifecycleTypeOK'
  BY <1>1 DEF Edge, ServerEdge, Known, LifecycleTypeOK
<1>3. UsedIsCompatible'
  BY <1>1 DEF Edge, Known, UsedIsCompatible, Compatible
<1>4. MarkersStand'
  BY <1>1 DEF Edge, Known, MarkersStand
<1>5. ASSUME NEW g \in Hosts, FoundNobody(g), host'[g].absent = host[g].absent
      PROVE  FoundNobody(g)'
  BY <1>1, <1>5 DEF Edge, FoundNobody, SameProfile
<1>6. CountsAreComplete'
  <2>1. ASSUME NEW g \in Hosts \ {h}, host[g].pc \in {"post", "stop"}
        PROVE  FoundNobody(g)'
    BY <2>1, <1>1, <1>5 DEF Known, CountsAreComplete
  <2>2. ASSUME s.pc \in {"post", "stop"}
        PROVE  FoundNobody(h)'
    <3>1. CASE host[h].pc = "post" /\ s.absent = host[h].absent
      BY <3>1, <1>1, <1>5 DEF Known, CountsAreComplete
    <3>2. CASE OtherClients(h) = {} /\ s.absent = Unmarked
      <4>1. \A x \in Hosts \ {h} : SameProfile(h, x) => marker[x] = 0
        BY <3>2 DEF OtherClients, SameProfile
      <4>2. \A x \in Hosts : marker[x] = 0 => x \in Unmarked \/ host[x].pc = "gone"
        BY DEF Known, MarkersStand, Unmarked
      <4>3. \A x \in Hosts \ {h} : SameProfile(h, x) => x \in s.absent \/ host'[x].pc = "gone"
        BY <4>1, <4>2, <3>2, <1>1
      <4> QED
        BY <4>3, <1>1 DEF FoundNobody, SameProfile, Edge
    <3> QED
      BY <3>1, <3>2, <2>2 DEF Edge
  <2> QED
    BY <2>1, <2>2, <1>1 DEF CountsAreComplete
<1>7. ObeyedHostsAreQuitting'
  <2> DEFINE Obeyed(c, g) == /\ server'[c].state = "closing"
                             /\ host'[g].pc \in {"stop", "quit", "gone"}
                             /\ host'[g].pc = "quit" => ~host'[g].owns
                             /\ \A x \in Hosts \ {g} : install'[g].profile = install'[x].profile =>
                                   x \in host'[g].absent \/ host'[x].pc = "gone"
  <2>0. ASSUME NEW b \in Backends, NEW g \in Hosts, g = server'[b].by, g # NoHost
        PROVE  Obeyed(b, g)
    <3>1. CASE server'[b] = server[b]
      <4>1. /\ server[b].state = "closing" /\ host[g].pc \in {"stop", "quit", "gone"}
            /\ host[g].pc = "quit" => ~host[g].owns
            /\ FoundNobody(g)
        BY <2>0, <3>1 DEF Known, ObeyedHostsAreQuitting
      <4>2. /\ host'[g].absent = host[g].absent
            /\ host'[g].pc \in {"stop", "quit", "gone"}
            /\ host'[g].pc = "quit" => ~host'[g].owns
        BY <4>1, <1>1 DEF Edge
      <4>3. FoundNobody(g)'
        BY <4>1, <4>2, <1>5
      <4> QED
        BY <4>1, <4>2, <4>3, <3>1 DEF FoundNobody, SameProfile
    <3>2. CASE /\ server'[b].state = "closing" /\ server'[b].by = h
               /\ host[h].pc = "post" /\ s.pc = "stop" /\ s.absent = host[h].absent
      <4>1. FoundNobody(h)
        BY <3>2 DEF Known, CountsAreComplete
      <4>2. FoundNobody(h)'
        BY <4>1, <3>2, <1>1, <1>5
      <4> QED
        BY <4>2, <3>2, <2>0, <1>1 DEF FoundNobody, SameProfile
    <3> QED
      BY <3>1, <3>2, <2>0 DEF ServerEdge
  <2>1. \A b \in Backends : server'[b].by # NoHost => server'[b].by \in Hosts
    BY <1>2 DEF LifecycleTypeOK, ServerState
  <2> HIDE DEF Obeyed
  <2>2. \A b \in Backends : server'[b].by # NoHost => Obeyed(b, server'[b].by)
    BY <2>0, <2>1
  <2> QED
    BY <2>2 DEF Obeyed, ObeyedHostsAreQuitting, FoundNobody, SameProfile
<1>8. AnswersAreObsolete'
  BY <1>1 DEF Edge, Known, AnswersAreObsolete, SameProfile, Compatible
<1> QED
  BY <1>2, <1>3, <1>4, <1>6, <1>7, <1>8 DEF Known

\* What a server does of itself: it does not obey anybody new.
LEMMA ServerStep ==
    ASSUME Known, NEW b \in Backends, BindPort(b) \/ BackendExits(b)
    PROVE  /\ server' \in [Backends -> ServerState]
           /\ \A c \in Backends : \/ server'[c].by = NoHost
                                  \/ server'[c] = server[c]
           /\ UNCHANGED <<install, taken, host, marker>>
<1>1. CASE server' = Ended(b)
  BY <1>1, ServerEnds DEF Known, BindPort, BackendExits
<1>2. CASE /\ server[b].state = "spawned"
           /\ server' = [server EXCEPT ![b].state = "up"]
  <2>1. server[b] \in ServerState
    BY DEF Known, LifecycleTypeOK
  <2> DEFINE x == [server[b] EXCEPT !.state = "up"]
  <2>2. x \in ServerState /\ x.by = server[b].by
    BY <2>1 DEF ServerState
  <2>3. server' = [server EXCEPT ![b] = x]
    BY <1>2 DEF Known, LifecycleTypeOK
  <2>4. server[b].by = NoHost
    BY <1>2 DEF Known, ObeyedHostsAreQuitting
  <2> HIDE DEF x
  <2> QED
    BY <2>2, <2>3, <2>4, ServerReset DEF Known, BindPort, BackendExits
<1> QED
  BY <1>1, <1>2 DEF BindPort, BackendExits

\* So it keeps it.
LEMMA KnownServer ==
    ASSUME Known, NEW b \in Backends, BindPort(b) \/ BackendExits(b)
    PROVE  Known'
<1>1. /\ server' \in [Backends -> ServerState]
      /\ \A c \in Backends : server'[c].by = NoHost \/ server'[c] = server[c]
      /\ UNCHANGED <<install, taken, host, marker>>
  BY ServerStep
<1>2. LifecycleTypeOK'
  BY <1>1 DEF Known, LifecycleTypeOK
<1>3. (UsedIsCompatible /\ MarkersStand /\ CountsAreComplete /\ AnswersAreObsolete)'
  BY <1>1 DEF Known, UsedIsCompatible, Compatible, MarkersStand, CountsAreComplete, FoundNobody,
              SameProfile, AnswersAreObsolete
<1>4. ObeyedHostsAreQuitting'
  BY <1>1 DEF Known, ObeyedHostsAreQuitting, FoundNobody, SameProfile
<1> QED
  BY <1>2, <1>3, <1>4 DEF Known

\* And so does a step that changes nothing.
LEMMA KnownStutter ==
    ASSUME Known, UNCHANGED lifecycleVars
    PROVE  Known'
  BY DEF lifecycleVars, Known, LifecycleTypeOK, UsedIsCompatible, Compatible, MarkersStand,
         CountsAreComplete, FoundNobody, SameProfile, ObeyedHostsAreQuitting, AnswersAreObsolete

\* Known is an invariant: of every host, the markers stand and the counts are
\* complete (registerBackendClient, getOtherBackendClients).
THEOREM KnownHolds == LifecycleSpec => []Known
<1>1. LifecycleInit => Known
  BY KnownInit, LifecycleAssumption
<1>2. Known /\ [LifecycleNext]_lifecycleVars => Known'
  <2>1. ASSUME Known, NEW h \in Hosts, HostStep(h) PROVE Known'
    BY <2>1, HostEdge, KnownHost, LifecycleAssumption
  <2> QED
    BY <2>1, KnownServer, KnownStutter DEF LifecycleNext
<1> QED
  BY <1>1, <1>2, PTL DEF LifecycleSpec

\* The state of the lifecycle keeps its type (backend_lifecycle.js).
THEOREM LifecycleTypes == LifecycleSpec => []LifecycleTypeOK
<1>1. Known => LifecycleTypeOK
  BY DEF Known
<1> QED
  BY <1>1, KnownHolds, PTL

-----------------------------------------------------------------------------
(* What ends a backend *)

\* The steps of a host that end a server.
LEMMA EndingSteps ==
    ASSUME Known, NEW g \in Hosts, HostStep(g), NEW b \in Backends,
           server[b].state # "dead", server'[b].state = "dead"
    PROVE  KillListener(g, b) \/ ((StartupFails(g) \/ StopOwn(g)) /\ b = Own(g))
<1> USE DEF Known, LifecycleTypeOK
<1>1. CASE UNCHANGED server
  BY <1>1
<1>2. ASSUME NEW c \in Backends, KillListener(g, c) PROVE KillListener(g, b)
  BY <1>2, ServerEnds DEF KillListener
<1>3. ASSUME StartupFails(g) \/ StopOwn(g) PROVE b = Own(g)
  BY <1>3, ServerEnds, OwnTypes DEF StartupFails, StopOwn
<1>4. ASSUME NEW p \in Ports, Spawn(g, p) PROVE FALSE
  BY <1>4, OwnTypes DEF Spawn
<1>5. ASSUME NEW c \in Backends, PostShutdown(g, c) PROVE FALSE
  <2>1. server[b] \in ServerState
    OBVIOUS
  <2>2. server'[b] = server[b] \/ server'[b] = [server[b] EXCEPT !.state = "closing", !.by = g]
    BY <1>5 DEF PostShutdown
  <2> QED
    BY <2>1, <2>2 DEF ServerState
<1>6. \/ UNCHANGED server
      \/ \E c \in Backends : KillListener(g, c) \/ PostShutdown(g, c)
      \/ StartupFails(g) \/ StopOwn(g)
      \/ \E p \in Ports : Spawn(g, p)
  BY DEF HostStep, Launch, BeginAttempt, PassOver, Reuse, LeaveListener, ListenerIsObsolete,
         ListenerIsSilent, KillStranger, KillNobody, NoPortLeft, ServerAnswers, CloseWindow,
         QuitAtOnce, PostFails, BeforeQuit, HostEnds
<1> QED
  BY <1>1, <1>2, <1>3, <1>4, <1>5, <1>6

\* A host that shuts its backend down did not know of an open window.
LEMMA MissedIsUnaware ==
    ASSUME NEW g \in Hosts, NEW h \in Hosts, FoundNobody(g), host[h].pc = "run", g # h
    PROVE  Unaware(g, h)
  BY DEF FoundNobody, Unaware

\* One step ends a backend under an open window only as BackendIsLeft says.
LEMMA BackendIsLeftStep ==
    ASSUME LifecycleAssumption, Known, [LifecycleNext]_lifecycleVars
    PROVE  BackendIsLeft
<1> SUFFICES ASSUME NEW h \in Hosts, host[h].pc = "run",
                    server[host[h].used].state # "dead", server'[host[h].used].state = "dead"
             PROVE  \/ server[host[h].used].by = NoHost /\ UNCHANGED host
                    \/ /\ server[host[h].used].by # NoHost
                       /\ Unaware(server[host[h].used].by, h)
                    \/ \E g \in Hosts :
                          /\ host'[g] # host[g]
                          /\ \/ host[g].pc = "stop" /\ Unaware(g, h)
                             \/ host[g].pc = "await" /\ host[h].used = Own(g)
                             \/ /\ host[g].pc = "kill"
                                /\ host[g].heard = host[h].used =>
                                      /\ SameProfile(g, h)
                                      /\ install[g].build # install[h].build
  BY DEF BackendIsLeft
<1>1. PICK b \in Backends : b = host[h].used /\ Compatible(h, b)
  BY DEF Known, UsedIsCompatible
<1>2. b # NoBackend
  BY LifecycleAssumption DEF Backends
<1>3. ASSUME NEW g \in Hosts, HostStep(g)
      PROVE  /\ host'[g] # host[g]
             /\ \/ host[g].pc = "stop" /\ Unaware(g, h)
                \/ host[g].pc = "await" /\ b = Own(g)
                \/ /\ host[g].pc = "kill"
                   /\ host[g].heard = b =>
                         SameProfile(g, h) /\ install[g].build # install[h].build
  <2> host \in [Hosts -> HostState] /\ host[g] \in HostState
    BY DEF Known, LifecycleTypeOK
  <2>1. CASE KillListener(g, b)
    <3>1. host[g].pc = "kill" /\ host'[g].pc = "bind"
      BY <2>1 DEF KillListener, Becomes, HostState
    <3>2. ASSUME host[g].heard = b
          PROVE  SameProfile(g, h) /\ install[g].build # install[h].build
      <4>1. SameProfile(g, b[1]) /\ ~Compatible(g, b)
        BY <3>2, <1>2 DEF Known, AnswersAreObsolete
      <4>2. install[g].profile = install[h].profile /\ install[g] # install[h]
        BY <4>1, <1>1 DEF SameProfile, Compatible
      <4>3. \A x \in Hosts : install[x] \in [profile: Profiles, build: Builds]
        BY DEF Known, LifecycleTypeOK
      <4> QED
        BY <4>2, <4>3 DEF SameProfile
    <3> QED
      BY <3>1, <3>2
  <2>2. CASE StartupFails(g) /\ b = Own(g)
    <3>1. host[g].pc = "await" /\ host'[g].pc \in {"begin", "quit"}
      BY <2>2 DEF StartupFails, Becomes, HostState
    <3> QED
      BY <3>1, <2>2
  <2>3. CASE StopOwn(g)
    <3>1. host[g].pc = "stop" /\ host'[g].pc = "quit"
      BY <2>3 DEF StopOwn, Becomes, HostState
    <3>2. FoundNobody(g)
      BY <3>1 DEF Known, CountsAreComplete
    <3> QED
      BY <3>1, <3>2, MissedIsUnaware
  <2> QED
    BY <2>1, <2>2, <2>3, <1>1, <1>3, EndingSteps
<1>4. ASSUME NEW c \in Backends, BindPort(c) \/ BackendExits(c)
      PROVE  \/ server[b].by = NoHost /\ UNCHANGED host
             \/ server[b].by # NoHost /\ Unaware(server[b].by, h)
  <2>1. UNCHANGED host
    BY <1>4 DEF BindPort, BackendExits
  <2>2. ASSUME server[b].by # NoHost PROVE Unaware(server[b].by, h)
    <3>1. PICK g \in Hosts : g = server[b].by
      BY <2>2 DEF Known, LifecycleTypeOK, ServerState
    <3>2. host[g].pc \in {"stop", "quit", "gone"} /\ FoundNobody(g)
      BY <2>2, <3>1 DEF Known, ObeyedHostsAreQuitting
    <3> QED
      BY <3>1, <3>2, MissedIsUnaware
  <2> QED
    BY <2>1, <2>2
<1>5. ~UNCHANGED lifecycleVars
  BY DEF lifecycleVars
<1> QED
  BY <1>1, <1>3, <1>4, <1>5 DEF LifecycleNext

\* The backend under an open window is never ended by a host that knew of the
\* window, quitting (requestBackendShutdown) or starting
\* (stopMismatchedBackendListener).
THEOREM BackendUnderAWindow == LifecycleSpec => ReliedOnBackendIsLeft
<1>1. Known /\ [LifecycleNext]_lifecycleVars => [BackendIsLeft]_lifecycleVars
  BY BackendIsLeftStep, LifecycleAssumption
<1> QED
  BY <1>1, KnownHolds, PTL DEF LifecycleSpec, ReliedOnBackendIsLeft

=============================================================================

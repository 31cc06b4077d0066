----------------------------- MODULE Application -----------------------------
(***************************************************************************)
(* The application (package app, main.go): the main goroutine builds the   *)
(* zones and virtual hosts of a configuration and then waits for signals,  *)
(* the server goroutine runs the graceful server, and the goroutine of     *)
(* each connection looks up the virtual host of its requests while a       *)
(* reload replaces the configuration under it.                             *)
(*                                                                         *)
(* Abstracted: of a configuration, the zones, the names and aliases of the *)
(* hosts, the pid file, and what a reload may not change as one value;     *)
(* locations, which are built and installed with their host; what else can *)
(* fail while it is built (upstreams, loggers, handlers), as a failure     *)
(* that may happen; all connections come from one remote address, the key  *)
(* they are registered under.  gracehttp and net/http are external, as     *)
(* the code uses them.  A wrong variant of a definition stands before it,  *)
(* commented `Mutant'.                                                     *)
(***************************************************************************)
EXTENDS Integers, Sequences, FiniteSets, Functions

CONSTANTS Configs,   \* [zones, hosts, pidfile, fixed]: what the file may say
          Names,     \* host names of requests
          Conns,     \* connections
          None,
          MaxHups    \* bound: reload signals

\* zones maps an ID to what a reload may not change of it (type, path,
\* algorithm, part size) and its capacity; a host has names and a zone.
ASSUME ConfigAssumption ==
    /\ MaxHups \in Nat /\ None \notin Conns
    /\ \A c \in Configs : /\ IsFiniteSet(DOMAIN c.zones)
                         /\ \A h \in c.hosts : h.zone \in DOMAIN c.zones

VARIABLES
    main,       \* where the main goroutine is
    server,     \* where doServing is
    signals,    \* signalChan of Wait, which has room for one
    hups,       \* signals sent so far
    cfg, hosts, zones,   \* what is installed; a host and a zone are an instance of a zone
    locked,     \* the lock of the application is held for writing
    new,        \* the private copy of a reload
    inst,       \* inst[i]: the i-th cache zone that was created
    gone,       \* instances whose ID a configuration installed since does not have
    pidfiles,   \* pid files with our process ID
    conn,       \* conn[c]: a connection and the request it serves
    registry    \* the connection registered under the remote address

installed == <<cfg, hosts, zones, locked, inst, gone>>
clients == <<conn, registry>>
vars == <<main, server, signals, hups, installed, new, pidfiles, clients>>

NoConn == [at |-> "new", wired |-> FALSE, held |-> None, using |-> None]
NoBuild == [cfg |-> None, zones |-> <<>>, hosts |-> <<>>]
Running == main \notin {"start", "exited"}

TypeOK ==
    /\ main \in {"start", "setup", "build", "swap", "clear", "resize", "copy", "loop",
                 "reload", "stop", "await", "cleanup", "exited"}
    /\ server \in {"off", "starting", "serving", "draining", "finishing", "done"}
    /\ signals \in {<<>>, <<"HUP">>, <<"TERM">>} /\ hups \in 0..MaxHups
    /\ cfg \in Configs \cup {None} /\ locked \in BOOLEAN
    /\ \A z \in Range(zones) \cup Range(hosts) \cup gone : z \in DOMAIN inst
    /\ \A c \in Conns : /\ conn[c].at \in {"new", "open", "located", "serving", "closing", "gone"}
                        /\ conn[c].held \in DOMAIN inst \cup {None}
                        /\ conn[c].using \in Conns \cup {None}
    /\ registry \in Conns \cup {None}

----------------------------------------------------------------------------
(* Building a configuration in a private copy.                              *)

NamesOf(c) == UNION {h.names : h \in c.hosts}
HostOf(c, n) == CHOOSE h \in c.hosts : n \in h.names
Duplicate(c) == \E h, g \in c.hosts : h # g /\ h.names \cap g.names # {}

Init ==
    /\ main = "start" /\ server = "off" /\ signals = <<>> /\ hups = 0
    /\ cfg = None /\ hosts = <<>> /\ zones = <<>> /\ locked = FALSE
    /\ new = NoBuild /\ inst = <<>> /\ gone = {} /\ pidfiles = {}
    /\ conn = [c \in Conns |-> NoConn] /\ registry = None

\* New: the configuration is read and built once to see whether it can be;
\* the process ends when it cannot.
New ==
    /\ main = "start"
    /\ \/ main' = "exited" /\ UNCHANGED cfg
       \/ \E c \in Configs : ~Duplicate(c) /\ main' = "setup" /\ cfg' = c
    /\ UNCHANGED <<server, signals, hups, hosts, zones, locked, new, inst, gone, pidfiles, clients>>

\* SetupEnv, and Run builds the same configuration again, for good.
Setup ==
    /\ main = "setup"
    /\ main' = "build"
    /\ pidfiles' = {cfg.pidfile}
    /\ new' = [NoBuild EXCEPT !.cfg = cfg]
    /\ UNCHANGED <<server, signals, hups, installed, clients>>

\* An error of SetupEnv ends Run; the pidfile may be there without its content.
SetupFails ==
    /\ main = "setup"
    /\ main' = "exited"
    /\ pidfiles' \in {pidfiles, {cfg.pidfile}}
    /\ UNCHANGED <<server, signals, hups, installed, new, clients>>

\* The zones created for the IDs of c in ids, numbered after those there are.
Created(ids) == CHOOSE f \in [ids -> Len(inst) + 1 .. Len(inst) + Cardinality(ids)] : IsInjective(f)
WithCreated(c, f) ==
    inst \o [i \in 1..Cardinality(DOMAIN f) |->
               LET id == CHOOSE x \in DOMAIN f : f[x] = Len(inst) + i
               IN  [id |-> id, capacity |-> c.zones[id].capacity]]

\* Mutant: the zones are looked up in the map that was just emptied.
KeptNone(c) == {id \in DOMAIN c.zones : id \notin DOMAIN c.zones}

\* A zone with an ID that is installed is kept, whatever else changes.
Kept(c) == DOMAIN c.zones \cap DOMAIN zones

\* reinitFromConfigInplace: zones first, then hosts with their aliases.
Build ==
    LET c   == new.cfg
        f   == Created(DOMAIN c.zones \ Kept(c))
        all == [id \in DOMAIN c.zones |-> IF id \in Kept(c) THEN zones[id] ELSE f[id]]
    IN  /\ main = "build" /\ ~Duplicate(c)
        /\ inst' = WithCreated(c, f)
        /\ new' = [cfg |-> c, zones |-> all,
                   hosts |-> [n \in NamesOf(c) |-> all[HostOf(c, n).zone]]]
        /\ main' = "swap"
        /\ UNCHANGED <<server, signals, hups, cfg, hosts, zones, locked, gone, pidfiles, clients>>

\* An error on the way: the zones made so far stay behind, with their
\* scheduler and loader running.  At the start it ends Run.
BuildFails ==
    /\ main = "build"
    /\ \E ids \in SUBSET (DOMAIN new.cfg.zones \ Kept(new.cfg)) : inst' = WithCreated(new.cfg, Created(ids))
    /\ new' = NoBuild
    /\ main' = IF server = "off" THEN "exited" ELSE "loop"
    /\ UNCHANGED <<server, signals, hups, cfg, hosts, zones, locked, gone, pidfiles, clients>>

----------------------------------------------------------------------------
(* Installing it, under the lock, with the map of zones changed in place.   *)

Swap ==
    /\ main = "swap"
    /\ main' = "clear" /\ locked' = TRUE
    /\ cfg' = new.cfg /\ hosts' = new.hosts
    /\ gone' = gone \cup {zones[id] : id \in DOMAIN zones \ DOMAIN new.zones}
    /\ UNCHANGED <<server, signals, hups, zones, new, inst, pidfiles, clients>>

\* Mutant: the map is not emptied.
ClearNothing ==
    /\ main = "clear"
    /\ main' = "resize"
    /\ UNCHANGED <<server, signals, hups, installed, new, pidfiles, clients>>

Clear ==
    /\ main = "clear"
    /\ main' = "resize"
    /\ zones' = <<>>
    /\ UNCHANGED <<server, signals, hups, cfg, hosts, locked, new, inst, gone, pidfiles, clients>>

\* ChangeConfig of every zone that was kept.
Resize ==
    /\ main = "resize"
    /\ main' = "copy"
    /\ inst' = [i \in DOMAIN inst |->
                  IF i \in Range(new.zones)
                  THEN [inst[i] EXCEPT !.capacity = new.cfg.zones[inst[i].id].capacity]
                  ELSE inst[i]]
    /\ UNCHANGED <<server, signals, hups, cfg, hosts, zones, locked, new, gone, pidfiles, clients>>

\* The zones go into the map one at a time, then the lock is released; the
\* first time, Run starts the server and waits.
CopyZone(id) ==
    /\ main = "copy" /\ id \in DOMAIN new.zones \ DOMAIN zones
    /\ zones' = [x \in DOMAIN zones \cup {id} |-> IF x = id THEN new.zones[id] ELSE zones[x]]
    /\ UNCHANGED <<main, server, signals, hups, cfg, hosts, locked, new, inst, gone, pidfiles, clients>>

Installed ==
    /\ main = "copy" /\ DOMAIN new.zones \subseteq DOMAIN zones
    /\ main' = "loop" /\ locked' = FALSE /\ new' = NoBuild
    /\ server' = IF server = "off" THEN "starting" ELSE server
    /\ UNCHANGED <<signals, hups, cfg, hosts, zones, inst, gone, pidfiles, clients>>

----------------------------------------------------------------------------
(* Signals: Wait, Reload and Stop, and doServing beside them.               *)

\* Mutant: the channel has room for every signal.
NotifiedAll(sig) == signals' = Append(signals, sig)

\* The runtime gives a signal to whoever asked for it: it is dropped when
\* signalChan is full, and only a server that runs hears of SIGTERM.
Notified(sig) == signals' = IF signals = <<>> THEN <<sig>> ELSE signals
Terminated == server' = IF server = "serving" THEN "draining" ELSE server

Waiting == Running /\ server # "off"

SendHup == /\ Waiting /\ hups < MaxHups
           /\ Notified("HUP") /\ hups' = hups + 1
           /\ UNCHANGED <<main, server, installed, new, pidfiles, clients>>

SendTerm == /\ Waiting
            /\ Notified("TERM") /\ Terminated
            /\ UNCHANGED <<main, hups, installed, new, pidfiles, clients>>

TakeSignal ==
    /\ main = "loop" /\ signals # <<>>
    /\ signals' = <<>>
    /\ main' = IF signals = <<"HUP">> THEN "reload" ELSE "stop"
    /\ UNCHANGED <<server, hups, installed, new, pidfiles, clients>>

\* checkConfigCouldBeReloaded: a zone with an ID of the old configuration may
\* only differ in its capacity.
Compatible(c) ==
    /\ c.fixed = cfg.fixed
    /\ \A id \in DOMAIN c.zones \cap DOMAIN cfg.zones : c.zones[id].kind = cfg.zones[id].kind

\* The file cannot be read or parsed, or has a configuration for Reload.
Reload ==
    /\ main = "reload"
    /\ \/ main' = "loop" /\ UNCHANGED new
       \/ \E c \in Configs : IF Compatible(c) THEN /\ main' = "build"
                                                   /\ new' = [NoBuild EXCEPT !.cfg = c]
                                              ELSE main' = "loop" /\ UNCHANGED new
    /\ UNCHANGED <<server, signals, hups, installed, pidfiles, clients>>

\* Stop sends SIGTERM to its own process and waits for doServing.
Stop ==
    /\ main = "stop"
    /\ main' = "await"
    /\ Notified("TERM") /\ Terminated
    /\ UNCHANGED <<hups, installed, new, pidfiles, clients>>

Finished ==
    /\ main = "await" /\ server = "finishing"
    /\ main' = "cleanup" /\ server' = "done"
    /\ UNCHANGED <<signals, hups, installed, new, pidfiles, clients>>

\* CleanupEnv, with the configuration of now.
Cleanup ==
    /\ main = "cleanup"
    /\ main' = "exited"
    /\ pidfiles' = pidfiles \ {cfg.pidfile}
    /\ UNCHANGED <<server, signals, hups, installed, new, clients>>

\* Mutant: an error of listenAndServe returns before finished is sent.
ServeOrReturn ==
    /\ Running /\ server = "starting"
    /\ server' \in {"serving", "done"}
    /\ UNCHANGED <<main, signals, hups, installed, new, pidfiles, clients>>

\* doServing: the address is listened on, or listenAndServe fails.
Serve ==
    /\ Running /\ server = "starting"
    /\ server' \in {"serving", "finishing"}
    /\ UNCHANGED <<main, signals, hups, installed, new, pidfiles, clients>>

\* The server returns when its connections are closed or their time is up.
Drained ==
    /\ Running /\ server = "draining"
    /\ server' = "finishing"
    /\ conn' = [c \in Conns |-> IF conn[c].at \in {"open", "located", "serving"}
                                THEN [NoConn EXCEPT !.at = "closing"] ELSE conn[c]]
    /\ UNCHANGED <<main, signals, hups, installed, new, pidfiles, registry>>

----------------------------------------------------------------------------
(* Connections and their requests.                                          *)

Go(c, rec) == conn' = [conn EXCEPT ![c] = rec]

\* A connection is accepted and registered while no other from its address is
\* there for the network, which does not mean that those are unregistered.
Accept(c) ==
    /\ Running /\ server = "serving" /\ conn[c].at = "new"
    /\ \A d \in Conns : ~conn[d].wired
    /\ Go(c, [NoConn EXCEPT !.at = "open", !.wired = TRUE])
    /\ registry' = c

\* GetLocationFor: the host is looked up under the lock, a request for an
\* unknown one is answered there and then.
Lookup(c) ==
    /\ Running /\ ~locked /\ conn[c].at = "open"
    /\ \E n \in Names \cap DOMAIN hosts : Go(c, [conn[c] EXCEPT !.at = "located", !.held = hosts[n]])
    /\ UNCHANGED registry

\* The connection of the request is found by its remote address.
Find(c) ==
    /\ Running /\ conn[c].at = "located"
    /\ Go(c, IF registry = None THEN [conn[c] EXCEPT !.at = "open", !.held = None]
                                ELSE [conn[c] EXCEPT !.at = "serving", !.using = registry])
    /\ UNCHANGED registry

Respond(c) ==
    /\ Running /\ conn[c].at = "serving"
    /\ Go(c, [conn[c] EXCEPT !.at = "open", !.held = None, !.using = None])
    /\ UNCHANGED registry

\* The client resets the connection, whatever its goroutine is doing.
Reset(c) ==
    /\ Running /\ conn[c].wired
    /\ Go(c, [conn[c] EXCEPT !.wired = FALSE])
    /\ UNCHANGED registry

\* The server closes a connection, and only then tells ConnState.
Close(c) ==
    /\ Running /\ conn[c].at = "open"
    /\ Go(c, [NoConn EXCEPT !.at = "closing"])
    /\ UNCHANGED registry

\* Mutant: whatever is registered is removed.
RemoveAny(c) ==
    /\ Running /\ conn[c].at = "closing"
    /\ Go(c, [NoConn EXCEPT !.at = "gone"])
    /\ registry' = None

Remove(c) ==
    /\ Running /\ conn[c].at = "closing"
    /\ Go(c, [NoConn EXCEPT !.at = "gone"])
    /\ registry' = IF registry = c THEN None ELSE registry

\* The status page walks the map of zones without the lock: when the map is
\* being changed the runtime may end the process.
ReadZones(c) ==
    /\ Running /\ conn[c].at = "serving" /\ main \in {"clear", "copy"}
    /\ main' = "exited"
    /\ UNCHANGED <<server, signals, hups, installed, new, pidfiles, clients>>

Client(c) == Accept(c) \/ Lookup(c) \/ Find(c) \/ Respond(c) \/ Reset(c) \/ Close(c) \/ Remove(c)

Main == \/ New \/ Setup \/ SetupFails \/ Build \/ BuildFails \/ Swap \/ Clear \/ Resize \/ Installed
        \/ \E id \in DOMAIN new.zones : CopyZone(id)
        \/ TakeSignal \/ Reload \/ Stop \/ Finished \/ Cleanup

Next == \/ Main \/ Serve \/ Drained \/ SendHup \/ SendTerm
        \/ \E c \in Conns : \/ Client(c) /\ UNCHANGED <<main, server, signals, hups, installed, new, pidfiles>>
                            \/ ReadZones(c)

\* The scheduler of the runtime runs every goroutine; nothing is assumed of
\* clients or of the signals that are sent.
Spec == Init /\ [][Next]_vars /\ WF_vars(Main) /\ WF_vars(Serve) /\ WF_vars(Drained)

----------------------------------------------------------------------------
(* What is installed is one configuration: its names and no others, each on *)
(* the zone it names, which is the installed one, at the capacity the       *)
(* configuration gives it, however many reloads failed (app/init.go).       *)
OneConfiguration ==
    ~locked /\ hosts # <<>> =>
        /\ DOMAIN zones = DOMAIN cfg.zones /\ DOMAIN hosts = NamesOf(cfg)
        /\ \A n \in DOMAIN hosts : hosts[n] = zones[HostOf(cfg, n).zone]
        /\ \A id \in DOMAIN zones : inst[zones[id]] = [id |-> id, capacity |-> cfg.zones[id].capacity]

(* A request that was looked up before a reload works on the same instance  *)
(* of its zone as those looked up after it, so that one scheduler and one   *)
(* list of objects are responsible for a directory, unless a configuration  *)
(* without that zone was installed in between (app/init.go).                *)
SameZoneAcrossReloads ==
    \A c \in Conns : conn[c].held # None /\ ~locked =>
        conn[c].held \in Range(zones) \cup gone

(* A request of a client that is still there is given its own connection,   *)
(* though an old connection from its address may be removed only after it   *)
(* was added (app/connections.go).                                          *)
FindsItsConnection ==
    \A c \in Conns : conn[c].wired => registry = c /\ conn[c].using \in {None, c}

(* An operator who goes on sending SIGTERM ends the process, whichever of   *)
(* the signals are dropped, during a reload or while the server starts, and *)
(* when the server has failed (app/app.go).                                 *)
EndsWhenAsked == WF_vars(SendTerm) => <>(main = "exited")
=============================================================================

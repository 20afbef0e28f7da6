------------------------------- MODULE Server -------------------------------
(***************************************************************************)
(* The server binary from start to exit: the configuration is loaded, the *)
(* hub is composed from it, up to three listeners are bound one after the  *)
(* other, each with an accept task of its own, and the process waits for   *)
(* the first of these tasks to end or for SIGINT / SIGTERM.  What the      *)
(* transports do once they accept is the subject of the other modules;     *)
(* here a client is a connection task that lives on the runtime.           *)
(***************************************************************************)
EXTENDS Integers, Sequences, FiniteSets, SequencesExt

CONSTANTS
    None,           \* an absent option
    Configs,        \* the configuration files the process may be started with
    Addresses,      \* socket addresses
    Clients         \* at most this many connections are open at once

VARIABLES
    config,         \* the configuration, as the file and the environment give it
    taken,          \* addresses bound by other processes
    pc,             \* where main is
    hub,            \* what build_hub has put together so far
    bound,          \* the address each listener is bound to
    tasks,          \* the accept task of each listener
    joins,          \* run's vector of join handles, in the order of the pushes
    conns,          \* number of open connection tasks
    armed,          \* the handlers of shutdown_signal are installed
    signalled,      \* SIGINT or SIGTERM has been raised
    exit            \* what serve returned; the exit status once pc = "exited"

vars == <<config, taken, pc, hub, bound, tasks, joins, conns, armed, signalled, exit>>

Listeners == <<"ws", "sse", "admin">>

ASSUME ServerAssumption ==
    /\ Clients \in Nat
    /\ None \notin Addresses \cup {"SUCCESS", "RUNTIME_ERROR", "CONFIG_ERROR", "KILLED"}
    /\ \A c \in Configs :
          /\ c.ws \in Addresses
          /\ c.sse \in Addresses \cup {None}
          /\ c.admin.listen \in Addresses
          /\ Len(c.namespaces) \in Nat
          /\ DOMAIN c.namespaces = 1..Len(c.namespaces)

-----------------------------------------------------------------------------
(* The configuration.                                                      *)

\* The address a listener is to be bound to, None when it is not enabled.
Listen(l) ==
    CASE l = "ws"    -> config.ws
      [] l = "sse"   -> config.sse
      [] l = "admin" -> IF config.admin.enabled THEN config.admin.listen ELSE None

Enabled == {l \in Range(Listeners) : Listen(l) # None}

\* Exactly one of the two sources of a namespace's schema is set.
validate_schema_source(ns) == (ns.schema = None) # (ns.schema_path = None)

\* The document that a namespace's schema is compiled from: inline, or the
\* content of the file, which may be missing or not be JSON.
Document(ns) == IF ns.schema # None THEN ns.schema ELSE ns.schema_path

SchemaCompiles(ns) == validate_schema_source(ns) /\ Document(ns) = "schema"

build_broker(cfg) ==
    \/ cfg.backend = "Memory"
    \/ cfg.backend = "Redis" /\ cfg.redis_url # None
    \/ cfg.backend = "Nats" /\ cfg.nats_url # None

build_authenticator(cfg) == cfg # ""

RuleCompiles(rule) == rule.channel = "glob" /\ (rule.subject = None \/ rule.subject = "glob")

build_acl(cfg) == cfg = None \/ \A i \in DOMAIN cfg : RuleCompiles(cfg[i])

\* What every section of a configuration must satisfy for a hub to be built.
Sound(c) ==
    /\ build_broker(c.broker)
    /\ \A i \in DOMAIN c.namespaces : SchemaCompiles(c.namespaces[i])
    /\ build_authenticator(c.auth)
    /\ build_acl(c.acl)

-----------------------------------------------------------------------------
(* Start-up.                                                               *)

NoHub == [broker |-> None, schemas |-> 0, authenticator |-> None, acl |-> None]

Init ==
    /\ config \in Configs
    /\ taken = {}
    /\ pc = "load"
    /\ hub = NoHub
    /\ bound = [l \in Range(Listeners) |-> None]
    /\ tasks = [l \in Range(Listeners) |-> "none"]
    /\ joins = <<>>
    /\ conns = 0
    /\ armed = FALSE
    /\ signalled = FALSE
    /\ exit = None

\* serve returns, and with it block_on; exit_code_for_error maps the outcome.
\* Join handles that go out of scope here detach their tasks.
Return(status) == pc' = "dropping" /\ exit' = status

Undisturbed == UNCHANGED <<config, taken, conns, armed, signalled>>

\* A figment error is the only one that the exit code calls a config error.
Load ==
    /\ pc = "load"
    /\ \/ config.loads /\ pc' = "broker" /\ UNCHANGED exit
       \/ config.loads /\ Return("RUNTIME_ERROR")   \* no tokio runtime
       \/ ~config.loads /\ Return("CONFIG_ERROR")
    /\ Undisturbed /\ UNCHANGED <<hub, bound, tasks, joins>>

\* The redis and nats back ends connect here, which may fail.
BuildBroker ==
    /\ pc = "broker"
    /\ \/ /\ build_broker(config.broker)
          /\ hub' = [hub EXCEPT !.broker = config.broker.backend]
          /\ pc' = "schema"
          /\ UNCHANGED exit
       \/ /\ ~build_broker(config.broker) \/ config.broker.backend # "Memory"
          /\ Return("RUNTIME_ERROR")
          /\ UNCHANGED hub
    /\ Undisturbed /\ UNCHANGED <<bound, tasks, joins>>

\* One round of build_schema_registry's loop over the namespaces; the first
\* declaration that is malformed or does not compile fails the boot.
BuildSchema ==
    LET n == hub.schemas + 1 IN
    /\ pc = "schema"
    /\ \/ /\ n \in DOMAIN config.namespaces
          /\ SchemaCompiles(config.namespaces[n])
          /\ hub' = [hub EXCEPT !.schemas = n]
          /\ UNCHANGED <<pc, exit>>
       \/ /\ n \in DOMAIN config.namespaces
          /\ ~SchemaCompiles(config.namespaces[n])
          /\ Return("RUNTIME_ERROR")
          /\ UNCHANGED hub
       \/ /\ n \notin DOMAIN config.namespaces
          /\ pc' = "auth"
          /\ UNCHANGED <<hub, exit>>
    /\ Undisturbed /\ UNCHANGED <<bound, tasks, joins>>

BuildAuthenticator ==
    /\ pc = "auth"
    /\ IF build_authenticator(config.auth)
       THEN /\ hub' = [hub EXCEPT !.authenticator =
                         IF config.auth = None THEN "allow-all" ELSE "jwt"]
            /\ pc' = "acl"
            /\ UNCHANGED exit
       ELSE Return("RUNTIME_ERROR") /\ UNCHANGED hub
    /\ Undisturbed /\ UNCHANGED <<bound, tasks, joins>>

BuildAcl ==
    /\ pc = "acl"
    /\ IF build_acl(config.acl)
       THEN /\ hub' = [hub EXCEPT !.acl =
                         IF config.acl = None THEN "allow-all" ELSE "namespace"]
            /\ pc' = "ws"
            /\ UNCHANGED exit
       ELSE Return("RUNTIME_ERROR") /\ UNCHANGED hub
    /\ Undisturbed /\ UNCHANGED <<bound, tasks, joins>>

\* The step of run after the one for listener l.
After(l) ==
    CASE l = "ws"    -> "sse"
      [] l = "sse"   -> "admin"
      [] l = "admin" -> "listening"

Free(a) == a \notin taken /\ \A l \in DOMAIN bound : bound[l] # a

\* Mutant: a listener that cannot be bound is left out.
BindSkipsFailed(l) ==
    /\ pc = l
    /\ pc' = After(l)
    /\ IF l \in Enabled /\ Free(Listen(l))
       THEN /\ bound' = [bound EXCEPT ![l] = Listen(l)]
            /\ tasks' = [tasks EXCEPT ![l] = "running"]
            /\ joins' = Append(joins, l)
       ELSE UNCHANGED <<bound, tasks, joins>>
    /\ Undisturbed /\ UNCHANGED <<hub, exit>>

\* Mutant: an address in use is tried again until it is free.
BindRetries(l) ==
    /\ pc = l
    /\ IF l \in Enabled
       THEN /\ Free(Listen(l))
            /\ bound' = [bound EXCEPT ![l] = Listen(l)]
            /\ tasks' = [tasks EXCEPT ![l] = "running"]
            /\ joins' = Append(joins, l)
       ELSE UNCHANGED <<bound, tasks, joins>>
    /\ pc' = After(l)
    /\ Undisturbed /\ UNCHANGED <<hub, exit>>

\* Binds a listener and spawns its accept task, which accepts from then on.
\* A failed bind leaves run early: the tasks spawned before it are detached.
Bind(l) ==
    /\ pc = l
    /\ \/ /\ l \in Enabled /\ Free(Listen(l))
          /\ bound' = [bound EXCEPT ![l] = Listen(l)]
          /\ tasks' = [tasks EXCEPT ![l] = "running"]
          /\ joins' = Append(joins, l)
          /\ pc' = After(l)
          /\ UNCHANGED exit
       \/ /\ l \in Enabled /\ ~Free(Listen(l))
          /\ Return("RUNTIME_ERROR")
          /\ joins' = <<>>
          /\ UNCHANGED <<bound, tasks>>
       \/ /\ l \notin Enabled
          /\ pc' = After(l)
          /\ UNCHANGED <<bound, tasks, joins, exit>>
    /\ Undisturbed /\ UNCHANGED hub

\* The log line "cherenkov-server listening".
Announce ==
    /\ pc = "listening"
    /\ pc' = "announced"
    /\ Undisturbed /\ UNCHANGED <<hub, bound, tasks, joins, exit>>

\* The first poll of select!, which installs the signal handlers (unless it
\* polls wait first and finds it ready).
EnterSelect ==
    /\ pc = "announced"
    /\ pc' = "waiting"
    /\ armed' = TRUE
    /\ UNCHANGED <<config, taken, hub, bound, tasks, joins, conns, signalled, exit>>

-----------------------------------------------------------------------------
(* Service and shutdown.                                                   *)

\* An accept task that has ended: its serve call returned, failed or panicked.
Ended(l) == tasks[l] \in {"ok", "err", "panic"}

\* Mutant: a failed accept task is not reported.
OutcomeIgnored(l) == "SUCCESS"

\* wait's result for the task: the inner result, or ServerError::Task.
Outcome(l) == IF tasks[l] = "ok" THEN "SUCCESS" ELSE "RUNTIME_ERROR"

\* Mutant: wait joins all accept tasks.
WaitForAll ==
    /\ pc \in {"announced", "waiting"}
    /\ \A i \in DOMAIN joins : Ended(joins[i])
    /\ Return(Outcome(joins[1]))
    /\ joins' = <<>>
    /\ Undisturbed /\ UNCHANGED <<hub, bound, tasks>>

\* select_all yields the first handle that is ready, in the order of the
\* vector, whatever its result is; the other tasks are aborted.  select! is
\* not biased: its first poll may get here before the handlers are there.
Wait ==
    /\ pc \in {"announced", "waiting"}
    /\ \E i \in DOMAIN joins :
          /\ Ended(joins[i])
          /\ \A k \in 1..(i - 1) : ~Ended(joins[k])
          /\ Return(Outcome(joins[i]))
          /\ tasks' = [l \in DOMAIN tasks |->
                         IF tasks[l] = "running" THEN "aborting" ELSE tasks[l]]
    /\ joins' = <<>>
    /\ Undisturbed /\ UNCHANGED <<hub, bound>>

\* The other branch of serve's select!: wait's future is dropped, and the
\* join handles in it, which aborts nothing.
ShutdownSignal ==
    /\ pc = "waiting"
    /\ signalled
    /\ Return("SUCCESS")
    /\ joins' = <<>>
    /\ Undisturbed /\ UNCHANGED <<hub, bound, tasks>>

\* The runtime is dropped when run_cli returns: it cancels whatever task is
\* still there at its next yield and waits for it.
DropTask(l) ==
    /\ tasks[l] = "aborting" \/ (pc = "dropping" /\ tasks[l] = "running")
    /\ tasks' = [tasks EXCEPT ![l] = "cancelled"]
    /\ bound' = [bound EXCEPT ![l] = None]
    /\ UNCHANGED <<config, taken, pc, hub, joins, conns, armed, signalled, exit>>

DropConnection ==
    /\ pc = "dropping"
    /\ conns > 0
    /\ conns' = conns - 1
    /\ UNCHANGED <<config, taken, pc, hub, bound, tasks, joins, armed, signalled, exit>>

Exit ==
    /\ pc = "dropping"
    /\ conns = 0
    /\ \A l \in DOMAIN tasks : tasks[l] \notin {"running", "aborting"}
    /\ pc' = "exited"
    /\ Undisturbed /\ UNCHANGED <<hub, bound, tasks, joins, exit>>

-----------------------------------------------------------------------------
(* The accept tasks, the clients and the operating system.                 *)

\* The future of a serve call ends; the listener in it is closed.
TaskEnds(l, how) ==
    /\ tasks[l] = "running"
    /\ tasks' = [tasks EXCEPT ![l] = how]
    /\ bound' = [bound EXCEPT ![l] = None]
    /\ UNCHANGED <<config, taken, pc, hub, joins, conns, armed, signalled, exit>>

\* A connection is a task of its own: it outlives the accept task.
Accept(l) ==
    /\ tasks[l] \in {"running", "aborting"}
    /\ conns < Clients
    /\ conns' = conns + 1
    /\ UNCHANGED <<config, taken, pc, hub, bound, tasks, joins, armed, signalled, exit>>

Leave ==
    /\ conns > 0
    /\ conns' = conns - 1
    /\ UNCHANGED <<config, taken, pc, hub, bound, tasks, joins, armed, signalled, exit>>

\* Another process binds an address (it matters only until the binds are done).
Occupy(a) ==
    /\ Free(a)
    /\ pc \in {"load", "ws", "sse", "admin"}
    /\ taken' = taken \cup {a}
    /\ UNCHANGED <<config, pc, hub, bound, tasks, joins, conns, armed, signalled, exit>>

\* Before the handlers are installed a signal has its default effect; after
\* it, and until the process is gone, it is only noted.
Signal ==
    /\ pc # "exited"
    /\ ~signalled
    /\ signalled' = TRUE
    /\ IF armed
       THEN UNCHANGED <<pc, bound, tasks, conns, exit>>
       ELSE /\ pc' = "exited"
            /\ exit' = "KILLED"
            /\ bound' = [l \in DOMAIN bound |-> None]
            /\ tasks' = [l \in DOMAIN tasks |->
                           IF tasks[l] \in {"running", "aborting"} THEN "cancelled" ELSE tasks[l]]
            /\ conns' = 0
    /\ UNCHANGED <<config, taken, hub, joins, armed>>

Terminated == pc = "exited" /\ UNCHANGED vars

Main ==
    \/ Load \/ BuildBroker \/ BuildSchema \/ BuildAuthenticator \/ BuildAcl
    \/ \E l \in Range(Listeners) : Bind(l)
    \/ Announce \/ EnterSelect \/ Wait \/ ShutdownSignal \/ Exit

Environment ==
    \/ \E l \in Range(Listeners) : Accept(l)
    \/ \E l \in Range(Listeners), how \in {"ok", "err", "panic"} : TaskEnds(l, how)
    \/ \E a \in Addresses : Occupy(a)
    \/ Leave \/ Signal

Next ==
    \/ Main
    \/ \E l \in Range(Listeners) : DropTask(l)
    \/ DropConnection
    \/ Environment
    \/ Terminated

\* The main thread and the runtime's workers are scheduled; broker connects
\* and binds return.  Nothing is assumed of clients, transports or signals.
Spec ==
    /\ Init /\ [][Next]_vars
    /\ WF_vars(Main)
    /\ WF_vars(DropConnection)
    /\ \A l \in Range(Listeners) : WF_vars(DropTask(l))

-----------------------------------------------------------------------------
(* Properties.                                                             *)

TypeOK ==
    /\ config \in Configs
    /\ taken \subseteq Addresses
    /\ pc \in {"load", "broker", "schema", "auth", "acl", "ws", "sse", "admin",
              "listening", "announced", "waiting", "dropping", "exited"}
    /\ hub.schemas \in 0..Len(config.namespaces)
    /\ bound \in [Range(Listeners) -> Addresses \cup {None}]
    /\ tasks \in [Range(Listeners) -> {"none", "running", "aborting", "ok", "err",
                                      "panic", "cancelled"}]
    /\ \A l \in DOMAIN tasks : (tasks[l] \in {"running", "aborting"}) <=> (bound[l] # None)
    /\ IsInjective(joins) /\ Range(joins) \subseteq Enabled
    /\ conns \in 0..Clients
    /\ armed \in BOOLEAN /\ signalled \in BOOLEAN
    /\ exit \in {None, "SUCCESS", "RUNTIME_ERROR", "CONFIG_ERROR", "KILLED"}

\* "cherenkov-server listening" is logged only when every listener that the
\* configuration enables was bound and has an accept task whose handle wait
\* watches; and no client is ever accepted under a configuration with a
\* broken section, or before all of its sections are in the hub
\* (app.rs run and build_hub: "misconfiguration fails the boot").
ListeningMeansServing ==
    /\ pc \in {"announced", "waiting"} => Range(joins) = Enabled
    /\ \A l \in DOMAIN tasks : tasks[l] # "none" =>
          /\ config.loads /\ Sound(config)
          /\ hub.broker = config.broker.backend
          /\ hub.schemas = Len(config.namespaces)
          /\ (hub.authenticator = "allow-all") <=> (config.auth = None)
          /\ (hub.acl = "allow-all") <=> (config.acl = None)

\* run has bound and spawned everything the configuration enables.
Up == \A l \in Enabled : tasks[l] # "none"

\* What a supervisor may conclude from the exit status: success means that
\* every listener was up, until a signal arrived or an accept task returned
\* without an error; a runtime error of a server that was up means that an
\* accept task failed or panicked; a config error means that the
\* configuration is at fault, and a file that does not load has no other
\* status (main.rs serve, exit_code_for_error).
ExitTellsWhy ==
    /\ exit = "SUCCESS" =>
          Up /\ ((armed /\ signalled) \/ \E l \in DOMAIN tasks : tasks[l] = "ok")
    /\ exit = "RUNTIME_ERROR" /\ Up => \E l \in DOMAIN tasks : tasks[l] \in {"err", "panic"}
    /\ exit = "CONFIG_ERROR" => ~(config.loads /\ Sound(config))
    /\ ~config.loads => exit \in {None, "CONFIG_ERROR", "KILLED"}
    /\ pc = "exited" => exit # None

\* A server that is up stops as soon as one accept task has ended, or a
\* signal was raised once it listens for them: the process never lives on
\* with a listener missing, and neither open connections nor the other
\* listeners keep it from exiting (ServerRunHandle::wait, main.rs serve, the
\* drop of the runtime).
StopsWhenItShould ==
    (Up /\ \E l \in Enabled : Ended(l)) \/ (armed /\ signalled) ~> pc = "exited"

\* A start either reaches the log line or ends the process, although the
\* tasks it spawned before a failed bind are detached and still accept
\* clients (app.rs run, the early returns after the first spawn).
StartSettles == <>(armed \/ pc = "exited")
=============================================================================

----------------------------- MODULE RuntimeBuild -----------------------------
(***************************************************************************)
(* From project.yml to a running process and back: RuntimeBuilder of       *)
(* runtime/mod.rs (build_async and build_inner), the start of the MCP      *)
(* servers, of the connectors and outputs (connectors/registry.rs over     *)
(* plugin/registry.rs), and what cli/serve.rs and cli/run.rs do around it. *)
(*                                                                         *)
(* A configuration is a record:                                            *)
(*   servers    sequence of [name, filter, list, command, attempts,        *)
(*              approval, no_resume]; filter is "none", "allow", "deny" or *)
(*              "both", attempts is 2 without restart:, else 1 + its       *)
(*              max_restarts                                               *)
(*   tools      declarative tools, python  the discovered Python tools     *)
(*   backend    "sqlite" or "postgres"; injected: with_store was called    *)
(*   llm        "ok", "bad", "absent"; agent: a pipeline has an agent step *)
(*   connectors, outputs  sequences of [name, entry], entry one of "ok",   *)
(*              "malformed", "unknown_type", "bad_config"                  *)
(***************************************************************************)
EXTENDS ToolCatalog

CONSTANTS
    Configs,    \* the configurations to start from
    Advertised  \* server name -> the tool lists it may advertise

VARIABLES
    cfg,       \* the configuration
    pc,        \* where the start-up is
    at,        \* the server (or plugin) being started
    attempt,   \* connection attempts made for it
    process,   \* server index -> "none", "up", "dead"
    imported,  \* server index -> its filtered tools; not in the domain: not registered
    failures,  \* the servers that could not be started, in order
    bus_store, \* the store under the event bus: 0 none, 1 injected, 2.. opened
    store,     \* Runtime.store
    opened,    \* stores opened by the build
    catalog,   \* the tool catalog
    told,      \* published lifecycle events: [what, server]
    plugins,   \* the connectors and outputs that run, by name
    outcome    \* "none", "ok" or why the build failed

vars == <<cfg, pc, at, attempt, process, imported, failures, bus_store, store, opened,
          catalog, told, plugins, outcome>>

Servers == DOMAIN cfg.servers
Server(i) == cfg.servers[i]

Init ==
    /\ cfg \in Configs
    /\ pc = "start"
    /\ at = 1
    /\ attempt = 0
    /\ process = [i \in DOMAIN cfg.servers |-> "none"]
    /\ imported = NoEntries
    /\ failures = << >>
    /\ bus_store = 0
    /\ store = 0
    /\ opened = 0
    /\ catalog = BuiltinOnly
    /\ told = << >>
    /\ plugins = {}
    /\ outcome = "none"

(* An error drops whatever was built: kill_on_drop ends the servers. *)
Fail(why) ==
    /\ pc' = "failed"
    /\ outcome' = why
    /\ process' = [i \in Servers |-> IF process[i] = "up" THEN "dead" ELSE process[i]]
-----------------------------------------------------------------------------
BuildsAtOnce == cfg.servers = << >> /\ cfg.connectors = << >> /\ cfg.outputs = << >>

(* build_async: without servers and plugins it is build_inner; else the    *)
(* bus is needed early (resolve_bus_for_startup_async).                    *)
BuildAsync ==
    /\ pc = "start"
    /\ IF BuildsAtOnce
       THEN /\ pc' = "inner"
            /\ UNCHANGED <<bus_store, opened, outcome, process>>
       ELSE \/ /\ cfg.injected
               /\ bus_store' = 1
               /\ pc' = "preflight"
               /\ UNCHANGED <<opened, outcome, process>>
            \/ /\ ~cfg.injected
               /\ opened' = opened + 1
               /\ bus_store' = opened + 2
               /\ pc' = "preflight"
               /\ UNCHANGED <<outcome, process>>
            \/ /\ ~cfg.injected
               /\ Fail("store_open")
               /\ UNCHANGED <<bus_store, opened>>
    /\ UNCHANGED <<cfg, at, attempt, imported, failures, store, catalog, told, plugins>>

(* spawn_mcp_servers begins with all the errors of the configuration. *)
Preflight ==
    /\ pc = "preflight"
    /\ IF \A i \in Servers :
              /\ Server(i).filter # "both"
              /\ \A j \in Servers : Server(i).name = Server(j).name => i = j
              /\ ValidSegment(Server(i).name)
              /\ Server(i).command
       THEN pc' = "connect" /\ UNCHANGED <<outcome, process>>
       ELSE Fail("mcp_config")
    /\ UNCHANGED <<cfg, at, attempt, imported, failures, bus_store, store, opened, catalog,
                   told, plugins>>

(* filter_mcp_tools *)
Filter(i, tools) ==
    SelectSeq(tools, LAMBDA t : \/ Server(i).filter = "allow" /\ t \in Server(i).list
                                \/ Server(i).filter = "deny" /\ t \notin Server(i).list)

(* connect_and_list succeeds: the server is registered with what the       *)
(* filter leaves of its tools.                                             *)
Connected ==
    /\ pc = "connect"
    /\ at \in Servers
    /\ \E tools \in Advertised[Server(at).name] :
          imported' = Merge(imported, [i \in {at} |-> Filter(at, tools)])
    /\ process' = [process EXCEPT ![at] = "up"]
    /\ at' = at + 1
    /\ attempt' = 0
    /\ UNCHANGED <<cfg, pc, failures, bus_store, store, opened, catalog, told, plugins, outcome>>

(* A server that could not be started is registered with no tools. *)
ConnectFails_registers ==
    /\ pc = "connect"
    /\ at \in Servers
    /\ process' = [process EXCEPT ![at] = "dead"]
    /\ IF attempt + 1 >= Server(at).attempts
       THEN /\ imported' = Merge(imported, [i \in {at} |-> << >>])
            /\ failures' = Append(failures, at)
            /\ at' = at + 1
            /\ attempt' = 0
       ELSE /\ attempt' = attempt + 1
            /\ UNCHANGED <<failures, at, imported>>
    /\ UNCHANGED <<cfg, pc, bus_store, store, opened, catalog, told, plugins, outcome>>

(* The spawn, the handshake or the listing fails, and no process is left;  *)
(* after the last attempt the next server has its turn.                    *)
ConnectFails ==
    /\ pc = "connect"
    /\ at \in Servers
    /\ process' = [process EXCEPT ![at] = "dead"]
    /\ IF attempt + 1 >= Server(at).attempts
       THEN /\ failures' = Append(failures, at)
            /\ at' = at + 1
            /\ attempt' = 0
       ELSE /\ attempt' = attempt + 1
            /\ UNCHANGED <<failures, at>>
    /\ UNCHANGED <<cfg, pc, imported, bus_store, store, opened, catalog, told, plugins, outcome>>

(* One McpServerDisconnected for each failure. *)
TellFailures ==
    /\ pc = "connect"
    /\ at \notin Servers
    /\ told' = told \o [k \in DOMAIN failures |-> [what |-> "disconnected", server |-> failures[k]]]
    /\ pc' = "inner"
    /\ at' = 1
    /\ UNCHANGED <<cfg, attempt, process, imported, failures, bus_store, store, opened, catalog,
                   plugins, outcome>>
-----------------------------------------------------------------------------
(* The catalog of build_inner.  The servers are a hash map: the order in   *)
(* which they are added is open, and no order changes whether it succeeds. *)
Catalog ==
    LET Add(c, i) == IF i \in DOMAIN imported
                     THEN AddMcpServer(c, Server(i).name, imported[i], Server(i).approval,
                                       Server(i).no_resume)
                     ELSE c
        base == WithDeclarative(cfg.tools)
        mcp == FoldLeft(Add, base, [i \in Servers |-> i])
    IN IF base.error # "none" THEN base
       ELSE IF mcp.error # "none" THEN mcp ELSE AddPythonTools(mcp, cfg.python)

(* build_inner: store and bus, provider, catalog.  It looks for an         *)
(* injected store only, not for the one under the bus it is given; what    *)
(* project.store says may not resolve, and the store may not open.         *)
BuildInner ==
    /\ pc = "inner"
    /\ \/ /\ \/ (~cfg.injected \/ ~BuildsAtOnce) /\ Fail("store_open")
             \/ ~cfg.injected /\ cfg.backend # "sqlite" /\ Fail("requires_async")
          /\ UNCHANGED <<bus_store, store, opened, catalog>>
       \/ /\ cfg.injected \/ cfg.backend = "sqlite"
          /\ LET s == IF cfg.injected THEN 1 ELSE opened + 2 IN
                /\ opened' = IF cfg.injected THEN opened ELSE opened + 1
                /\ store' = s
                /\ bus_store' = IF bus_store = 0 THEN s ELSE bus_store
          /\ \/ /\ cfg.llm = "bad" \/ (cfg.llm = "absent" /\ cfg.agent)
                /\ Fail("provider")
                /\ UNCHANGED catalog
             \/ /\ ~(cfg.llm = "bad" \/ (cfg.llm = "absent" /\ cfg.agent))
                /\ catalog' = Catalog
                /\ IF Catalog.error # "none" THEN Fail(Catalog.error)
                   ELSE pc' = "announce" /\ UNCHANGED <<outcome, process>>
    /\ UNCHANGED <<cfg, at, attempt, imported, failures, told, plugins>>

(* One McpServerConnected for each server of the registry. *)
TellConnected ==
    /\ pc = "announce"
    /\ \E order \in SetToSeqs(DOMAIN imported) :
          told' = told \o [k \in DOMAIN order |-> [what |-> "connected", server |-> order[k]]]
    /\ pc' = IF BuildsAtOnce THEN "built" ELSE "cursors"
    /\ UNCHANGED <<cfg, at, attempt, process, imported, failures, bus_store, store, opened,
                   catalog, plugins, outcome>>

(* open_cursor_store, whatever the sections hold. *)
OpenCursorStore ==
    /\ pc = "cursors"
    /\ \/ pc' = "connectors" /\ UNCHANGED <<outcome, process>>
       \/ Fail("cursor_store")
    /\ UNCHANGED <<cfg, at, attempt, imported, failures, bus_store, store, opened, catalog, told,
                   plugins>>

(* PluginRegistry::build_all: the whole section is built before any of it  *)
(* is started, and one bad entry or a name used twice refuses the section. *)
BuildAll(entries) ==
    /\ \A k \in DOMAIN entries : entries[k].entry = "ok"
    /\ \A j, k \in DOMAIN entries : entries[j].name = entries[k].name => j = k

(* spawn_connectors and spawn_outputs: each that starts runs; one that     *)
(* does not is only reported.  The error of a section drops the handles    *)
(* of the other one, which stops none of its tasks.                        *)
SpawnSection(section, entries, next) ==
    /\ pc = section
    /\ IF BuildAll(entries)
       THEN /\ \E up \in SUBSET {entries[k].name : k \in DOMAIN entries} :
                  plugins' = plugins \cup {[section |-> section, name |-> n] : n \in up}
            /\ pc' = next
            /\ UNCHANGED <<outcome, process>>
       ELSE /\ Fail(section)
            /\ UNCHANGED plugins
    /\ UNCHANGED <<cfg, at, attempt, imported, failures, bus_store, store, opened, catalog, told>>

SpawnConnectors == SpawnSection("connectors", cfg.connectors, "outputs")
SpawnOutputs == SpawnSection("outputs", cfg.outputs, "built")
-----------------------------------------------------------------------------
(* serve_loop and exec of zymi run after the build: the approval channels  *)
(* are started, and an error there returns at once.                        *)
StartChannels ==
    /\ pc = "built"
    /\ \/ pc' = "running" /\ outcome' = "ok" /\ UNCHANGED process
       \/ Fail("approval_channels")
    /\ UNCHANGED <<cfg, at, attempt, imported, failures, bus_store, store, opened, catalog, told,
                   plugins>>

(* shutdown_connectors: every plugin is cancelled and awaited in turn. *)
ShutdownConnectors ==
    /\ pc = "running"
    /\ plugins' = {}
    /\ pc' = "stopping"
    /\ UNCHANGED <<cfg, at, attempt, process, imported, failures, bus_store, store, opened,
                   catalog, told, outcome>>

(* shutdown_mcp: every process is waited for or killed, then each server   *)
(* of the registry is reported.                                            *)
ShutdownMcp ==
    /\ pc = "stopping"
    /\ process' = [i \in Servers |-> IF i \in DOMAIN imported THEN "dead" ELSE process[i]]
    /\ \E order \in SetToSeqs(DOMAIN imported) :
          told' = told \o [k \in DOMAIN order |-> [what |-> "disconnected", server |-> order[k]]]
    /\ pc' = "stopped"
    /\ UNCHANGED <<cfg, at, attempt, imported, failures, bus_store, store, opened, catalog,
                   plugins, outcome>>

Next ==
    \/ BuildAsync \/ Preflight \/ Connected \/ ConnectFails \/ TellFailures
    \/ BuildInner \/ TellConnected \/ OpenCursorStore \/ SpawnConnectors \/ SpawnOutputs
    \/ StartChannels \/ ShutdownConnectors \/ ShutdownMcp

Spec == Init /\ [][Next]_vars
-----------------------------------------------------------------------------
TypeOK ==
    /\ cfg \in Configs
    /\ pc \in {"start", "preflight", "connect", "inner", "announce", "cursors", "connectors", "outputs",
               "built", "running", "stopping", "stopped", "failed"}
    /\ at \in 1..(Len(cfg.servers) + 1)
    /\ attempt \in Nat
    /\ process \in [Servers -> {"none", "up", "dead"}]
    /\ DOMAIN imported \subseteq Servers
    /\ failures \in Seq(Servers)
    /\ {bus_store, store} \subseteq 0..3
    /\ opened \in 0..2
    /\ told \in Seq([what : {"connected", "disconnected"}, server : Servers])
    /\ \A p \in plugins : p.section \in {"connectors", "outputs"}
    /\ outcome \in STRING

(* A process that runs knows every tool by one name in one layer, gates    *)
(* what it runs, and has no MCP tool but those that the configuration lets *)
(* in, each behind a live server of its own and marked as that server is.  *)
CatalogSound ==
    pc = "running" =>
        /\ OneLayer(catalog)
        /\ GateMatchesRoute(catalog)
        /\ \A name \in Names(catalog, "mcp") :
              \E i \in DOMAIN imported :
                 /\ Server(i).name = McpRoute(catalog, name).server
                 /\ process[i] = "up"
                 /\ Server(i).filter = "allow" => McpRoute(catalog, name).tool \in Server(i).list
                 /\ Server(i).filter = "deny" => McpRoute(catalog, name).tool \notin Server(i).list
                 /\ Server(i).filter # "none"
                 /\ RequiresApproval(catalog, name) = Server(i).approval
                 /\ NeverResumed(catalog, name) <=>
                       McpRoute(catalog, name).tool \in Server(i).no_resume

ToldOf(i) == SelectSeq(told, LAMBDA e : e.server = i)

(* The lifecycle events tell the truth: of a server that runs a            *)
(* `connected` is the last word, of one that was tried in vain or stopped  *)
(* a `disconnected`, and no server is left running behind a failed build   *)
(* or a finished process; a process that has finished has no plugin left   *)
(* either.                                                                 *)
LifecycleTold ==
    /\ pc = "running" =>
          \A i \in Servers :
             /\ ToldOf(i) # << >>
             /\ process[i] = "up" <=> Last(ToldOf(i)).what = "connected"
    /\ pc = "stopped" =>
          \A i \in Servers : Len(ToldOf(i)) \in 1..2 /\ Last(ToldOf(i)).what = "disconnected"
    /\ pc \in {"failed", "stopped"} => \A i \in Servers : process[i] # "up"
    /\ pc = "stopped" => plugins = {}

(* connectors/registry.rs:56 "Config-shape errors (duplicate names,        *)
(* missing `type:`) are hard errors returned upfront": a build refused for *)
(* the shape of an entry has started no plugin.                            *)
ShapeRefusedUpfront == outcome \in {"connectors", "outputs"} => plugins = {}

(* "any other configured backend (e.g. Postgres) requires going through    *)
(* `build_async` so the connect can await": build_async never fails        *)
(* because it was not build_async.                                         *)
AsyncOpensAny == outcome # "requires_async"
=============================================================================

-------------------------------- MODULE Deploy --------------------------------
(***************************************************************************)
(* The commands of dio-serve/src/dio/cli.py in one working directory, with   *)
(* config_file.py behind them: init (which probes the local ports and writes *)
(* dio.yaml), check-config, config and serve, and a person who edits the     *)
(* file.                                                                    *)
(*                                                                         *)
(* A configuration file is a record: what the YAML parser makes of it, its   *)
(* backend entries and the settings in its sections.  YAML has numbers, and  *)
(* loading coerces neither an id nor a tier nor a setting that should be     *)
(* text: e.odd and f.oddSetting say which are none.  An exception no command *)
(* catches ends the process with a traceback and status 1.                   *)
(***************************************************************************)
EXTENDS ModelTable

CONSTANTS Files,          \* what a person may put into dio.yaml
          FlagSets,       \* the options dio serve is called with
          LocalEngines,   \* ports init probes, in order: [id, fallback]
          Listings,       \* what an engine on such a port may report
          NonStringNames, \* names YAML reads as a number, a date or a boolean
          NoFile, NoGateway, NoEngine, Unset,
          MaxCommands     \* bound: commands of the operator

ASSUME DeployAssumption == Unset \notin {0, 1, 2}

\* Who writes a file by hand is not init, and an engine lists its models.
ASSUME FilesAssumption ==
    /\ \A f \in Files : f.by # "init" /\ f.found = <<>>
    /\ \A models \in Listings : models \in Seq(ToSet(models))

VARIABLES file,      \* dio.yaml (with what init found, if init wrote it), or NoFile
          engines,   \* [port |-> what runs there, or NoEngine]
          scan,      \* init between two probes: [on, port, found]
          gw,        \* the running gateway, or NoGateway
          verdicts,  \* exit status of the commands that read the present file
          commands

deployVars == <<file, engines, scan, gw, verdicts, commands>>

Ports == DOMAIN LocalEngines
Defaults == [strategy |-> "nlms", slo |-> 5000, port |-> 8085]
Failures == {"missing", "config_error", "parse_error", "crash"}
NoScan == [on |-> FALSE, port |-> 1, found |-> <<>>]

-----------------------------------------------------------------------------
(* load_config_file                                                        *)

\* A missing or refused URL is a ValueError, which becomes a ConfigError; an
\* entry that is no mapping or a model name that is no string is a TypeError
\* or an AttributeError, which nothing catches.  The names are joined after the
\* URL was found and before it is vetted.
EntryProblem(e) ==
    IF e.kind = "scalar" THEN "crash"
    ELSE IF e.url = "missing" THEN "config_error"
    ELSE IF ToSet(e.models) \cap NonStringNames # {} THEN "crash"
    ELSE IF e.url # "ok" THEN "config_error" ELSE "none"

\* float(), int() and DIOConfig raise outside the try block.
LoadProblem(f) ==
    IF f = NoFile THEN "missing"
    ELSE IF f.form = "malformed" THEN "parse_error"
    ELSE IF f.form # "mapping" THEN "config_error"
    ELSE LET bad == {i \in DOMAIN f.entries : EntryProblem(f.entries[i]) # "none"}
         IN  IF bad # {} THEN EntryProblem(f.entries[Min(bad)])
             ELSE IF f.badValue THEN "crash" ELSE "none"

\* The tables serve and config print: add_row refuses what is not text, and so
\* does the join of the ids a model is bound to.
BackendRowRaises(e) == e.odd # {}
RoutingRowRaises(e) == "id" \in e.odd /\ e.models # <<>>

\* config prints both tables after loading.
ShowProblem(f) ==
    IF LoadProblem(f) # "none" THEN LoadProblem(f)
    ELSE IF \E i \in DOMAIN f.entries : BackendRowRaises(f.entries[i]) \/ RoutingRowRaises(f.entries[i])
         THEN "crash" ELSE "none"

\* serve prints the backends it will use, which the flags may have replaced,
\* and the bindings of the file; the gateway then lower-cases the settings.
ServeProblem(f, byFlags) ==
    IF LoadProblem(f) # "none" THEN LoadProblem(f)
    ELSE IF \/ f.oddSetting
            \/ \E i \in DOMAIN f.entries : \/ ~byFlags /\ BackendRowRaises(f.entries[i])
                                           \/ RoutingRowRaises(f.entries[i])
         THEN "crash" ELSE "none"

\* _parse_backend: the first model is the backend's own.
ParseBackend(e) ==
    [id |-> e.id, model |-> IF e.models = <<>> THEN NoModel ELSE e.models[1]]

\* model_map.setdefault(model_name, []).append(b.id) for every entry.
ModelMap(entries) == [i \in DOMAIN entries |-> [names |-> entries[i].models, ids |-> {entries[i].id}]]

\* The settings a file gives, over the defaults of DIOConfig.
FileConfig(f) == [k \in DOMAIN Defaults |-> IF f.settings[k] = Unset THEN Defaults[k] ELSE f.settings[k]]

\* BackendPool: a later backend of the same id takes the place of the earlier
\* one, so that both places hold it.
PoolOf(backends) ==
    [i \in DOMAIN backends |->
        backends[Max({j \in DOMAIN backends : backends[j].id = backends[i].id})]]

-----------------------------------------------------------------------------
(* serve                                                                   *)

\* _parse_backends: the urls of --backend, without a model.
FlagBackends(flags) == [i \in DOMAIN flags.backends |-> [id |-> flags.backends[i], model |-> NoModel]]
FlagConfig(flags) == [k \in DOMAIN Defaults |-> IF flags.settings[k] = Unset THEN Defaults[k] ELSE flags.settings[k]]

\* discover_config: the dio.yaml of the working directory or above it.
Discovered == file # NoFile

\* --config, or a dio.yaml when there is no --backend.
ReadsFile(flags) == flags.config \/ (flags.backends = <<>> /\ Discovered)

\* With a file only --port (and --host) is looked at, and only when it is not
\* the default; a missing --config falls back to the flags.
Started(flags) ==
    IF ReadsFile(flags) /\ file # NoFile
    THEN [pool |-> PoolOf(IF flags.backends # <<>> THEN FlagBackends(flags)
                          ELSE [i \in DOMAIN file.entries |-> ParseBackend(file.entries[i])]),
          map |-> ModelMap(file.entries),
          cfg |-> [FileConfig(file) EXCEPT !.port =
                     IF FlagConfig(flags).port # Defaults.port THEN FlagConfig(flags).port ELSE @],
          mixed |-> flags.backends # <<>>, found |-> file.found]
    ELSE [pool |-> PoolOf(FlagBackends(flags)), map |-> <<>>, cfg |-> FlagConfig(flags),
          mixed |-> FALSE, found |-> <<>>]

\* Mutant: a traceback is taken for a clean exit.
SwallowedExit(problem) ==
    CASE problem \in {"none", "crash"} -> 0 [] problem = "config_error" -> 2 [] OTHER -> 1

ServeExit(problem) ==
    CASE problem = "none" -> 0 [] problem = "config_error" -> 2 [] OTHER -> 1

Command == commands < MaxCommands /\ commands' = commands + 1 /\ ~scan.on

Serve(flags) ==
    /\ Command /\ gw = NoGateway
    /\ LET problem == IF ReadsFile(flags) THEN ServeProblem(file, flags.backends # <<>>) ELSE "none"
           byFlags == flags.backends # <<>> /\ problem \in {"none", "missing"}
       IN  /\ gw' = IF byFlags \/ (problem = "none" /\ file # NoFile) THEN Started(flags) ELSE gw
           /\ verdicts' = IF ReadsFile(flags) /\ file # NoFile
                          THEN [verdicts EXCEPT !.serve = ServeExit(problem)] ELSE verdicts
    /\ UNCHANGED <<file, engines, scan>>

Stop ==
    /\ gw # NoGateway
    /\ gw' = NoGateway
    /\ UNCHANGED <<file, engines, scan, verdicts, commands>>

\* check-config catches a malformed file as well.
CheckExit(problem) ==
    CASE problem = "none" -> 0 [] problem \in {"config_error", "parse_error"} -> 2 [] OTHER -> 1

\* check-config on dio.yaml stops after loading; config (config_show) prints what
\* it loaded, with the exits of serve.
CheckConfig ==
    /\ Command
    /\ verdicts' = [verdicts EXCEPT !.check = CheckExit(LoadProblem(file))]
    /\ UNCHANGED <<file, engines, scan, gw>>

ConfigShow ==
    /\ Command
    /\ verdicts' = [verdicts EXCEPT !.show = ServeExit(ShowProblem(file))]
    /\ UNCHANGED <<file, engines, scan, gw>>

-----------------------------------------------------------------------------
(* init                                                                    *)

NoVerdicts == [serve |-> Unset, check |-> Unset, show |-> Unset]

\* detect_local_backends: a port that answers gives an entry with the models
\* it lists, or a stand-in name when it lists none.
Detected(port, models) ==
    [kind |-> "mapping", id |-> LocalEngines[port].id, url |-> "ok", odd |-> {},
     models |-> IF models = <<>> THEN <<LocalEngines[port].fallback>> ELSE models]

InitStarts(force) ==
    /\ Command
    /\ file = NoFile \/ force
    /\ scan' = [NoScan EXCEPT !.on = TRUE]
    /\ UNCHANGED <<file, engines, gw, verdicts>>

ProbePort ==
    /\ scan.on /\ scan.port \in Ports
    /\ scan' = [scan EXCEPT !.port = @ + 1,
                            !.found = IF engines[scan.port] = NoEngine THEN @
                                      ELSE Append(@, Detected(scan.port, engines[scan.port]))]
    /\ UNCHANGED <<file, engines, gw, verdicts, commands>>

\* The template names one backend and no engine that was found.
ExampleEntry == [kind |-> "mapping", id |-> "local-gpu", url |-> "ok", odd |-> {},
                 models |-> <<[text |-> <<"llama-3b">>, cased |-> FALSE]>>]

\* Mutant: only the first model of an engine is written.
FirstModelOnly(found) == [i \in DOMAIN found |-> [found[i] EXCEPT !.models = <<@[1]>>]]

\* generate_detected_config writes every model on a line of its own.
WrittenEntries(found) == found

\* The scan is over: generate_detected_config or generate_example_config.
InitWrites ==
    /\ scan.on /\ scan.port \notin Ports
    /\ file' = [form |-> "mapping", badValue |-> FALSE, oddSetting |-> FALSE, by |-> "init",
                entries |-> IF scan.found = <<>> THEN <<ExampleEntry>> ELSE WrittenEntries(scan.found),
                settings |-> [Defaults EXCEPT !.slo = 30000],
                found |-> scan.found]
    /\ scan' = NoScan
    /\ verdicts' = NoVerdicts
    /\ UNCHANGED <<engines, gw, commands>>

\* A person writes, changes or removes the file; an engine starts or stops.
Edit(f) ==
    /\ Command
    /\ file' = f /\ verdicts' = NoVerdicts
    /\ UNCHANGED <<engines, scan, gw>>

EngineChanges(port) ==
    /\ scan.on
    /\ engines' \in {[engines EXCEPT ![port] = m] : m \in Listings \cup {NoEngine}}
    /\ engines' # engines
    /\ UNCHANGED <<file, scan, gw, verdicts, commands>>

-----------------------------------------------------------------------------
DeployInit ==
    /\ file \in Files \cup {NoFile}
    /\ engines \in [Ports -> Listings \cup {NoEngine}]
    /\ scan = NoScan
    /\ gw = NoGateway
    /\ verdicts = NoVerdicts
    /\ commands = 0

DeployNext ==
    \/ \E flags \in FlagSets : Serve(flags)
    \/ Stop \/ CheckConfig \/ ConfigShow
    \/ \E force \in BOOLEAN : InitStarts(force)
    \/ ProbePort \/ InitWrites
    \/ \E f \in Files \cup {NoFile} : Edit(f)
    \/ \E port \in Ports : EngineChanges(port)

DeploySpec == DeployInit /\ [][DeployNext]_deployVars

-----------------------------------------------------------------------------
(* Properties.                                                             *)

\* What dio init found is what dio serve routes: the file it writes loads, and
\* every model an engine listed during the scan resolves to a set with that
\* engine in it, also when two engines list the same model.  YAML scalars
\* that are no strings are the exception.
InitServesWhatItFound ==
    /\ file # NoFile /\ file.by = "init" /\ LoadProblem(file) # "none" =>
          \E i \in DOMAIN file.entries : ToSet(file.entries[i].models) \cap NonStringNames # {}
    /\ gw # NoGateway /\ ~gw.mixed =>
          LET table == Aliases(gw.map, gw.pool)
          IN  \A i \in DOMAIN gw.found : \A n \in ToSet(gw.found[i].models) :
                  Resolve(table, n) = Unrestricted \/ gw.found[i].id \in Resolve(table, n)

\* Ids, tiers and the settings that name something are text.
AllText(f) == ~f.oddSetting /\ \A i \in DOMAIN f.entries : f.entries[i].odd = {}

\* check-config, config and serve agree on a file: none that serve starts with
\* or config shows, with whatever flags, is refused by check-config, and one
\* check-config accepts is served and shown as long as all of it is text.
CommandsAgree ==
    /\ verdicts.serve = 0 \/ verdicts.show = 0 => verdicts.check \in {0, Unset}
    /\ verdicts.check = 0 /\ AllText(file) =>
          verdicts.serve \in {0, Unset} /\ verdicts.show \in {0, Unset}

=============================================================================

--------------------------- MODULE Configuration ----------------------------
(***************************************************************************)
(* From files to running modules: the manifests of module packages         *)
(* (module_manifest.cpp), the configuration that refers to them            *)
(* (config.cpp), and the plan of a reload from one configuration to        *)
(* another (reload.cpp).  TOML values are those of Values.  What descends  *)
(* into options and templates is a parameter: nothing here depends on how. *)
(***************************************************************************)
EXTENDS Values

CONSTANTS
  FaultsOfOption(_),   \* convert_option, of Trees
  EqualOptions(_, _),  \* equal_config_value
  FaultsOfView(_),     \* parse_view_table, of Templates
  WithDefaults(_)      \* a template with its defaults, which is what equal_template compares

Terms == INSTANCE Negotiation

MaxDuration == 24 * 60 * 60 * 1000
NoView == <<>>

(* required_non_empty_string, and an optional value of a type.             *)
StringFaults(x, f) ==
  IF ~Has(x, f) THEN {"missing"} ELSE IF ~IsString(x.v[f]) THEN {"type"} ELSE When(x.v[f].n = 0, "empty")
TypeFaults(x, f, kind) == When(Has(x, f) /\ ~Fits(x.v[f], kind), "type")
Or(x, f, default) == IF Has(x, f) THEN x.v[f] ELSE default
Table(x, f) == IF Has(x, f) /\ x.v[f].t = "object" THEN x.v[f].v ELSE <<>>
StringArray(x, f) ==
  When(Has(x, f) /\ (x.v[f].t # "array" \/ \E i \in 1..Len(x.v[f].v) : ~IsString(x.v[f].v[i])), "type")

-----------------------------------------------------------------------------
(* Manifests.                                                              *)

OptionTypes == {"string", "integer", "number", "boolean", "array", "table"}
Numeric(x) == x.t \in {"integer", "float"}

(* parse_schema: one entry of the schema of options.                       *)
BoundFaults(e, f) ==
  IF ~Has(e, f) THEN {}
  ELSE CASE e.v["type"].v = "integer" -> When(e.v[f].t # "integer", "type")
         [] e.v["type"].v = "number"  -> When(~Numeric(e.v[f]), "type")
         [] OTHER                     -> {"bound"}
SchemaFaults(e) ==
  IF e.t # "object" \/ ~Has(e, "type") THEN {"missing"}
  ELSE IF ~OneOf(e.v["type"], OptionTypes) THEN {"name"}
  ELSE LET bounds == BoundFaults(e, "minimum") \cup BoundFaults(e, "maximum")
       IN Unknown(e, {"type", "required", "allowed", "minimum", "maximum"})
            \cup TypeFaults(e, "required", "boolean") \cup StringArray(e, "allowed")
            \cup When(Has(e, "allowed") /\ ~OneOf(e.v["type"], {"string"}), "allowed")
            \cup bounds
            \cup When(bounds = {} /\ Has(e, "minimum") /\ Has(e, "maximum")
                        /\ Thousandths(e.v["minimum"]) > Thousandths(e.v["maximum"]), "bound")

(* option_matches_schema.  A float that is not finite has the tag nan.     *)
HasType(x, type) ==
  CASE type = "number" -> Numeric(x)
    [] type = "table"  -> x.t = "object"
    [] OTHER           -> x.t = type
Matches(x, e) ==
  /\ HasType(x, e.v["type"].v)
  /\ Has(e, "allowed") /\ e.v["allowed"].v # <<>> => \E i \in 1..Len(e.v["allowed"].v) : e.v["allowed"].v[i].v = x.v
  /\ Has(e, "minimum") => Thousandths(x) >= Thousandths(e.v["minimum"])
  /\ Has(e, "maximum") => Thousandths(x) <= Thousandths(e.v["maximum"])

(* resolve_package_file: the files of a package by name.                   *)
FileFaults(m, f, package) ==
  IF ~Has(m, f) THEN {}
  ELSE IF StringFaults(m, f) # {} THEN StringFaults(m, f)
  ELSE When(OneOf(m.v[f], {"up", "root"}), "outside") \cup When(m.v[f].v \notin DOMAIN package, "file")
Contents(m, f, package) == package[m.v[f].v]

DefaultsFaults(defaults, schema) ==
  UNION {FaultsOfOption(defaults[k]) : k \in DOMAIN defaults}
    \cup When(~DOMAIN defaults \subseteq DOMAIN schema, "option")
    \cup When(\E k \in DOMAIN defaults \cap DOMAIN schema : ~Matches(defaults[k], schema[k]), "option")

(* The defaults of a package: in its manifest, or in its config file.      *)
Defaults(m, package) ==
  IF Has(m, "config") THEN Table(Contents(m, "config", package), "defaults") ELSE Table(m, "defaults")
ConfigFileFaults(m, package) ==
  LET c == Contents(m, "config", package)
  IN IF ~Has(m, "config") \/ FileFaults(m, "config", package) # {} THEN TypeFaults(m, "defaults", "object")
     ELSE When(Has(m, "defaults"), "defaults") \cup Unknown(c, {"defaults"})
            \cup When(~Has(c, "defaults") \/ c.v["defaults"].t # "object", "type")

Minor(m, f) == m.v["protocol"].v[f].v
ProtocolFaults(m) ==
  IF ~Has(m, "protocol") \/ m.v["protocol"].t # "object" THEN {"type"}
  ELSE LET p == m.v["protocol"]
           misfits == Misfits(p, [major |-> "integer", minimum_minor |-> "integer",
                                  maximum_minor |-> "integer"], <<>>)
       IN Unknown(p, {"major", "minimum_minor", "maximum_minor"}) \cup misfits
            \cup When(misfits = {} /\ (p.v["major"].v < 0 \/ Minor(m, "minimum_minor") < 0
                                       \/ Minor(m, "maximum_minor") < Minor(m, "minimum_minor")), "range")

(* parse_module_manifest_impl.                                             *)
ManifestFaults(m, directory, package) ==
  LET schema == Table(m, "options_schema")
      shape  == Unknown(m, {"id", "name", "description", "command", "entry", "config", "view", "protocol",
                            "defaults", "options_schema"})
                  \cup StringFaults(m, "id") \cup StringFaults(m, "name")
                  \cup TypeFaults(m, "description", "string") \cup TypeFaults(m, "options_schema", "object")
                  \cup When(~Has(m, "command"), "missing") \cup StringArray(m, "command")
                  \cup UNION {FileFaults(m, f, package) : f \in {"entry", "config", "view"}}
                  \cup UNION {SchemaFaults(schema[k]) : k \in DOMAIN schema}
  IN IF shape # {} THEN shape
     ELSE When(m.v["id"].v # directory, "id") \cup When(m.v["command"].v = <<>>, "empty")
            \cup When(\E i \in 1..Len(m.v["command"].v) : m.v["command"].v[i].n = 0, "empty")
            \cup When(m.v["command"].v # <<>> /\ OneOf(m.v["command"].v[1], {"lua-host"}) # Has(m, "entry"), "entry")
            \cup ProtocolFaults(m) \cup ConfigFileFaults(m, package)
            \cup (IF ConfigFileFaults(m, package) # {} THEN {}
                  ELSE DefaultsFaults(Defaults(m, package), schema))
            \cup IF Has(m, "view") THEN FaultsOfView(Contents(m, "view", package)) ELSE {}

(* discover_module_catalog: of the roots, the first one that has a         *)
(* directory of that name has the package, good or bad.                    *)
Package(roots, id) == roots[Min({i \in 1..Len(roots) : id \in DOMAIN roots[i]})][id]
Catalog(roots) == UNION {DOMAIN roots[i] : i \in 1..Len(roots)}

-----------------------------------------------------------------------------
(* The configuration.                                                      *)

Timings == {"handshake_ms", "graceful_shutdown_ms", "terminate_grace_ms", "initial_backoff_ms",
            "maximum_backoff_ms", "healthy_reset_ms"}
DefaultTimings == [handshake_ms |-> 2000, graceful_shutdown_ms |-> 1000, terminate_grace_ms |-> 500,
                   initial_backoff_ms |-> 250, maximum_backoff_ms |-> 30000, healthy_reset_ms |-> 60000]
TimingsOf(x) == [f \in Timings |-> IF f \in DOMAIN Table(x, "timings") THEN x.v["timings"].v[f].v
                                   ELSE DefaultTimings[f]]

(* parse_timings.                                                          *)
TimingFaults(x) ==
  LET given == Table(x, "timings")
      each  == UNION {IF given[f].t # "integer" THEN {"type"} ELSE When(given[f].v \notin 1..MaxDuration, "range") :
                        f \in DOMAIN given \cap Timings}
  IN TypeFaults(x, "timings", "object") \cup each
       \cup When(each = {} /\ TimingsOf(x).initial_backoff_ms > TimingsOf(x).maximum_backoff_ms, "backoff")

(* parse_options, parse_environment, parse_working_directory and the       *)
(* other plain fields.                                                     *)
OptionsFaults(x) ==
  TypeFaults(x, "options", "object")
    \cup UNION {FaultsOfOption(Table(x, "options")[k]) : k \in DOMAIN Table(x, "options")}
RestartFaults(x) ==
  When(Has(x, "restart") /\ ~OneOf(x.v["restart"], {"always", "on-failure", "never"}), "name")
EnvironmentFaults(x) ==
  TypeFaults(x, "environment", "object")
    \cup When(\E k \in DOMAIN Table(x, "environment") : k = "a=b" \/ ~IsString(x.v["environment"].v[k]), "type")
DirectoryFaults(x) ==
  TypeFaults(x, "working_directory", "string")
    \cup When(Has(x, "working_directory") /\ OneOf(x.v["working_directory"], {"relative"}), "path")
FieldFaults(x) ==
  TypeFaults(x, "enabled", "boolean") \cup OptionsFaults(x) \cup RestartFaults(x) \cup TimingFaults(x)
    \cup EnvironmentFaults(x) \cup DirectoryFaults(x)
    \cup IF Has(x, "view") THEN FaultsOfView(x.v["view"]) ELSE {}

(* The options of a module, its own over the defaults of its package; and   *)
(* its view, slot by slot.                                                 *)
Over(own, packaged) ==
  [k \in DOMAIN own \cup DOMAIN packaged |-> IF k \in DOMAIN own THEN own[k] ELSE packaged[k]]
\* mutant: the package has the last word
Options_Defaults(x, m, package) == Over(Defaults(m, package), Table(x, "options"))
Options(x, m, package) == Over(Table(x, "options"), Defaults(m, package))
ViewOf(x, packaged) == Over(Table(x, "view"), packaged)

(* parse_modules, for a module that refers to a package.                   *)
PackageFaults(x, roots) ==
  IF StringFaults(x, "module") # {} THEN StringFaults(x, "module")
  ELSE IF x.v["module"].v \notin Catalog(roots) THEN {"no manifest"}
  ELSE LET p == Package(roots, x.v["module"].v)
           m == p.manifest
           faults == ManifestFaults(m, x.v["module"].v, p.files)
           own == FieldFaults(x)
           schema == Table(m, "options_schema")
           options == Options(x, m, p.files)
       IN IF faults # {} THEN faults ELSE IF own # {} THEN own
          ELSE When(m.v["protocol"].v["major"].v # 1
                      \/ Terms!RangeIsRefused(Minor(m, "minimum_minor"), Minor(m, "maximum_minor")), "protocol")
                 \cup StringArray(x, "arguments")
                 \cup When(\E k \in DOMAIN options : k \notin DOMAIN schema \/ ~Matches(options[k], schema[k]), "option")
                 \cup When(\E k \in DOMAIN schema : Or(schema[k], "required", Bool(FALSE)).v
                                                      /\ k \notin DOMAIN options, "required")

CommandFaults(x) ==
  FieldFaults(x) \cup StringArray(x, "command") \cup When(Has(x, "arguments"), "arguments")
    \cup When(x.v["command"].t = "array" /\ (x.v["command"].v = <<>> \/ x.v["command"].v[1] = Str("", 0)), "empty")

PackagedView(x, roots) ==
  IF ~Has(x, "module") THEN NoView
  ELSE LET p == Package(roots, x.v["module"].v)
       IN IF Has(p.manifest, "view") THEN Contents(p.manifest, "view", p.files).v ELSE NoView
ModuleFaults(x, roots) ==
  IF x.t # "object" THEN {"type"}
  ELSE IF StringFaults(x, "id") # {} THEN StringFaults(x, "id")
  ELSE IF Has(x, "command") = Has(x, "module") THEN {"command"}
  ELSE LET faults == IF Has(x, "module") THEN PackageFaults(x, roots) ELSE CommandFaults(x)
       IN IF faults # {} THEN faults
          ELSE When(DOMAIN ViewOf(x, PackagedView(x, roots)) = {"expanded"}, "compact")

(* A file a module was loaded from, and one it has not: where it is, what   *)
(* is in it (its fingerprint) and which file on disk it is.                 *)
Dependency(home, name, contents, p) ==
  [package |-> home, name |-> name, contents |-> contents, identity |-> p.written[name]]
NoFile == [package |-> <<>>, name |-> "", contents |-> Obj(<<>>), identity |-> 0]

(* The command of a package: its program, found from the package when its   *)
(* path is relative, and for a script the entry and its fingerprint.        *)
Program(first, home) == IF OneOf(first, {"relative"}) THEN [t |-> "path", v |-> home \o <<first.v>>] ELSE first
Command(m, home, entry) ==
  LET words == m.v["command"].v
  IN <<Program(Head(words), home)>>
       \o (IF entry = NoFile THEN <<>>
           ELSE <<[t |-> "path", v |-> home \o <<entry.name>>], [t |-> "fingerprint", v |-> <<entry.contents>>]>>)
       \o Tail(words)

(* The environment of a script names the file that was checked.             *)
Environment(x, entry) ==
  LET identity == IF entry = NoFile THEN <<>>
                  ELSE "GISLAND_LUA_ENTRY_IDENTITY" :> [t |-> "identity", v |-> <<entry.identity>>]
  IN Over(identity, Table(x, "environment"))

(* What is kept of a module: what a reload compares of it before it starts  *)
(* another process (the files of its package among it), and its view.       *)
Module(x, roots) ==
  LET p == Package(roots, x.v["module"].v)
      m == p.manifest
      packaged == Has(x, "module")
      home == IF packaged THEN <<p.root, x.v["module"].v>> ELSE <<>>
      file(f) == IF packaged /\ Has(m, f) THEN Dependency(home, m.v[f].v, Contents(m, f, p.files), p) ELSE NoFile
  IN [id |-> x.v["id"].v,
      enabled |-> Or(x, "enabled", Bool(TRUE)).v,
      process |->
        [module |-> home,
         command |-> IF packaged THEN Command(m, home, file("entry")) \o Or(x, "arguments", Arr(<<>>)).v
                     ELSE x.v["command"].v,
         low |-> IF packaged THEN Terms!Low(Minor(m, "minimum_minor")) ELSE 0,
         high |-> IF packaged THEN Terms!High(Minor(m, "maximum_minor")) ELSE Terms!CoreMinor,
         options |-> IF packaged THEN Options(x, m, p.files) ELSE Table(x, "options"),
         restart |-> Or(x, "restart", Str("on-failure", 10)).v,
         timings |-> TimingsOf(x),
         environment |-> Environment(x, file("entry")),
         directory |-> Or(x, "working_directory", Null).v,
         manifest |-> IF packaged THEN Dependency(home, "module.toml", m, p) ELSE NoFile,
         config |-> file("config"), entry |-> file("entry")],
      view |-> ViewOf(x, PackagedView(x, roots)),
      view_file |-> file("view")]

(* parse_interaction.                                                      *)
InteractionFaults(c) ==
  LET x == c.v["interaction"]
  IN IF ~Has(c, "interaction") THEN {} ELSE IF x.t # "object" THEN {"type"}
     ELSE Unknown(x, {"animation_speed", "hover_exit_ms", "reduced_motion", "hidden_mode"})
            \cup Misfits(x, <<>>, [animation_speed |-> "number", hover_exit_ms |-> "integer",
                                   reduced_motion |-> "boolean", hidden_mode |-> "boolean"])
            \cup When(Has(x, "animation_speed") /\ Numeric(x.v["animation_speed"])
                        /\ Thousandths(x.v["animation_speed"]) \notin 250..4000, "range")
            \cup When(Has(x, "hover_exit_ms") /\ x.v["hover_exit_ms"].t = "integer"
                        /\ x.v["hover_exit_ms"].v \notin 0..2000, "range")

(* parse_table.  Both defaults must be enabled modules.                    *)
DefaultFor(c, slot) ==
  IF Has(c, "default_module") THEN c.v["default_module"].v ELSE c.v["defaults"].v[slot].v
DefaultsShape(c) ==
  IF Has(c, "default_module")
  THEN StringFaults(c, "default_module") \cup When(Has(c, "defaults"), "defaults")
  ELSE IF ~Has(c, "defaults") \/ c.v["defaults"].t # "object" THEN {"missing"}
  ELSE Unknown(c.v["defaults"], {"compact", "expanded"})
         \cup StringFaults(c.v["defaults"], "compact") \cup StringFaults(c.v["defaults"], "expanded")
ConfigFaults(c, roots) ==
  LET ms == c.v["modules"].v
      shape == StringFaults(c, "monitor") \cup StringFaults(c, "theme") \cup DefaultsShape(c)
                 \cup InteractionFaults(c)
                 \cup IF ~Has(c, "modules") \/ c.v["modules"].t # "array" THEN {"type"}
                      ELSE UNION {ModuleFaults(ms[i], roots) : i \in 1..Len(ms)}
      enabled == {ms[i].v["id"].v : i \in {j \in 1..Len(ms) : Or(ms[j], "enabled", Bool(TRUE)).v}}
  IN IF shape # {} THEN shape
     ELSE When(\E i, j \in 1..Len(ms) : i < j /\ ms[i].v["id"].v = ms[j].v["id"].v, "duplicate")
            \cup When(~{DefaultFor(c, "compact"), DefaultFor(c, "expanded")} \subseteq enabled, "default")
Config(c, roots) ==
  [compact |-> DefaultFor(c, "compact"), expanded |-> DefaultFor(c, "expanded"),
   modules |-> [i \in 1..Len(c.v["modules"].v) |-> Module(c.v["modules"].v[i], roots)]]

-----------------------------------------------------------------------------
(* Reloading.                                                              *)

Ids(config) == {config.modules[i].id : i \in 1..Len(config.modules)}
Find(config, id) == CHOOSE m \in {config.modules[i] : i \in 1..Len(config.modules)} : m.id = id

(* equal_process_config and equal_view.                                    *)
\* mutant: the timings are not looked at
SameProcess_NoTimings(a, b) ==
  /\ EqualOptions(Obj(a.options), Obj(b.options))
  /\ [a EXCEPT !.options = <<>>, !.timings = <<>>] = [b EXCEPT !.options = <<>>, !.timings = <<>>]
SameProcess(a, b) ==
  /\ EqualOptions(Obj(a.options), Obj(b.options))
  /\ [a EXCEPT !.options = <<>>] = [b EXCEPT !.options = <<>>]

SameView(a, b) == DOMAIN a = DOMAIN b /\ \A slot \in DOMAIN a : WithDefaults(a[slot]) = WithDefaults(b[slot])

(* plan_reload.                                                            *)
Kind(id, current, candidate) ==
  LET old == Find(current, id)  new == Find(candidate, id)
  IN IF id \notin Ids(candidate) THEN "removed"
     ELSE IF id \notin Ids(current) THEN "added"
     ELSE IF old.enabled # new.enabled THEN IF new.enabled THEN "enabled" ELSE "disabled"
     ELSE IF ~SameProcess(old.process, new.process) THEN "process_modified"
     ELSE IF ~SameView(old.view, new.view) \/ old.view_file # new.view_file THEN "view_updated"
     ELSE "unchanged"
Starts(id, current, candidate) ==
  /\ Kind(id, current, candidate) \in {"added", "enabled", "process_modified"}
  /\ Find(candidate, id).enabled
Stops(id, current, candidate) == Kind(id, current, candidate) \in {"disabled", "removed"}

(* make_module_start_request: what the supervisor starts a process with,    *)
(* and what the process is told in its init.  Locale and timezone are those *)
(* of the application for as long as it runs.                               *)
StartRequest(m) ==
  [instance_id |-> m.id,
   process |-> [argv |-> m.process.command, environment |-> m.process.environment,
                working_directory |-> m.process.directory],
   init |-> [minimum |-> m.process.low, maximum |-> m.process.high, configuration |-> m.process.options,
             capabilities |-> Terms!Offered("compact" \in DOMAIN m.view, m.process.high)],
   restart |-> m.process.restart, timings |-> m.process.timings]
=============================================================================

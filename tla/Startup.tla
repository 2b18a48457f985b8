-------------------------------- MODULE Startup --------------------------------
(***************************************************************************)
(* How the bridge gets its configuration (dbus_mqtt_battery/config.py and  *)
(* topology.py) and what main() makes of it.                               *)
(*                                                                         *)
(* A source of settings - a command line, an INI file - is a function on   *)
(* the settings it names, so overriding is a union of functions.  A value  *)
(* is reduced to what start-up decides from it: whether a broker is local, *)
(* the shape of the inventory, and for identity and alarm thresholds only  *)
(* the source they came from.                                              *)
(***************************************************************************)
EXTENDS Integers, Sequences, FiniteSets

CONSTANTS
    Arguments,   \* command lines: [options, config, topology, chain, validate, observe]
    Files,       \* what an INI file may hold: partial settings, or Malformed
    Manifests,   \* what a topology file may hold: sequences of chains, or Malformed
    Malformed, NoFile, NoChain

Setting == {"broker", "local_only", "mode", "topic", "inventory", "identity", "alarms"}

\* The options a manifest excludes, all but the transport settings.
Conflicting == {"mode", "topic", "inventory", "identity", "alarms"}

Inventory == [count : Int, cells : Int, temps : Int, first : Int]
Member == [bms : Int, cells : Int, temps : Int, rated : BOOLEAN]

\* What was parsed: partial settings and sequences of chains.
Sources == {a.options : a \in Arguments} \cup (Files \ {Malformed})
Chains == UNION {{m[i] : i \in DOMAIN m} : m \in Manifests \ {Malformed}}

\* local_only can only be switched on by an option, inventories are numbers
\* (not all of them checked to be positive), and chains have names.
ASSUME StartupAssumption ==
    /\ \A a \in Arguments :
         /\ DOMAIN a.options \subseteq Setting
         /\ "local_only" \in DOMAIN a.options => a.options["local_only"] = TRUE
    /\ \A s \in Sources : "inventory" \in DOMAIN s => s["inventory"] \in Inventory
    /\ \A c \in Chains : c # NoChain /\ c.id # NoChain /\ c.members \in Seq(Member)

Defaults ==
    [broker |-> "localhost", local_only |-> FALSE, mode |-> "atomic", topic |-> "default",
     inventory |-> [count |-> 2, cells |-> 2, temps |-> 2, first |-> 1],
     identity |-> "default", alarms |-> "default"]

VARIABLES
    phase,       \* where main() is
    args,        \* the parsed command line
    disk,        \* [explicit, ambient, manifest]: the files it may read
    config,      \* the Config object, or Defaults before it is built
    topology     \* config.topology: the selected chain, or NoChain

startup == <<phase, args, disk, config, topology>>

-----------------------------------------------------------------------------
(***************************************************************************)
(* topology.py: the whole manifest is validated before a chain is chosen.  *)
(***************************************************************************)
MaxMembers == 4

Distinct(s, field) ==
    \A i, j \in DOMAIN s : i # j => s[i][field] # s[j][field]

\* _protection: managed output needs a profile, ratings and equal cell counts.
ProtectionFits(c) ==
    IF c.output = "offline" THEN c.profile = "none"
    ELSE /\ c.profile # "none"
         /\ \A i, j \in DOMAIN c.members : c.members[i].cells = c.members[j].cells
         /\ \A i \in DOMAIN c.members : c.members[i].rated

\* _chain, with _member for every member.
ValidChain(c) ==
    /\ c.output \in {"offline", "managed"}
    /\ Len(c.members) \in 1..MaxMembers
    /\ Distinct(c.members, "bms")
    /\ \A i \in DOMAIN c.members : c.members[i].cells >= 1 /\ c.members[i].temps >= 1
    /\ ProtectionFits(c)
    /\ c.output = "managed" => c.voltage <= c.limit

\* parse_manifest: no two chains share an identity, and none is reserved.
ValidManifest(m) ==
    /\ m \notin {NoFile, Malformed} /\ Len(m) >= 1
    /\ \A i \in DOMAIN m : ValidChain(m[i])
    /\ \A field \in {"id", "identity", "topic"} : Distinct(m, field)
    /\ \A i \in DOMAIN m : m[i].identity # "reserved"

\* _select: an unnamed chain must be the only one.
Selected(m, id) ==
    {m[i] : i \in {j \in DOMAIN m : m[j].id = id \/ (id = NoChain /\ Len(m) = 1)}}

-----------------------------------------------------------------------------
(***************************************************************************)
(* config.py.                                                              *)
(***************************************************************************)
\* The settings that over names win.
Override(base, over) ==
    [s \in Setting |-> IF s \in DOMAIN over THEN over[s] ELSE base[s]]

\* Mutant: local_only is not read from the file.
FromFileForgetful(file) ==
    IF file = NoFile THEN Defaults
    ELSE Override(Defaults, [s \in DOMAIN file \ {"local_only"} |-> file[s]])

\* Config.from_file: a file that is not there reads like an empty one.
FromFile(file) == IF file = NoFile THEN Defaults ELSE Override(Defaults, file)

\* local_broker_address accepts it.
Loopback(broker) == broker \in {"localhost", "loopback"}

\* Config.validate.
Valid(c) ==
    /\ c.local_only => Loopback(c.broker)
    /\ c.inventory.temps >= 1
    /\ c.mode \in {"atomic", "legacy"}

\* A manifest is self-contained: only transport settings of a file survive.
WithManifest(c, chain) ==
    [c EXCEPT !.topic = chain.topic, !.mode = "atomic", !.identity = chain.identity,
              !.alarms = "default",
              !.inventory = [count |-> Len(chain.members), cells |-> chain.members[1].cells,
                             temps |-> CHOOSE t \in {chain.members[i].temps : i \in DOMAIN chain.members} :
                                           \A i \in DOMAIN chain.members : t >= chain.members[i].temps,
                             first |-> chain.members[1].bms]]

Init ==
    /\ phase = "start"
    /\ args \in Arguments
    /\ disk \in [explicit : Files \cup {NoFile}, ambient : Files \cup {NoFile},
                 manifest : Manifests \cup {NoFile}]
    /\ config = Defaults
    /\ topology = NoChain

Exit == phase' = "exited" /\ UNCHANGED <<args, disk, config, topology>>

\* parser.error: an impossible combination of options.
UsageError ==
    \/ (args.chain # NoChain \/ args.validate) /\ ~args.topology
    \/ args.topology /\ Conflicting \cap DOMAIN args.options # {}

\* The file this command line reads: the chosen one, or without a manifest
\* the first of the standard locations that exists.
ConfigFile ==
    CASE args.config -> disk.explicit
      [] ~args.config /\ args.topology -> NoFile
      [] OTHER -> disk.ambient

\* Mutant: a manifest that cannot be used falls back to the scalar settings.
LoadedWithFallback ==
    IF UsageError \/ ConfigFile = Malformed THEN {}
    ELSE IF ~args.topology \/ ~ValidManifest(disk.manifest)
         THEN {<<Override(FromFile(ConfigFile), args.options), NoChain>>}
         ELSE {<<Override(WithManifest(FromFile(ConfigFile), chain), args.options), chain>> :
                  chain \in Selected(disk.manifest, args.chain)}

\* load_config, but for the last check: the configuration and chain, if any.
Loaded ==
    IF UsageError \/ ConfigFile = Malformed THEN {}
    ELSE IF ~args.topology
         THEN {<<Override(FromFile(ConfigFile), args.options), NoChain>>}
         ELSE IF ~ValidManifest(disk.manifest) THEN {}
         ELSE {<<Override(WithManifest(FromFile(ConfigFile), chain), args.options), chain>> :
                  chain \in Selected(disk.manifest, args.chain)}

LoadConfig ==
    /\ phase = "start"
    /\ \E l \in Loaded : Valid(l[1]) /\ config' = l[1] /\ topology' = l[2]
    /\ phase' = "loaded"
    /\ UNCHANGED <<args, disk>>

\* Every fault is fatal: no part of a faulty configuration is used.
LoadFails ==
    /\ phase = "start"
    /\ \A l \in Loaded : ~Valid(l[1])
    /\ Exit

\* main() goes on to talk to the broker.
MayRun ==
    /\ ~args.validate
    /\ config.local_only => Loopback(config.broker)
    /\ topology # NoChain => topology.output = "managed" \/ args.observe

\* MqttBatteryClient.__init__: local_only pins the connection to a loopback address.
Endpoint == IF config.local_only THEN "loopback" ELSE config.broker

\* --validate-topology, an offline topology, or connect() failed.
StartFails == phase = "loaded" /\ Exit

\* observe(): reads until its deadline, then exits.
Observe ==
    /\ phase = "loaded" /\ MayRun /\ args.observe
    /\ phase' = "observing"
    /\ UNCHANGED <<args, disk, config, topology>>

StopObserving == phase = "observing" /\ Exit

\* DbusAggregateService.__init__: a profile brings its own alarm thresholds.
Serve ==
    /\ phase = "loaded" /\ MayRun /\ ~args.observe
    /\ phase' = "constructing"
    /\ config' = IF topology = NoChain THEN config
                 ELSE [config EXCEPT !.alarms = topology.profile]
    /\ UNCHANGED <<args, disk, topology>>

Boot == LoadConfig \/ LoadFails \/ StartFails \/ Observe \/ StopObserving \/ Serve

-----------------------------------------------------------------------------
\* The configuration is final; a service that has started only reads it.
Running == phase \in {"observing", "constructing"} /\ args \in Arguments

\* A process told to use a manifest runs with a chain of that manifest alone:
\* neither an INI file nor the standard locations leak an inventory, identity,
\* topic or telemetry mode into it, a faulty manifest never falls back to the
\* scalar settings, and only a managed chain ever becomes a D-Bus service.
ManifestIsAuthoritative ==
    Running /\ args.topology =>
        /\ topology # NoChain /\ ValidManifest(disk.manifest)
        /\ \E i \in DOMAIN disk.manifest : disk.manifest[i] = topology
        /\ args.chain = NoChain => Len(disk.manifest) = 1
        /\ config.inventory.count = Len(topology.members)
        /\ config.topic = topology.topic /\ config.identity = topology.identity
        /\ config.mode = "atomic"
        /\ phase # "observing" => topology.output = "managed" /\ config.alarms = topology.profile

LocalOnlyAsked ==
    \/ "local_only" \in DOMAIN args.options
    \/ /\ ConfigFile \notin {NoFile, Malformed}
       /\ "local_only" \in DOMAIN ConfigFile
       /\ ConfigFile["local_only"] = TRUE

\* Whoever asks for local-only - the command line or the file it reads - gets a
\* numeric loopback connection, whichever of them names the broker.
LocalOnlyStaysLocal ==
    Running /\ LocalOnlyAsked => Endpoint = "loopback" /\ Loopback(config.broker)
=============================================================================

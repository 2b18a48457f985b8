------------------------------ MODULE PanelProofs ------------------------------
(***************************************************************************)
(* Start-up, for every command line, file and manifest, and the panel for  *)
(* every inventory, snapshot and choice of thresholds.                     *)
(***************************************************************************)
EXTENDS Panel, FiniteSetTheorems, WellFoundedInduction, TLAPS

\* The configuration is that of a chain of the manifest alone.
OfManifest ==
    /\ topology # NoChain /\ ValidManifest(disk.manifest)
    /\ \E i \in DOMAIN disk.manifest : disk.manifest[i] = topology
    /\ args.chain = NoChain => Len(disk.manifest) = 1
    /\ config.inventory.count = Len(topology.members)
    /\ config.topic = topology.topic /\ config.identity = topology.identity
    /\ config.mode = "atomic"

\* What load_config decided holds from then on, as long as anybody could still
\* read the command line; the constructor adds the profile's thresholds.
StartInv ==
    /\ phase = "start" => args \in Arguments /\ disk.manifest \in Manifests \cup {NoFile}
    /\ phase \in {"loaded", "observing", "constructing"} /\ args \in Arguments =>
         /\ DOMAIN config = Setting
         /\ args.topology => OfManifest
         /\ LocalOnlyAsked => config.local_only = TRUE /\ Loopback(config.broker)
         /\ args.topology /\ phase = "constructing" =>
              topology.output = "managed" /\ config.alarms = topology.profile

-----------------------------------------------------------------------------
\* Every setting has a value.
LEMMA DefaultsDomain == DOMAIN Defaults = Setting
BY DEF Defaults, Setting

LEMMA FromFileFacts ==
    ASSUME NEW file
    PROVE  /\ DOMAIN FromFile(file) = Setting
           /\ file # NoFile /\ "local_only" \in DOMAIN file =>
                FromFile(file)["local_only"] = file["local_only"]
BY DefaultsDomain DEF FromFile, Override, Setting

\* What the manifest's chain settles.
LEMMA WithManifestFacts ==
    ASSUME NEW c, DOMAIN c = Setting, NEW chain
    PROVE  LET w == WithManifest(c, chain) IN
           /\ DOMAIN w = Setting
           /\ w["topic"] = chain.topic /\ w["identity"] = chain.identity /\ w["mode"] = "atomic"
           /\ w["inventory"].count = Len(chain.members)
           /\ w["local_only"] = c["local_only"]
BY DEF WithManifest, Setting

\* load_config: options cannot touch what a manifest settles, and whoever asks
\* for local_only is heard.
LEMMA LoadedFacts ==
    ASSUME StartInv, phase = "start", NEW l \in Loaded
    PROVE  /\ DOMAIN l[1] = Setting
           /\ LocalOnlyAsked => l[1]["local_only"] = TRUE
           /\ args.topology =>
                /\ l[2] # NoChain /\ ValidManifest(disk.manifest)
                /\ \E i \in DOMAIN disk.manifest : disk.manifest[i] = l[2]
                /\ args.chain = NoChain => Len(disk.manifest) = 1
                /\ l[1]["inventory"].count = Len(l[2].members)
                /\ l[1]["topic"] = l[2].topic /\ l[1]["identity"] = l[2].identity
                /\ l[1]["mode"] = "atomic"
<1> DEFINE f == FromFile(ConfigFile)
<1>1. args \in Arguments /\ disk.manifest \in Manifests \cup {NoFile}
  BY DEF StartInv
<1>2. ~UsageError /\ ConfigFile # Malformed
  BY DEF Loaded
<1>3. DOMAIN f = Setting
  BY FromFileFacts
<1>4. LocalOnlyAsked =>
        \/ "local_only" \in DOMAIN args.options /\ args.options["local_only"] = TRUE
        \/ f["local_only"] = TRUE
  BY <1>1, StartupAssumption, FromFileFacts DEF LocalOnlyAsked
<1> HIDE DEF f
<1>5. CASE ~args.topology
  <2>1. l = <<Override(f, args.options), NoChain>>
    BY <1>2, <1>5 DEF Loaded, f
  <2>2. l[1] = Override(f, args.options)
    BY <2>1
  <2>3. LocalOnlyAsked => l[1]["local_only"] = TRUE
    <3>1. "local_only" \in Setting
      BY DEF Setting
    <3>2. /\ "local_only" \in DOMAIN args.options => args.options["local_only"] = TRUE
      BY <1>1, StartupAssumption
    <3> QED BY <1>4, <2>2, <3>1, <3>2 DEF Override
  <2> QED BY <1>5, <2>2, <2>3 DEF Override
<1>6. CASE args.topology
  <2>1. ValidManifest(disk.manifest)
    BY <1>2, <1>6 DEF Loaded
  <2>2. PICK chain \in Selected(disk.manifest, args.chain) :
          l = <<Override(WithManifest(f, chain), args.options), chain>>
    BY <1>2, <1>6, <2>1 DEF Loaded, f
  <2> DEFINE w == WithManifest(f, chain)
  <2>3. l[1] = Override(w, args.options) /\ l[2] = chain
    BY <2>2
  <2>4. /\ DOMAIN w = Setting
        /\ w["topic"] = chain.topic /\ w["identity"] = chain.identity /\ w["mode"] = "atomic"
        /\ w["inventory"].count = Len(chain.members) /\ w["local_only"] = f["local_only"]
    BY <1>3, WithManifestFacts
  <2> HIDE DEF w
  <2>5. disk.manifest \in Manifests \ {Malformed}
    BY <1>1, <2>1 DEF ValidManifest
  <2>6. PICK i \in DOMAIN disk.manifest :
          /\ disk.manifest[i] = chain
          /\ disk.manifest[i].id = args.chain \/ (args.chain = NoChain /\ Len(disk.manifest) = 1)
    BY DEF Selected
  <2>7. disk.manifest[i] # NoChain /\ disk.manifest[i].id # NoChain
    BY <2>5, StartupAssumption DEF Chains
  <2>8. \A s \in {"topic", "identity", "mode", "inventory"} : l[1][s] = w[s]
    <3>1. Conflicting \cap DOMAIN args.options = {}
      BY <1>2, <1>6 DEF UsageError
    <3>2. {"topic", "identity", "mode", "inventory"} \subseteq Conflicting \cap Setting
      BY DEF Conflicting, Setting
    <3> QED BY <2>3, <3>1, <3>2 DEF Override
  <2>9. LocalOnlyAsked => l[1]["local_only"] = TRUE
    <3>1. "local_only" \in Setting
      BY DEF Setting
    <3>2. "local_only" \in DOMAIN args.options => args.options["local_only"] = TRUE
      BY <1>1, StartupAssumption
    <3> QED BY <1>4, <2>3, <2>4, <3>1, <3>2 DEF Override
  <2>10. DOMAIN l[1] = Setting
    BY <2>3 DEF Override
  <2> QED BY <2>1, <2>3, <2>4, <2>6, <2>7, <2>8, <2>9, <2>10
<1> QED BY <1>5, <1>6

LEMMA LoadConfigSafe ==
    ASSUME StartInv, LoadConfig
    PROVE  StartInv'
<1>1. phase = "start" /\ phase' = "loaded" /\ UNCHANGED <<args, disk>>
  BY DEF LoadConfig
<1>2. PICK l \in Loaded : Valid(l[1]) /\ config' = l[1] /\ topology' = l[2]
  BY DEF LoadConfig
<1>3. /\ DOMAIN l[1] = Setting
      /\ LocalOnlyAsked => l[1]["local_only"] = TRUE
      /\ args.topology =>
           /\ l[2] # NoChain /\ ValidManifest(disk.manifest)
           /\ \E i \in DOMAIN disk.manifest : disk.manifest[i] = l[2]
           /\ args.chain = NoChain => Len(disk.manifest) = 1
           /\ l[1]["inventory"].count = Len(l[2].members)
           /\ l[1]["topic"] = l[2].topic /\ l[1]["identity"] = l[2].identity
           /\ l[1]["mode"] = "atomic"
  BY <1>1, LoadedFacts
<1>4. LocalOnlyAsked' <=> LocalOnlyAsked
  BY <1>1 DEF LocalOnlyAsked, ConfigFile
<1>5. l[1]["local_only"] = TRUE => Loopback(l[1]["broker"])
  BY <1>2 DEF Valid
<1>6. args.topology => OfManifest'
  BY <1>1, <1>2, <1>3 DEF OfManifest
<1> QED BY <1>1, <1>2, <1>3, <1>4, <1>5, <1>6 DEF StartInv

LEMMA ServeSafe ==
    ASSUME StartInv, Serve
    PROVE  StartInv'
<1>1. /\ phase = "loaded" /\ phase' = "constructing" /\ MayRun /\ ~args.observe
      /\ UNCHANGED <<args, disk, topology>>
      /\ config' = IF topology = NoChain THEN config ELSE [config EXCEPT !.alarms = topology.profile]
  BY DEF Serve
<1> SUFFICES ASSUME args \in Arguments
             PROVE  /\ DOMAIN config' = Setting
                    /\ args.topology => OfManifest'
                    /\ LocalOnlyAsked' => config'.local_only = TRUE /\ Loopback(config'.broker)
                    /\ args.topology =>
                         topology.output = "managed" /\ config'.alarms = topology.profile
  BY <1>1 DEF StartInv
<1>2. /\ DOMAIN config = Setting /\ (args.topology => OfManifest)
      /\ LocalOnlyAsked => config.local_only = TRUE /\ Loopback(config.broker)
  BY <1>1 DEF StartInv
<1>3. LocalOnlyAsked' <=> LocalOnlyAsked
  BY <1>1 DEF LocalOnlyAsked, ConfigFile
<1>4. /\ DOMAIN config' = Setting
      /\ \A s \in Setting \ {"alarms"} : config'[s] = config[s]
      /\ topology # NoChain => config'["alarms"] = topology.profile
  BY <1>1, <1>2 DEF Setting
<1>5. {"local_only", "broker", "topic", "identity", "mode", "inventory"} \subseteq Setting \ {"alarms"}
  BY DEF Setting
<1>6. args.topology => OfManifest'
  BY <1>1, <1>2, <1>4, <1>5 DEF OfManifest
<1>7. args.topology => topology.output = "managed" /\ config'.alarms = topology.profile
  BY <1>1, <1>2, <1>4 DEF OfManifest, MayRun
<1> QED BY <1>2, <1>3, <1>4, <1>5, <1>6, <1>7

LEMMA NextStartInv ==
    ASSUME StartInv, [Next]_vars
    PROVE  StartInv'
<1>1. CASE LoadConfig
  BY <1>1, LoadConfigSafe
<1>2. CASE Serve
  BY <1>2, ServeSafe
<1>3. CASE LoadFails \/ StartFails \/ StopObserving
  BY <1>3 DEF LoadFails, StartFails, StopObserving, Exit, StartInv
<1>4. CASE Observe \/ Receive \/ UNCHANGED vars
  BY <1>4 DEF Observe, Receive, vars, startup, StartInv, OfManifest, LocalOnlyAsked, ConfigFile
<1>5. CASE SetupPaths
  BY <1>5, PanelAssumption DEF SetupPaths, StartInv
<1>6. CASE Poll
  <2>1. phase' \in {"serving", "exited"}
    BY <1>6 DEF Poll, Update, UpdateUnavailable, UpdateFails, Constructed
  <2> QED BY <2>1 DEF StartInv
<1> QED BY <1>1, <1>2, <1>3, <1>4, <1>5, <1>6 DEF Next, Start, Boot

LEMMA SpecStartInv == Spec => []StartInv
<1>1. PanelInit => StartInv
  BY DEF PanelInit, Init, StartInv
<1>2. StartInv /\ [Next]_vars => StartInv'
  BY NextStartInv
<1> QED BY <1>1, <1>2, PTL DEF Spec

\* load_config and main: whatever the files hold, a process told to use a
\* manifest runs with one of its chains alone, or not at all.
THEOREM ManifestDecides == Spec => []ManifestIsAuthoritative
<1>1. StartInv => ManifestIsAuthoritative
  BY DEF StartInv, ManifestIsAuthoritative, Running, OfManifest
<1> QED BY <1>1, SpecStartInv, PTL

\* Config.validate and MqttBatteryClient.__init__: local_only, from whichever
\* source, pins the connection to a loopback address.
THEOREM LocalOnlyPinned == Spec => []LocalOnlyStaysLocal
<1>1. StartInv => LocalOnlyStaysLocal
  BY DEF StartInv, LocalOnlyStaysLocal, Running, Endpoint
<1> QED BY <1>1, SpecStartInv, PTL

-----------------------------------------------------------------------------
(***************************************************************************)
(* Least and greatest elements.                                            *)
(***************************************************************************)
LEMMA LeastNumber ==
    ASSUME NEW S \in SUBSET Nat, S # {}
    PROVE  \E m \in S : \A k \in S : m <= k
<1>1. IsWellFoundedOn(OpToRel(<, Nat), Nat)
  BY NatLessThanWellFounded
<1>2. \E m \in S : \A k \in S : ~(<<k, m>> \in OpToRel(<, Nat))
  BY <1>1, WFMin, Zenon
<1>3. OpToRel(<, Nat) = {ss \in Nat \X Nat : ss[1] < ss[2]}
  BY Zenon DEF OpToRel
<1> DEFINE R == {ss \in Nat \X Nat : ss[1] < ss[2]}
<1>4. \E m \in S : \A k \in S : <<k, m>> \notin R
  BY <1>2, <1>3, Zenon
<1>5. \A k, m \in S : <<k, m>> \notin R => m <= k
  OBVIOUS
<1> HIDE DEF R
<1> QED BY <1>4, <1>5

\* Readings have bounds, and so a least and a greatest one.
LEMMA ExtremesExist ==
    ASSUME NEW lo \in Int, NEW hi \in Int, NEW S \in SUBSET (lo..hi), S # {}
    PROVE  /\ \E m \in S : \A k \in S : m <= k
           /\ \E m \in S : \A k \in S : m >= k
<1>1. \E m \in S : \A k \in S : m <= k
  <2> DEFINE T == {n \in Nat : lo + n \in S}
  <2>1. \A k \in S : k \in Int /\ k - lo \in T /\ lo + (k - lo) = k
    OBVIOUS
  <2>2. T \in SUBSET Nat /\ T # {}
    BY <2>1
  <2>3. PICK t \in T : \A k \in T : t <= k
    BY <2>2, LeastNumber
  <2>4. lo + t \in S /\ t \in Nat
    OBVIOUS
  <2>5. \A k \in S : lo + t <= k
    BY <2>1, <2>3, <2>4
  <2> QED BY <2>4, <2>5
<1>2. \E m \in S : \A k \in S : m >= k
  <2> DEFINE T == {n \in Nat : hi - n \in S}
  <2>1. \A k \in S : k \in Int /\ hi - k \in T /\ hi - (hi - k) = k
    OBVIOUS
  <2>2. T \in SUBSET Nat /\ T # {}
    BY <2>1
  <2>3. PICK t \in T : \A k \in T : t <= k
    BY <2>2, LeastNumber
  <2>4. hi - t \in S /\ t \in Nat
    OBVIOUS
  <2> HIDE DEF T
  <2>5. \A k \in S : hi - t >= k
    BY <2>1, <2>3, <2>4
  <2> QED BY <2>4, <2>5
<1> QED BY <1>1, <1>2

LEMMA MinMaxFacts ==
    ASSUME NEW lo \in Int, NEW hi \in Int, NEW S \in SUBSET (lo..hi), S # {}
    PROVE  /\ Min(S) \in S /\ \A k \in S : Min(S) <= k
           /\ Max(S) \in S /\ \A k \in S : Max(S) >= k
<1>1. \E m \in S : \A k \in S : m <= k
  BY ExtremesExist
<1>2. \E m \in S : \A k \in S : m >= k
  BY ExtremesExist
<1> QED BY <1>1, <1>2 DEF Min, Max

\* _cell_extremes and _temp_extremes find an entry, whatever ties there are.
LEMMA ExtremeEntries ==
    ASSUME NEW lo \in Int, NEW hi \in Int, NEW entries, entries # {},
           \A e \in entries : e.value \in lo..hi
    PROVE  /\ Lowest(entries) \in entries
           /\ \A e \in entries : Lowest(entries).value <= e.value
           /\ Highest(entries) \in entries
           /\ \A e \in entries : Highest(entries).value >= e.value
<1> DEFINE values == {e.value : e \in entries}
<1>1. /\ values \in SUBSET (lo..hi) /\ values # {}
      /\ \A e \in entries : e.value \in values
      /\ \A v \in values : \E e \in entries : e.value = v
  OBVIOUS
<1> HIDE DEF values
<1>2. PICK v \in values : \A k \in values : v <= k
  BY <1>1, ExtremesExist
<1>3. PICK w \in values : \A k \in values : w >= k
  BY <1>1, ExtremesExist
<1>4. \E e \in entries : \A f \in entries : e.value <= f.value
  BY <1>1, <1>2
<1>5. \E e \in entries : \A f \in entries : e.value >= f.value
  BY <1>1, <1>3
<1> QED BY <1>4, <1>5 DEF Lowest, Highest

-----------------------------------------------------------------------------
(***************************************************************************)
(* Numbering: off counts the sensors of the packs before each of n packs.  *)
(***************************************************************************)
Counts(n, count, off) ==
    /\ n \in Nat /\ n >= 1
    /\ \A p \in 1..n : count[p] \in Nat
    /\ off[1] = 0
    /\ \A p \in 2..n : off[p] = off[p - 1] + count[p - 1]

\* The recursion of _offsets has a solution for every number of packs.
LEMMA RecursionSolved ==
    ASSUME NEW count, NEW n \in Nat
    PROVE  \E g : g = [p \in 1..n |-> IF p = 1 THEN 0 ELSE g[p - 1] + count[p - 1]]
<1> DEFINE Solves(g, k) == g = [p \in 1..k |-> IF p = 1 THEN 0 ELSE g[p - 1] + count[p - 1]]
           Bad == {k \in Nat : ~ \E g : Solves(g, k)}
<1> SUFFICES Bad = {}
  OBVIOUS
<1> SUFFICES ASSUME Bad # {} PROVE FALSE
  OBVIOUS
<1>1. PICK m \in Bad : \A k \in Bad : m <= k
  BY LeastNumber
<1>2. m # 0
  <2>1. Solves([p \in 1..0 |-> 0], 0)
    OBVIOUS
  <2> QED BY <2>1
<1>3. m - 1 \in Nat /\ m - 1 \notin Bad
  <2>1. Bad \subseteq Nat
    OBVIOUS
  <2> HIDE DEF Bad
  <2> QED BY <1>1, <1>2, <2>1
<1>4. PICK g : Solves(g, m - 1)
  BY <1>3
<1> DEFINE h == [p \in 1..m |-> IF p = 1 THEN 0 ELSE g[p - 1] + count[p - 1]]
<1>5. \A p \in 1..(m - 1) : h[p] = g[p]
  <2> TAKE p \in 1..(m - 1)
  <2>1. p \in 1..m
    BY <1>1
  <2> QED BY <1>4, <2>1
<1>6. \A p \in 1..m : p # 1 => h[p - 1] = g[p - 1]
  <2>1. \A p \in 1..m : p # 1 => p - 1 \in 1..(m - 1)
    BY <1>1
  <2> HIDE DEF h
  <2> QED BY <1>5, <2>1
<1>7. h = [p \in 1..m |-> IF p = 1 THEN 0 ELSE h[p - 1] + count[p - 1]]
  <2> DEFINE r == [p \in 1..m |-> IF p = 1 THEN 0 ELSE h[p - 1] + count[p - 1]]
  <2>1. \A p \in 1..m : h[p] = r[p]
    BY <1>6
  <2>2. h = [p \in 1..m |-> h[p]] /\ r = [p \in 1..m |-> r[p]]
    OBVIOUS
  <2> HIDE DEF h, r
  <2>3. h = r
    BY <2>1, <2>2
  <2> QED BY <2>3 DEF r
<1> HIDE DEF h
<1>8. \E q : Solves(q, m)
  BY <1>7
<1> QED BY <1>8

LEMMA OffsetsCount ==
    ASSUME NEW n \in Nat, n >= 1, Packs = 1..n, NEW count, \A p \in 1..n : count[p] \in Nat
    PROVE  Counts(n, count, Offsets(count))
<1> DEFINE o == Offsets(count)
<1>1. \E g : g = [p \in 1..n |-> IF p = 1 THEN 0 ELSE g[p - 1] + count[p - 1]]
  BY RecursionSolved, Zenon
<1>2. o = [p \in Packs |-> IF p = 1 THEN 0 ELSE o[p - 1] + count[p - 1]]
  BY <1>1 DEF Offsets
<1> HIDE DEF o
<1>3. \A p \in Packs : o[p] = IF p = 1 THEN 0 ELSE o[p - 1] + count[p - 1]
  BY <1>2
<1>4. o[1] = 0 /\ \A p \in 2..n : o[p] = o[p - 1] + count[p - 1]
  BY <1>3
<1> QED BY <1>4 DEF Counts, o

LEMMA OffsetNumbers ==
    ASSUME NEW n, NEW count, NEW off, Counts(n, count, off)
    PROVE  \A p \in 1..n : off[p] \in Nat
<1> USE DEF Counts
<1> DEFINE Bad == {p \in 1..n : off[p] \notin Nat}
<1> SUFFICES ASSUME Bad # {} PROVE FALSE
  OBVIOUS
<1>0. Bad \in SUBSET Nat
  OBVIOUS
<1>1. PICK m \in Bad : \A k \in Bad : m <= k
  BY <1>0, LeastNumber
<1>2. m \in 2..n /\ m - 1 \in 1..n
  BY <1>1
<1>3. off[m - 1] \in Nat
  BY <1>1, <1>2
<1> QED BY <1>2, <1>3

\* The numbers of different packs do not overlap.
LEMMA OffsetsGrow ==
    ASSUME NEW n, NEW count, NEW off, Counts(n, count, off),
           NEW p \in 1..n, NEW q \in 1..n, p < q
    PROVE  off[p] + count[p] <= off[q]
<1> USE DEF Counts
<1> DEFINE Bad == {k \in 1..n : p < k /\ ~(off[p] + count[p] <= off[k])}
<1> SUFFICES ASSUME Bad # {} PROVE FALSE
  OBVIOUS
<1>0. Bad \in SUBSET Nat
  OBVIOUS
<1>1. PICK m \in Bad : \A k \in Bad : m <= k
  BY <1>0, LeastNumber
<1>2. m \in 2..n /\ m - 1 \in 1..n /\ p <= m - 1
  BY <1>1
<1>3. /\ off[m - 1] \in Nat /\ off[p] \in Nat /\ count[p] \in Nat /\ count[m - 1] \in Nat
      /\ off[m] = off[m - 1] + count[m - 1]
  BY <1>2, OffsetNumbers
<1>4. CASE p = m - 1
  BY <1>1, <1>3, <1>4
<1>5. CASE p < m - 1
  <2>1. off[p] + count[p] <= off[m - 1]
    BY <1>1, <1>2, <1>5
  <2> QED BY <1>1, <1>3, <2>1
<1> QED BY <1>2, <1>4, <1>5

\* Every number up to the last one is that of a sensor.
LEMMA OffsetsCover ==
    ASSUME NEW n, NEW count, NEW off, Counts(n, count, off),
           NEW k \in Nat, 1 <= k, k <= off[n] + count[n]
    PROVE  \E p \in 1..n : \E i \in 1..count[p] : off[p] + i = k
<1> USE DEF Counts
<1> DEFINE S == {p \in 1..n : k <= off[p] + count[p]}
<1>1. S \in SUBSET Nat /\ n \in S
  OBVIOUS
<1>2. PICK p \in S : \A q \in S : p <= q
  BY <1>1, LeastNumber
<1>3. p \in 1..n /\ off[p] \in Nat /\ count[p] \in Nat
  BY <1>2, OffsetNumbers
<1>4. off[p] < k
  <2>1. CASE p = 1
    BY <2>1
  <2>2. CASE p # 1
    <3>1. p \in 2..n /\ p - 1 \in 1..n
      BY <1>3, <2>2
    <3>2. off[p - 1] \in Nat /\ count[p - 1] \in Nat /\ off[p] = off[p - 1] + count[p - 1]
      BY <3>1, OffsetNumbers
    <3> QED BY <1>2, <3>1, <3>2
  <2> QED BY <2>1, <2>2
<1>5. k - off[p] \in 1..count[p] /\ off[p] + (k - off[p]) = k
  BY <1>2, <1>3, <1>4
<1> QED BY <1>3, <1>5

\* Finite sets of sensors <<pack, index>>.
LEMMA PackSensors ==
    ASSUME NEW p, NEW k \in Nat
    PROVE  IsFiniteSet({p} \X (1..k)) /\ Cardinality({p} \X (1..k)) = k
<1>1. IsFiniteSet({p}) /\ Cardinality({p}) = 1
  BY FS_Singleton
<1>2. IsFiniteSet(1..k) /\ Cardinality(1..k) = k
  BY FS_Interval
<1> DEFINE one == {p}
           several == 1..k
<1> HIDE DEF one, several
<1>3. IsFiniteSet(one \X several) /\ Cardinality(one \X several) = Cardinality(one) * Cardinality(several)
  BY <1>1, <1>2, FS_Product DEF one, several
<1>4. Cardinality(one) = 1 /\ Cardinality(several) = k /\ 1 * k = k
  BY <1>1, <1>2 DEF one, several
<1>5. Cardinality(one \X several) = k
  BY <1>3, <1>4
<1> QED BY <1>3, <1>5 DEF one, several

LEMMA DisjointCardinality ==
    ASSUME NEW S, NEW T, IsFiniteSet(S), IsFiniteSet(T), S \cap T = {}
    PROVE  IsFiniteSet(S \cup T) /\ Cardinality(S \cup T) = Cardinality(S) + Cardinality(T)
<1>1. IsFiniteSet(S \cup T) /\ Cardinality(S \cup T) = Cardinality(S) + Cardinality(T) - Cardinality(S \cap T)
  BY FS_Union
<1>2. Cardinality(S \cap T) = 0
  BY FS_EmptySet
<1>3. Cardinality(S) \in Nat /\ Cardinality(T) \in Nat
  BY FS_CardinalityType
<1> QED BY <1>1, <1>2, <1>3

LEMMA BeforePack ==
    ASSUME NEW n, NEW count, NEW off, Counts(n, count, off), Packs = 1..n
    PROVE  \A p \in 1..n :
              LET before == {c \in Configured(count) : c[1] < p}
              IN IsFiniteSet(before) /\ Cardinality(before) = off[p]
<1> DEFINE before(p) == {c \in Configured(count) : c[1] < p}
           Bad == {p \in 1..n : ~(IsFiniteSet(before(p)) /\ Cardinality(before(p)) = off[p])}
<1> SUFFICES ASSUME Bad # {} PROVE FALSE
  OBVIOUS
<1>1. n \in Nat /\ n >= 1
  BY DEF Counts
<1>2. Bad \in SUBSET Nat
  BY <1>1
<1>3. PICK m \in Bad : \A k \in Bad : m <= k
  BY <1>2, LeastNumber
<1>4. m \in 1..n /\ ~(IsFiniteSet(before(m)) /\ Cardinality(before(m)) = off[m])
  OBVIOUS
<1>5. CASE m = 1
  <2>1. \A c \in Configured(count) : c[1] \in 1..n
    BY DEF Configured
  <2>2. before(m) = {}
    BY <1>1, <1>5, <2>1
  <2> QED BY <1>4, <1>5, <2>2, FS_EmptySet DEF Counts
<1>6. CASE m # 1
  <2>1. m - 1 \in 1..n /\ m - 1 \notin Bad /\ m \in 2..n
    <3> HIDE DEF Bad
    <3> QED BY <1>1, <1>3, <1>4, <1>6
  <2>2. IsFiniteSet(before(m - 1)) /\ Cardinality(before(m - 1)) = off[m - 1]
    BY <2>1
  <2>3. count[m - 1] \in Nat /\ off[m] = off[m - 1] + count[m - 1]
    BY <2>1 DEF Counts
  <2> DEFINE here == {m - 1} \X (1..count[m - 1])
  <2>4. \A c : c \in Configured(count) <=> \E p \in 1..n : c \in {p} \X (1..count[p])
    BY DEF Configured
  <2>5. before(m) = before(m - 1) \cup here
    <3>1. \A c \in here : c \in before(m)
      BY <1>1, <1>4, <2>1, <2>4
    <3>2. \A c \in before(m) : c[1] < m - 1 \/ c \in here
      BY <1>1, <1>4, <2>1, <2>4
    <3>3. \A c \in before(m - 1) : c \in before(m)
      BY <1>1, <1>4, <2>1, <2>4
    <3> QED BY <3>1, <3>2, <3>3
  <2>6. before(m - 1) \cap here = {}
    BY <1>1, <1>4
  <2>7. IsFiniteSet(here) /\ Cardinality(here) = count[m - 1]
    BY <2>3, PackSensors
  <2> HIDE DEF before, here
  <2>8. IsFiniteSet(before(m)) /\ Cardinality(before(m)) = off[m]
    BY <2>2, <2>3, <2>5, <2>6, <2>7, DisjointCardinality
  <2> QED BY <1>4, <2>8
<1> QED BY <1>5, <1>6

\* Counting from the first pack, a sensor's place is its number.
LEMMA PlaceIsNumber ==
    ASSUME NEW n, NEW count, NEW off, Counts(n, count, off), Packs = 1..n,
           NEW p \in 1..n, NEW i \in 1..count[p]
    PROVE  Place(count, p, i) = off[p] + i
<1> DEFINE before == {c \in Configured(count) : c[1] < p}
           here == {p} \X (1..i)
           place == {c \in Configured(count) : c[1] < p \/ (c[1] = p /\ c[2] <= i)}
<1>1. n \in Nat /\ n >= 1 /\ count[p] \in Nat
  BY DEF Counts
<1>2. \A c : c \in Configured(count) <=> \E q \in 1..n : c \in {q} \X (1..count[q])
  BY DEF Configured
<1>3. IsFiniteSet(before) /\ Cardinality(before) = off[p]
  BY BeforePack
<1>4. IsFiniteSet(here) /\ Cardinality(here) = i
  <2>1. i \in Nat
    BY <1>1
  <2> QED BY <2>1, PackSensors
<1>5. place = before \cup here
  <2>1. \A c \in here : c \in place
    BY <1>1, <1>2
  <2>2. \A c \in place : c \in before \/ c \in here
    BY <1>1, <1>2
  <2> QED BY <2>1, <2>2
<1>6. before \cap here = {}
  BY <1>1
<1>7. Place(count, p, i) = Cardinality(place)
  BY DEF Place
<1> HIDE DEF before, here, place
<1> QED BY <1>3, <1>4, <1>5, <1>6, <1>7, DisjointCardinality

-----------------------------------------------------------------------------
(***************************************************************************)
(* What start-up settles of the inventory and the thresholds.              *)
(***************************************************************************)
Settled ==
    /\ DOMAIN config = Setting /\ Inv.count \in Int
    /\ ~Explicit => /\ Inv.cells \in Int /\ Inv.temps \in Nat /\ Inv.first \in Int
                    /\ config.alarms \in DOMAIN Thresholds
    /\ Explicit => /\ topology.members \in Seq(Member) /\ Inv.count = Len(topology.members)
                   /\ \A i \in DOMAIN topology.members :
                        topology.members[i].cells >= 1 /\ topology.members[i].temps >= 1
                   /\ topology.output = "managed" => topology.profile \in DOMAIN Thresholds

\* A service with a topology alarms by that topology's profile.
Profiled ==
    Explicit => config.alarms = topology.profile /\ topology.profile \in DOMAIN Thresholds

\* The paths exist, one for every cell.
Path == {"connected", "comm", "internal", "alarm", "cell", "minV", "minVId", "maxV", "maxVId",
         "minT", "minTId", "maxT", "maxTId"}
Shaped(s) == DOMAIN s = Path /\ DOMAIN s.cell = 0..(TotalCells - 1)

\* The entry that is written last to the path of a number.
EntryAt(d, id) == CHOOSE e \in LastAt(AllCells(d), id) : TRUE

\* Every group of the paths s is that of the snapshot d.
Displays(s, d) ==
    /\ s.comm = 0
    /\ \A i \in 0..(TotalCells - 1) :
         LastAt(AllCells(d), i + 1) # {} =>
            s.cell[i] = EntryAt(d, i + 1).value
    /\ s.minV = Lowest(AllCells(d)).value /\ s.minVId = Lowest(AllCells(d)).id
    /\ s.maxV = Highest(AllCells(d)).value /\ s.maxVId = Highest(AllCells(d)).id
    /\ s.minT = TempExtremes(d).minT /\ s.minTId = TempExtremes(d).minTId
    /\ s.maxT = TempExtremes(d).maxT /\ s.maxTId = TempExtremes(d).maxTId
    /\ s.alarm = AlarmsOf(d) /\ s.internal = Severity(d.blocking # {}, FALSE)

Waiting == phase = "constructing" /\ paths # None

\* The inductive invariant of the panel.
PanelInv ==
    /\ phase = "start" =>
         /\ args \in Arguments
         /\ disk.explicit \in Files \cup {NoFile} /\ disk.ambient \in Files \cup {NoFile}
         /\ disk.manifest \in Manifests \cup {NoFile}
    /\ phase \in {"loaded", "observing", "constructing", "serving"} => Settled
    /\ phase \in {"constructing", "serving"} => Profiled
    /\ phase \in {"start", "loaded", "observing"} => paths = None
    /\ Waiting \/ phase = "serving" => Shaped(paths)
    /\ Shown => shown \in Readable /\ Displays(paths, shown)

-----------------------------------------------------------------------------
\* A file, there or not, leaves a numeric inventory and known thresholds.
LEMMA FileSettles ==
    ASSUME NEW file \in Files \cup {NoFile}, file # Malformed
    PROVE  /\ FromFile(file)["inventory"] \in Inventory
           /\ FromFile(file)["alarms"] \in DOMAIN Thresholds
<1>1. Defaults["inventory"] \in Inventory /\ Defaults["alarms"] \in DOMAIN Thresholds
  BY PanelAssumption DEF Defaults, Inventory
<1>2. file # NoFile =>
        /\ "inventory" \in DOMAIN file => file["inventory"] \in Inventory
        /\ "alarms" \in DOMAIN file => file["alarms"] \in DOMAIN Thresholds
  BY StartupAssumption, PanelAssumption DEF Sources
<1>3. "inventory" \in Setting /\ "alarms" \in Setting
  BY DEF Setting
<1> QED BY <1>1, <1>2, <1>3 DEF FromFile, Override

\* load_config, with or without a manifest.
LEMMA LoadSettles ==
    ASSUME PanelInv, LoadConfig
    PROVE  Settled'
<1> DEFINE f == FromFile(ConfigFile)
<1>1. /\ phase = "start" /\ args \in Arguments
      /\ disk.explicit \in Files \cup {NoFile} /\ disk.ambient \in Files \cup {NoFile}
      /\ disk.manifest \in Manifests \cup {NoFile}
  BY DEF LoadConfig, PanelInv
<1>2. PICK l \in Loaded : Valid(l[1]) /\ config' = l[1] /\ topology' = l[2]
  BY DEF LoadConfig
<1>3. ~UsageError /\ ConfigFile # Malformed
  BY DEF Loaded
<1>4. ConfigFile \in Files \cup {NoFile}
  BY <1>1 DEF ConfigFile
<1>5. DOMAIN f = Setting /\ f["inventory"] \in Inventory /\ f["alarms"] \in DOMAIN Thresholds
  BY <1>3, <1>4, FromFileFacts, FileSettles
<1> HIDE DEF f
<1>6. CASE ~args.topology
  <2>1. l = <<Override(f, args.options), NoChain>>
    BY <1>3, <1>6 DEF Loaded, f
  <2>2. config' = Override(f, args.options) /\ topology' = NoChain
    BY <1>2, <2>1
  <2>3. args.options \in Sources
    BY <1>1 DEF Sources
  <2>4. "inventory" \in Setting /\ "alarms" \in Setting
    BY DEF Setting
  <2>5. config'["inventory"] \in Inventory /\ config'["alarms"] \in DOMAIN Thresholds
    BY <1>5, <2>2, <2>3, <2>4, StartupAssumption, PanelAssumption DEF Override
  <2>6. config'.inventory.temps >= 1
    BY <1>2 DEF Valid
  <2>7. DOMAIN config' = Setting
    BY <2>2 DEF Override
  <2> QED BY <2>2, <2>5, <2>6, <2>7 DEF Settled, Explicit, Inv, Inventory
<1>7. CASE args.topology
  <2>1. ValidManifest(disk.manifest)
    BY <1>3, <1>7 DEF Loaded
  <2>2. PICK chain \in Selected(disk.manifest, args.chain) :
          l = <<Override(WithManifest(f, chain), args.options), chain>>
    BY <1>3, <1>7, <2>1 DEF Loaded, f
  <2>3. config' = Override(WithManifest(f, chain), args.options) /\ topology' = chain
    BY <1>2, <2>2
  <2>4. PICK i \in DOMAIN disk.manifest : disk.manifest[i] = chain
    BY DEF Selected
  <2>5. disk.manifest \in Manifests \ {Malformed}
    BY <1>1, <2>1 DEF ValidManifest
  <2>6. chain \in Chains
    BY <2>4, <2>5 DEF Chains
  <2>7. chain # NoChain /\ chain.members \in Seq(Member)
    BY <2>6, StartupAssumption
  <2>8. ValidChain(chain)
    BY <2>1, <2>4 DEF ValidManifest
  <2>9. chain.output = "managed" => chain.profile \in DOMAIN Thresholds
    BY <2>6, <2>8, PanelAssumption DEF ValidChain, ProtectionFits
  <2>10. config'["inventory"].count = Len(chain.members) /\ DOMAIN config' = Setting
    <3>1. Conflicting \cap DOMAIN args.options = {}
      BY <1>3, <1>7 DEF UsageError
    <3>2. "inventory" \in Setting /\ "inventory" \notin DOMAIN args.options
      BY <3>1 DEF Setting, Conflicting
    <3>3. WithManifest(f, chain)["inventory"].count = Len(chain.members)
      BY <1>5, WithManifestFacts
    <3>4. config'["inventory"] = WithManifest(f, chain)["inventory"] /\ DOMAIN config' = Setting
      BY <2>3, <3>2 DEF Override
    <3> QED BY <3>3, <3>4
  <2>11. Len(chain.members) \in Nat
    BY <2>7
  <2> QED BY <2>3, <2>7, <2>8, <2>9, <2>10, <2>11 DEF Settled, Explicit, Inv, ValidChain
<1> QED BY <1>6, <1>7

-----------------------------------------------------------------------------
(***************************************************************************)
(* Publication.                                                            *)
(***************************************************************************)
\* One group of paths each; the others keep what they have.
LEMMA AvailableWrites ==
    ASSUME NEW s, NEW d, Shaped(s)
    PROVE  LET s1 == ShowAvailable(s, d) IN Shaped(s1) /\ s1.comm = 0
BY DEF ShowAvailable, Shaped, Path

LEMMA CellsWrite ==
    ASSUME NEW s, NEW d, Shaped(s)
    PROVE  LET s2 == ShowCells(s, d) IN
           /\ Shaped(s2) /\ s2.comm = s.comm
           /\ \A i \in 0..(TotalCells - 1) :
                LastAt(AllCells(d), i + 1) # {} =>
                   s2.cell[i] = EntryAt(d, i + 1).value
           /\ s2.minV = Lowest(AllCells(d)).value /\ s2.minVId = Lowest(AllCells(d)).id
           /\ s2.maxV = Highest(AllCells(d)).value /\ s2.maxVId = Highest(AllCells(d)).id
BY DEF ShowCells, Shaped, Path, EntryAt

LEMMA TempsWrite ==
    ASSUME NEW s, NEW d, Shaped(s)
    PROVE  LET s3 == ShowTemps(s, d) IN
           /\ Shaped(s3)
           /\ \A x \in {"comm", "cell", "minV", "minVId", "maxV", "maxVId"} : s3[x] = s[x]
           /\ s3.minT = TempExtremes(d).minT /\ s3.minTId = TempExtremes(d).minTId
           /\ s3.maxT = TempExtremes(d).maxT /\ s3.maxTId = TempExtremes(d).maxTId
BY DEF ShowTemps, Shaped, Path

LEMMA AlarmsWrite ==
    ASSUME NEW s, NEW d, Shaped(s)
    PROVE  LET s4 == ShowAlarms(s, d) IN
           /\ Shaped(s4) /\ \A x \in Path \ {"alarm", "internal"} : s4[x] = s[x]
           /\ s4.alarm = AlarmsOf(d) /\ s4.internal = Severity(d.blocking # {}, FALSE)
BY DEF ShowAlarms, Shaped, Path

\* _publish_snapshot: a complete update displays its snapshot whatever the
\* paths held before, and one cut short leaves a path for every cell.
LEMMA PublishDisplays ==
    ASSUME NEW s, NEW d, Shaped(s)
    PROVE  /\ Displays(Written(4, s, d), d)
           /\ \A n \in 0..4 : Shaped(Written(n, s, d))
<1> DEFINE s1 == ShowAvailable(s, d)
           s2 == ShowCells(s1, d)
           s3 == ShowTemps(s2, d)
           s4 == ShowAlarms(s3, d)
<1>0. /\ Written(0, s, d) = s /\ Written(1, s, d) = s1 /\ Written(2, s, d) = s2
      /\ Written(3, s, d) = s3 /\ Written(4, s, d) = s4
  BY DEF Written
<1>1. Shaped(s1) /\ s1.comm = 0
  BY AvailableWrites
<1> HIDE DEF s1
<1>2. /\ Shaped(s2) /\ s2.comm = s1.comm
      /\ \A i \in 0..(TotalCells - 1) :
           LastAt(AllCells(d), i + 1) # {} =>
              s2.cell[i] = EntryAt(d, i + 1).value
      /\ s2.minV = Lowest(AllCells(d)).value /\ s2.minVId = Lowest(AllCells(d)).id
      /\ s2.maxV = Highest(AllCells(d)).value /\ s2.maxVId = Highest(AllCells(d)).id
  BY <1>1, CellsWrite
<1> HIDE DEF s2
<1>3. /\ Shaped(s3)
      /\ \A x \in {"comm", "cell", "minV", "minVId", "maxV", "maxVId"} : s3[x] = s2[x]
      /\ s3.minT = TempExtremes(d).minT /\ s3.minTId = TempExtremes(d).minTId
      /\ s3.maxT = TempExtremes(d).maxT /\ s3.maxTId = TempExtremes(d).maxTId
  BY <1>2, TempsWrite
<1> HIDE DEF s3
<1>4. /\ Shaped(s4) /\ \A x \in Path \ {"alarm", "internal"} : s4[x] = s3[x]
      /\ s4.alarm = AlarmsOf(d) /\ s4.internal = Severity(d.blocking # {}, FALSE)
  BY <1>3, AlarmsWrite
<1> HIDE DEF s4
<1>5. \A x \in {"comm", "cell", "minV", "minVId", "maxV", "maxVId", "minT", "minTId", "maxT", "maxTId"} :
        s4[x] = s3[x]
  BY <1>4 DEF Path
<1>6. Displays(s4, d)
  BY <1>1, <1>2, <1>3, <1>4, <1>5 DEF Displays
<1>7. \A n \in 0..4 : n = 0 \/ n = 1 \/ n = 2 \/ n = 3 \/ n = 4
  OBVIOUS
<1> QED BY <1>0, <1>1, <1>2, <1>3, <1>4, <1>6, <1>7

\* _set_unavailable disconnects.
LEMMA UnavailableFacts ==
    ASSUME NEW s, NEW ready, Shaped(s)
    PROVE  Shaped(Unavailable(s, ready)) /\ Unavailable(s, ready).connected = FALSE
BY DEF Unavailable, Shaped, Path

\* Everything about the chain is a function of config and topology.
LEMMA ChainUnchanged ==
    ASSUME UNCHANGED <<config, topology>>
    PROVE  /\ Settled' = Settled /\ Profiled' = Profiled /\ Readable' = Readable
           /\ \A s, d : Displays(s, d)' = Displays(s, d)
           /\ \A s : Shaped(s)' = Shaped(s)
<1>1. UNCHANGED <<Explicit, Inv, Packs, First>>
  BY DEF Explicit, Inv, Packs, First
<1>2. UNCHANGED <<CellCount, TempCount>>
  BY <1>1 DEF CellCount, TempCount
<1>3. \A count : Offsets(count)' = Offsets(count)
  BY <1>1 DEF Offsets
<1>4. UNCHANGED <<TotalCells, CellOffset, TempOffset>>
  BY <1>1, <1>2, <1>3 DEF TotalCells, CellOffset, TempOffset
<1>5. \A d : Complete(d)' = Complete(d)
  BY <1>1, <1>2 DEF Complete
<1>6. UNCHANGED Readable
  BY <1>5 DEF Readable
<1>7. UNCHANGED <<Settled, Profiled>>
  BY <1>1 DEF Settled, Profiled
<1>8. \A d : AllCells(d)' = AllCells(d) /\ AllTemps(d)' = AllTemps(d)
  BY <1>1, <1>4 DEF AllCells, AllTemps
<1>9. \A d : NumberedTemps(d)' = NumberedTemps(d)
  BY <1>1, <1>2, <1>4 DEF NumberedTemps
<1>10. \A d : TempExtremes(d)' = TempExtremes(d)
  BY <1>8, <1>9 DEF TempExtremes
<1>11. \A d : Volt(d)' = Volt(d) /\ Soc(d)' = Soc(d)
  <2>1. \A d : Soc(d)' = Soc(d)
    BY <1>1 DEF Soc
  <2>2. \A d : Volt(d)' = Volt(d)
    BY <1>1 DEF Volt, MapThenSumSet, MapThenFoldSet
  <2> QED BY <2>1, <2>2
<1>12. \A d : AlarmsOf(d)' = AlarmsOf(d)
  BY <1>1, <1>4, <1>8, <1>10, <1>11 DEF AlarmsOf, ImbalanceCritical
<1>13. \A s : Shaped(s)' = Shaped(s)
  BY <1>4 DEF Shaped
<1>14. \A s, d : Displays(s, d)' = Displays(s, d)
  <2>1. \A d, id : EntryAt(d, id)' = EntryAt(d, id)
    BY <1>8 DEF EntryAt
  <2> TAKE s, d
  <2> DEFINE cells == \A i \in 0..(TotalCells - 1) :
                         LastAt(AllCells(d), i + 1) # {} => s.cell[i] = EntryAt(d, i + 1).value
  <2>2. AllCells(d)' = AllCells(d) /\ TempExtremes(d)' = TempExtremes(d) /\ AlarmsOf(d)' = AlarmsOf(d)
    BY <1>8, <1>10, <1>12
  <2>3. cells' <=> cells
    BY <1>4, <2>1, <2>2
  <2> QED BY <2>2, <2>3 DEF Displays
<1> QED BY <1>6, <1>7, <1>13, <1>14

-----------------------------------------------------------------------------
(***************************************************************************)
(* PanelInv is inductive.                                                  *)
(***************************************************************************)
LEMMA BootKeepsPanel ==
    ASSUME PanelInv, Start
    PROVE  PanelInv'
<1> USE DEF PanelInv
<1>1. Boot
  BY DEF Start
<1>2. UNCHANGED paths
  BY DEF Start, panel
<1>3. CASE LoadConfig
  <2>1. phase = "start" /\ phase' = "loaded"
    BY <1>3 DEF LoadConfig
  <2> QED BY <1>2, <1>3, <2>1, LoadSettles DEF Waiting, Shown
<1>4. CASE LoadFails \/ StartFails \/ StopObserving
  <2>1. phase' = "exited"
    BY <1>4 DEF LoadFails, StartFails, StopObserving, Exit
  <2> QED BY <2>1 DEF Waiting, Shown
<1>5. CASE Observe
  <2>1. phase = "loaded" /\ phase' = "observing" /\ UNCHANGED <<config, topology>>
    BY <1>5 DEF Observe
  <2> QED BY <1>2, <2>1, ChainUnchanged DEF Waiting, Shown
<1>6. CASE Serve
  <2>1. /\ phase = "loaded" /\ phase' = "constructing" /\ UNCHANGED topology
        /\ topology # NoChain => topology.output = "managed"
        /\ config' = IF topology = NoChain THEN config ELSE [config EXCEPT !.alarms = topology.profile]
    BY <1>6 DEF Serve, MayRun
  <2>2. Settled
    BY <2>1
  <2>3. /\ DOMAIN config' = Setting /\ config'["inventory"] = config["inventory"]
        /\ topology = NoChain => config' = config
        /\ topology # NoChain => config'["alarms"] = topology.profile
    BY <2>1, <2>2 DEF Settled, Setting
  <2>4. Settled' /\ Profiled'
    BY <2>1, <2>2, <2>3 DEF Settled, Profiled, Explicit, Inv
  <2>5. paths' = None
    BY <1>2, <2>1
  <2> QED BY <2>1, <2>4, <2>5 DEF Waiting, Shown
<1> QED BY <1>1, <1>3, <1>4, <1>5, <1>6 DEF Boot

\* Every update, whole or cut short, leaves what the next one relies on.
LEMMA PollKeepsPanel ==
    ASSUME PanelInv, Poll
    PROVE  PanelInv'
<1>1. /\ phase \in {"constructing", "serving"} /\ paths # None /\ UNCHANGED <<config, topology>>
      /\ phase' \in {"serving", "exited"}
  BY DEF Poll, Update, UpdateUnavailable, UpdateFails, Constructed
<1>2. Settled /\ Profiled /\ Shaped(paths)
  BY <1>1 DEF PanelInv, Waiting
<1>3. Settled' /\ Profiled'
  BY <1>1, <1>2, ChainUnchanged
<1> SUFFICES ASSUME phase' = "serving"
             PROVE  Shaped(paths)' /\ (Shown' => shown' \in Readable' /\ Displays(paths, shown)')
  BY <1>1, <1>3 DEF PanelInv, Waiting, Shown
<1>4. CASE Update
  <2>1. shown' \in Readable /\ paths' = Written(4, paths, shown')
    BY <1>4 DEF Update
  <2>2. Displays(paths', shown') /\ Shaped(paths')
    BY <1>2, <2>1, PublishDisplays
  <2> QED BY <1>1, <2>1, <2>2, ChainUnchanged
<1>5. CASE UpdateUnavailable
  <2>1. paths' = Unavailable(paths, hasReady)
    BY <1>5 DEF UpdateUnavailable
  <2>2. Shaped(paths') /\ paths'.connected = FALSE
    BY <1>2, <2>1, UnavailableFacts
  <2> QED BY <1>1, <2>2, ChainUnchanged DEF Shown
<1>6. CASE UpdateFails
  <2>1. PICK d \in Readable, n \in 0..4 : paths' = Unavailable(Written(n, paths, d), hasReady')
    BY <1>6 DEF UpdateFails
  <2>2. Shaped(Written(n, paths, d))
    BY <1>2, PublishDisplays
  <2>3. Shaped(paths') /\ paths'.connected = FALSE
    BY <2>1, <2>2, UnavailableFacts
  <2> QED BY <1>1, <2>3, ChainUnchanged DEF Shown
<1> QED BY <1>4, <1>5, <1>6 DEF Poll

LEMMA NextPanelInv ==
    ASSUME PanelInv, [Next]_vars
    PROVE  PanelInv'
<1>1. CASE Start
  BY <1>1, BootKeepsPanel
<1>2. CASE SetupPaths
  <2>1. phase = "constructing" /\ phase' = phase /\ UNCHANGED <<config, topology>> /\ paths' = NoPaths
    BY <1>2 DEF SetupPaths
  <2>2. Shaped(NoPaths)
    BY DEF Shaped, NoPaths, Path
  <2> QED BY <2>1, <2>2, ChainUnchanged DEF PanelInv, Waiting, Shown
<1>3. CASE Poll
  BY <1>3, PollKeepsPanel
<1>4. CASE Receive \/ UNCHANGED vars
  <2>1. UNCHANGED <<phase, args, disk, config, topology, paths, shown>>
    BY <1>4 DEF Receive, vars, panel, startup
  <2>2. /\ Shaped(paths)' = Shaped(paths)
        /\ Displays(paths, shown)' = Displays(paths, shown)
    BY <2>1, ChainUnchanged
  <2>3. (Waiting' <=> Waiting) /\ (Shown' <=> Shown)
    BY <2>1 DEF Waiting, Shown
  <2> QED BY <2>1, <2>2, <2>3, ChainUnchanged DEF PanelInv
<1> QED BY <1>1, <1>2, <1>3, <1>4 DEF Next

LEMMA SpecPanelInv == Spec => []PanelInv
<1>1. PanelInit => PanelInv
  BY DEF PanelInit, Init, PanelInv, Waiting, Shown
<1>2. PanelInv /\ [Next]_vars => PanelInv'
  BY NextPanelInv
<1> QED BY <1>1, <1>2, PTL DEF Spec

-----------------------------------------------------------------------------
(***************************************************************************)
(* Numbers of cells and temperatures.                                      *)
(***************************************************************************)
\* A constant stride counts like _offsets does.
LEMMA StrideCounts ==
    ASSUME NEW n \in Nat, n >= 1, NEW stride \in Nat, NEW count, NEW off,
           \A p \in 1..n : count[p] = stride /\ off[p] = (p - 1) * stride
    PROVE  Counts(n, count, off) /\ off[n] + count[n] = n * stride
<1>1. \A a \in Int : (a + 1) * stride = a * stride + stride
  OBVIOUS
<1>2. off[1] = 0
  <2>1. 1 \in 1..n /\ (1 - 1) * stride = 0
    OBVIOUS
  <2> QED BY <2>1
<1>3. \A p \in 2..n : off[p] = off[p - 1] + count[p - 1]
  <2> TAKE p \in 2..n
  <2>1. p \in 1..n /\ p - 1 \in 1..n /\ p - 2 \in Int /\ (p - 2) + 1 = p - 1 /\ (p - 1) - 1 = p - 2
    OBVIOUS
  <2>2. off[p] = (p - 1) * stride /\ off[p - 1] = (p - 2) * stride /\ count[p - 1] = stride
    BY <2>1
  <2>3. ((p - 2) + 1) * stride = (p - 2) * stride + stride
    BY <1>1, <2>1
  <2> QED BY <2>1, <2>2, <2>3
<1>4. off[n] + count[n] = n * stride
  <2>1. n \in 1..n /\ n - 1 \in Int /\ (n - 1) + 1 = n
    OBVIOUS
  <2>2. ((n - 1) + 1) * stride = (n - 1) * stride + stride
    BY <1>1, <2>1
  <2> QED BY <2>1, <2>2
<1> QED BY <1>2, <1>3, <1>4 DEF Counts

LEMMA ExplicitCounts ==
    ASSUME Settled, Explicit, NEW n, n = Inv.count, n >= 1
    PROVE  /\ n \in Nat /\ Packs = 1..n
           /\ \A p \in 1..n : CellCount[p] \in Nat /\ TempCount[p] \in Nat
<1>1. n \in Nat /\ Packs = 1..n /\ n = Len(topology.members) /\ topology.members \in Seq(Member)
  BY DEF Settled, Packs
<1>2. DOMAIN topology.members = 1..n
  BY <1>1
<1>3. \A p \in 1..n : topology.members[p] \in Member
  BY <1>1
<1>4. \A p \in 1..n : topology.members[p].cells \in Nat /\ topology.members[p].temps \in Nat
  <2>1. \A p \in 1..n : topology.members[p].cells >= 1 /\ topology.members[p].temps >= 1
    BY <1>2 DEF Settled
  <2>2. \A p \in 1..n : topology.members[p].cells \in Int /\ topology.members[p].temps \in Int
    BY <1>3 DEF Member
  <2> QED BY <2>1, <2>2
<1> QED BY <1>1, <1>4 DEF CellCount, TempCount

\* Temperature numbers never overlap.
LEMMA TempCounts ==
    ASSUME Settled, Packs # {}
    PROVE  Counts(Inv.count, TempCount, TempOffset) /\ Packs = 1..Inv.count
<1> DEFINE n == Inv.count
<1>1. n \in Nat /\ n >= 1 /\ Packs = 1..n
  BY DEF Settled, Packs
<1> HIDE DEF n
<1>2. CASE Explicit
  <2>1. \A p \in 1..n : TempCount[p] \in Nat
    BY <1>1, <1>2, ExplicitCounts DEF n
  <2>2. Counts(n, TempCount, Offsets(TempCount))
    BY <1>1, <2>1, OffsetsCount
  <2>3. TempOffset = Offsets(TempCount)
    BY <1>2 DEF TempOffset
  <2> QED BY <1>1, <2>2, <2>3 DEF n
<1>3. CASE ~Explicit
  <2>1. Inv.temps \in Nat
    BY <1>3 DEF Settled
  <2>2. \A p \in 1..n : TempCount[p] = Inv.temps /\ TempOffset[p] = (p - 1) * Inv.temps
    BY <1>1, <1>3 DEF TempCount, TempOffset
  <2>3. Counts(n, TempCount, TempOffset)
    BY <1>1, <2>1, <2>2, StrideCounts
  <2> QED BY <1>1, <2>3 DEF n
<1> QED BY <1>2, <1>3

\* Cell numbers run from one to the number of paths, if the first pack's do.
LEMMA CellCounts ==
    ASSUME Settled, Packs # {}, Explicit \/ (First = 1 /\ Inv.cells >= 0)
    PROVE  /\ Counts(Inv.count, CellCount, CellOffset) /\ Packs = 1..Inv.count
           /\ TotalCells = CellOffset[Inv.count] + CellCount[Inv.count]
<1> DEFINE n == Inv.count
<1>1. n \in Nat /\ n >= 1 /\ Packs = 1..n
  BY DEF Settled, Packs
<1> HIDE DEF n
<1>2. CASE Explicit
  <2>1. \A p \in 1..n : CellCount[p] \in Nat
    BY <1>1, <1>2, ExplicitCounts DEF n
  <2>2. Counts(n, CellCount, Offsets(CellCount))
    BY <1>1, <2>1, OffsetsCount
  <2>3. CellOffset = Offsets(CellCount) /\ TotalCells = Offsets(CellCount)[n] + CellCount[n]
    BY <1>2 DEF CellOffset, TotalCells, n
  <2> QED BY <1>1, <2>2, <2>3 DEF n
<1>3. CASE ~Explicit
  <2>1. Inv.cells \in Nat /\ First = 1
    BY <1>3 DEF Settled
  <2>2. \A p \in 1..n : CellCount[p] = Inv.cells /\ CellOffset[p] = (p - 1) * Inv.cells
    <3> TAKE p \in 1..n
    <3>1. CellCount[p] = Inv.cells /\ CellOffset[p] = (First - 1) * Inv.cells + (p - 1) * Inv.cells
      BY <1>1, <1>3 DEF CellCount, CellOffset
    <3>2. (First - 1) * Inv.cells = 0
      BY <2>1
    <3>3. (p - 1) * Inv.cells \in Int
      BY <1>1, <2>1
    <3> QED BY <3>1, <3>2, <3>3
  <2>3. Counts(n, CellCount, CellOffset) /\ CellOffset[n] + CellCount[n] = n * Inv.cells
    BY <1>1, <2>1, <2>2, StrideCounts
  <2>4. TotalCells = n * Inv.cells
    BY <1>3 DEF TotalCells, n
  <2> QED BY <1>1, <2>3, <2>4 DEF n
<1> QED BY <1>2, <1>3

-----------------------------------------------------------------------------
(***************************************************************************)
(* What a complete snapshot holds.                                         *)
(***************************************************************************)
LEMMA ReadingFacts ==
    ASSUME NEW d \in Readable
    PROVE  /\ Packs # {} /\ MaxReading \in Nat
           /\ \A p \in Packs :
                /\ DOMAIN d.cell[p] # {} /\ DOMAIN d.cell[p] \subseteq Nat \ {0}
                /\ \A i \in DOMAIN d.cell[p] : d.cell[p][i] \in 1..MaxReading
                /\ DOMAIN d.temp[p] # {} /\ DOMAIN d.temp[p] \subseteq Nat \ {0}
                /\ \A i \in DOMAIN d.temp[p] : d.temp[p][i] \in (-39)..MaxReading
                /\ \A i \in 1..CellCount[p] : i \in DOMAIN d.cell[p]
BY PanelAssumption DEF Readable, Complete

\* The entries of a snapshot are its cells.
LEMMA CellEntries ==
    ASSUME NEW d \in Readable
    PROVE  /\ \A e \in AllCells(d) : \E p \in Packs : \E i \in DOMAIN d.cell[p] :
                e = [id |-> CellOffset[p] + i, pack |-> p, value |-> d.cell[p][i]]
           /\ \A p \in Packs : \A i \in DOMAIN d.cell[p] :
                [id |-> CellOffset[p] + i, pack |-> p, value |-> d.cell[p][i]] \in AllCells(d)
BY DEF AllCells

\* Whatever the numbering, the least and the greatest cell are those of the snapshot.
LEMMA CellValues ==
    ASSUME NEW d \in Readable
    PROVE  LET values == {e.value : e \in AllCells(d)}
               cells == UNION {{d.cell[p][i] : i \in DOMAIN d.cell[p]} : p \in Packs}
           IN values = cells /\ cells \in SUBSET (1..MaxReading) /\ cells # {}
<1> DEFINE values == {e.value : e \in AllCells(d)}
           cells == UNION {{d.cell[p][i] : i \in DOMAIN d.cell[p]} : p \in Packs}
<1>1. \A v \in values : v \in cells
  <2> TAKE v \in values
  <2>1. PICK e \in AllCells(d) : v = e.value
    OBVIOUS
  <2>2. PICK p \in Packs : \E i \in DOMAIN d.cell[p] :
          e = [id |-> CellOffset[p] + i, pack |-> p, value |-> d.cell[p][i]]
    BY CellEntries
  <2>3. PICK i \in DOMAIN d.cell[p] :
          e = [id |-> CellOffset[p] + i, pack |-> p, value |-> d.cell[p][i]]
    BY <2>2
  <2> QED BY <2>1, <2>3
<1>2. \A v \in cells : v \in values
  <2> TAKE v \in cells
  <2>1. PICK p \in Packs : \E i \in DOMAIN d.cell[p] : v = d.cell[p][i]
    OBVIOUS
  <2>2. PICK i \in DOMAIN d.cell[p] : v = d.cell[p][i]
    BY <2>1
  <2> DEFINE e == [id |-> CellOffset[p] + i, pack |-> p, value |-> d.cell[p][i]]
  <2>3. e \in AllCells(d) /\ e.value = v
    BY <2>2, CellEntries
  <2> HIDE DEF e
  <2> QED BY <2>3
<1>3. cells \in SUBSET (1..MaxReading) /\ cells # {}
  <2>1. \A v \in cells : v \in 1..MaxReading
    BY ReadingFacts
  <2>2. PICK p \in Packs : DOMAIN d.cell[p] # {}
    BY ReadingFacts
  <2>3. PICK i \in DOMAIN d.cell[p] : TRUE
    BY <2>2
  <2>4. d.cell[p][i] \in cells
    BY <2>3
  <2> QED BY <2>1, <2>4
<1> QED BY <1>1, <1>2, <1>3

\* Numbered or not, the extremes of the temperatures are readings that bound
\* them all; numbered ones name a sensor within every pack's stride.
LEMMA TempExtremesFacts ==
    ASSUME Settled, NEW d \in Readable
    PROVE  LET e == TempExtremes(d)
               temps == UNION {{d.temp[p][i] : i \in DOMAIN d.temp[p]} : p \in Packs}
           IN /\ temps \in SUBSET Int
              /\ e.minT \in temps /\ e.maxT \in temps
              /\ \A t \in temps : e.minT <= t /\ t <= e.maxT
              /\ \A x \in {<<e.minTId, e.minT>>, <<e.maxTId, e.maxT>>} :
                   x[1] # None =>
                      /\ \A p \in Packs : \A i \in DOMAIN d.temp[p] : i <= TempCount[p]
                      /\ \E p \in Packs : \E i \in DOMAIN d.temp[p] :
                           x[1] = TempOffset[p] + i /\ x[2] = d.temp[p][i]
<1> DEFINE e == TempExtremes(d)
           temps == UNION {{d.temp[p][i] : i \in DOMAIN d.temp[p]} : p \in Packs}
           numbered == NumberedTemps(d)
<1>1. temps \in SUBSET ((-39)..MaxReading) /\ temps # {} /\ MaxReading \in Nat
  <2>1. \A t \in temps : t \in (-39)..MaxReading
    BY ReadingFacts
  <2>2. PICK p \in Packs : DOMAIN d.temp[p] # {}
    BY ReadingFacts
  <2>3. PICK i \in DOMAIN d.temp[p] : TRUE
    BY <2>2
  <2>4. d.temp[p][i] \in temps
    BY <2>3
  <2> QED BY <2>1, <2>4, ReadingFacts
<1>2. temps = AllTemps(d)
  BY DEF AllTemps
<1> HIDE DEF temps
<1>3. CASE numbered = {}
  <2>1. e = [minT |-> Min(temps), minTId |-> None, maxT |-> Max(temps), maxTId |-> None]
    BY <1>2, <1>3 DEF TempExtremes
  <2>2. /\ Min(temps) \in temps /\ \A k \in temps : Min(temps) <= k
        /\ Max(temps) \in temps /\ \A k \in temps : Max(temps) >= k
    <3> DEFINE lowest == -39
    <3>1. lowest \in Int /\ temps \in SUBSET (lowest..MaxReading) /\ MaxReading \in Int
      BY <1>1
    <3> HIDE DEF lowest
    <3> QED BY <1>1, <3>1, MinMaxFacts
  <2>3. e.minT = Min(temps) /\ e.minTId = None /\ e.maxT = Max(temps) /\ e.maxTId = None
    BY <2>1
  <2> HIDE DEF e
  <2>4. temps \in SUBSET Int /\ e.minT \in temps /\ e.maxT \in temps
    BY <1>1, <2>2, <2>3
  <2>5. \A t \in temps : e.minT <= t /\ t <= e.maxT
    BY <1>1, <2>2, <2>3, <2>4
  <2>6. \A x \in {<<e.minTId, e.minT>>, <<e.maxTId, e.maxT>>} : x[1] = None
    BY <2>3
  <2> QED BY <2>4, <2>5, <2>6 DEF e, temps
<1>4. CASE numbered # {}
  <2>1. /\ \A p \in Packs : \A i \in DOMAIN d.temp[p] : ~(i > TempCount[p])
        /\ numbered = UNION {{[id |-> TempOffset[p] + i, value |-> d.temp[p][i]] :
                                 i \in DOMAIN d.temp[p]} : p \in Packs}
    BY <1>4 DEF NumberedTemps
  <2>2. Counts(Inv.count, TempCount, TempOffset) /\ Packs = 1..Inv.count
    BY ReadingFacts, TempCounts
  <2>3. \A p \in Packs : TempCount[p] \in Nat
    BY <2>2 DEF Counts
  <2>4. \A f \in numbered : \E p \in Packs : \E i \in DOMAIN d.temp[p] :
          f.id = TempOffset[p] + i /\ f.value = d.temp[p][i]
    BY <2>1
  <2>5. \A f \in numbered : f.value \in temps
    BY <2>4 DEF temps
  <2>6. \A f \in numbered : f.value \in (-39)..MaxReading
    BY <1>1, <2>5
  <2>7. \A t \in temps : \E f \in numbered : f.value = t
    <3> TAKE t \in temps
    <3>1. PICK p \in Packs : \E i \in DOMAIN d.temp[p] : t = d.temp[p][i]
      BY DEF temps
    <3>2. PICK i \in DOMAIN d.temp[p] : t = d.temp[p][i]
      BY <3>1
    <3> DEFINE f == [id |-> TempOffset[p] + i, value |-> d.temp[p][i]]
    <3>3. f \in numbered /\ f.value = t
      BY <2>1, <3>2
    <3> HIDE DEF f, numbered
    <3> QED BY <3>3
  <2> DEFINE low == Lowest(numbered)
             high == Highest(numbered)
  <2>8. e = [minT |-> low.value, minTId |-> low.id, maxT |-> high.value, maxTId |-> high.id]
    BY <1>4 DEF TempExtremes
  <2> HIDE DEF numbered
  <2>9. /\ low \in numbered /\ \A f \in numbered : low.value <= f.value
        /\ high \in numbered /\ \A f \in numbered : high.value >= f.value
    BY <1>1, <1>4, <2>6, ExtremeEntries
  <2> HIDE DEF low, high
  <2>10. e.minT = low.value /\ e.minTId = low.id /\ e.maxT = high.value /\ e.maxTId = high.id
    BY <2>8
  <2> HIDE DEF e
  <2>11. temps \in SUBSET Int /\ e.minT \in temps /\ e.maxT \in temps
    BY <1>1, <2>5, <2>9, <2>10
  <2>12. \A t \in temps : e.minT <= t /\ t <= e.maxT
    BY <2>7, <2>9, <2>10, <2>11
  <2>13. \A p \in Packs : \A i \in DOMAIN d.temp[p] : i <= TempCount[p]
    <3> TAKE p \in Packs
    <3> TAKE i \in DOMAIN d.temp[p]
    <3>1. i \in Nat /\ TempCount[p] \in Nat /\ ~(i > TempCount[p])
      BY <2>1, <2>3, ReadingFacts
    <3> QED BY <3>1
  <2>14. \A x \in {<<e.minTId, e.minT>>, <<e.maxTId, e.maxT>>} :
           \E p \in Packs : \E i \in DOMAIN d.temp[p] :
              x[1] = TempOffset[p] + i /\ x[2] = d.temp[p][i]
    BY <2>4, <2>9, <2>10
  <2> QED BY <2>11, <2>12, <2>13, <2>14 DEF e, temps
<1> QED BY <1>3, <1>4

-----------------------------------------------------------------------------
(***************************************************************************)
(* Alarms.                                                                 *)
(***************************************************************************)
\* A severity is that of the limits that were crossed.
Raised(alarm, warning, critical) ==
    /\ (alarm = 2) <=> critical
    /\ (alarm = 1) <=> warning /\ ~critical
    /\ (alarm = 0) <=> ~warning /\ ~critical

\* Some reading is beyond a limit when the extreme one is.
LEMMA LimitFacts ==
    ASSUME NEW S \in SUBSET Int, NEW m \in S, \A k \in S : m <= k,
           NEW g \in S, \A k \in S : g >= k, NEW x \in Int
    PROVE  /\ (\E v \in S : v <= x) <=> m <= x
           /\ (\E v \in S : v >= x) <=> g >= x
           /\ (\E v, w \in S : v - w >= x) <=> g - m >= x
<1>1. \A v, w \in S : v - w <= g - m
  OBVIOUS
<1>2. m \in Int /\ g \in Int /\ \A v \in S : v \in Int
  OBVIOUS
<1> QED BY <1>1, <1>2

LEMMA AlarmsTrue ==
    ASSUME PanelInv
    PROVE  AlarmsFollowReadings
<1> SUFFICES ASSUME Shown PROVE AlarmsFollowReadings
  BY DEF AlarmsFollowReadings
<1> DEFINE d == shown
           a == AlarmsOf(d)
           t == Thresholds[config.alarms]
           e == TempExtremes(d)
           cells == UNION {{d.cell[p][i] : i \in DOMAIN d.cell[p]} : p \in Packs}
           temps == UNION {{d.temp[p][i] : i \in DOMAIN d.temp[p]} : p \in Packs}
           low == Min(cells)
           high == Max(cells)
<1>1. Settled /\ Profiled /\ d \in Readable /\ Displays(paths, d)
  BY DEF PanelInv, Shown
<1>2. cells = {x.value : x \in AllCells(d)} /\ cells \in SUBSET (1..MaxReading) /\ cells # {}
  BY <1>1, CellValues
<1>3. /\ temps \in SUBSET Int /\ e.minT \in temps /\ e.maxT \in temps
      /\ \A k \in temps : e.minT <= k /\ k <= e.maxT
  BY <1>1, TempExtremesFacts
<1>4. \A k \in Level : t[k] \in Int
  BY <1>1, PanelAssumption DEF Settled, Profiled
<1>5. /\ a.lowCell = Severity(low <= t.lowCell, low <= t.lowCellCritical)
      /\ a.highCell = Severity(high >= t.highCell, high >= t.highCellCritical)
      /\ a.imbalance = Severity(high - low >= t.imbalance, high - low >= ImbalanceCritical)
      /\ a.highTemp = Severity(e.maxT >= t.highTemp, e.maxT >= t.highTempCritical)
      /\ a.lowTemp = Severity(e.minT <= t.lowTemp, e.minT <= t.lowTempCritical)
  BY <1>2 DEF AlarmsOf
<1>6. paths.alarm = a /\ paths.internal = Severity(d.blocking # {}, FALSE) /\ paths.comm = 0
  BY <1>1 DEF Displays
<1>7. MaxReading \in Nat
  BY PanelAssumption
<1> HIDE DEF a, e, cells, temps
<1>8. /\ low \in cells /\ \A k \in cells : low <= k
      /\ high \in cells /\ \A k \in cells : high >= k
  <2>1. 1 \in Int /\ MaxReading \in Int
    BY <1>7
  <2> QED BY <1>2, <2>1, MinMaxFacts
<1>9. cells \in SUBSET Int
  BY <1>2, <1>7
<1> HIDE DEF low, high
<1>10. \A x \in Int : /\ (\E v \in cells : v <= x) <=> low <= x
                      /\ (\E v \in cells : v >= x) <=> high >= x
                      /\ (\E v, w \in cells : v - w >= x) <=> high - low >= x
  BY <1>8, <1>9, LimitFacts
<1>11. \A x \in Int : /\ (\E v \in temps : v <= x) <=> e.minT <= x
                      /\ (\E v \in temps : v >= x) <=> e.maxT >= x
  <2> DEFINE least == e.minT
             greatest == e.maxT
  <2>1. /\ least \in temps /\ \A k \in temps : least <= k
        /\ greatest \in temps /\ \A k \in temps : greatest >= k
    BY <1>3
  <2> HIDE DEF least, greatest
  <2>2. \A x \in Int : /\ (\E v \in temps : v <= x) <=> least <= x
                       /\ (\E v \in temps : v >= x) <=> greatest >= x
    BY <1>3, <2>1, LimitFacts
  <2> QED BY <2>2 DEF least, greatest
<1>12. t.imbalance \in Int /\ ImbalanceCritical \in Int
  BY <1>4 DEF ImbalanceCritical, Level
<1>13. t = Thresholds[IF Explicit THEN topology.profile ELSE config.alarms]
  BY <1>1 DEF Profiled
<1>14. ImbalanceCritical = IF Explicit THEN t.imbalanceCritical ELSE 2 * t.imbalance
  BY DEF ImbalanceCritical
<1> HIDE DEF t, d
<1>15. /\ t.lowCell \in Int /\ t.lowCellCritical \in Int
       /\ t.highCell \in Int /\ t.highCellCritical \in Int
       /\ t.highTemp \in Int /\ t.highTempCritical \in Int
       /\ t.lowTemp \in Int /\ t.lowTempCritical \in Int
  BY <1>4 DEF Level
<1>16. Raised(a.lowCell, \E v \in cells : v <= t.lowCell, \E v \in cells : v <= t.lowCellCritical)
  BY <1>5, <1>10, <1>15 DEF Raised, Severity
<1>17. Raised(a.highCell, \E v \in cells : v >= t.highCell, \E v \in cells : v >= t.highCellCritical)
  BY <1>5, <1>10, <1>15 DEF Raised, Severity
<1>18. Raised(a.imbalance, \E v, w \in cells : v - w >= t.imbalance,
              \E v, w \in cells : v - w >= ImbalanceCritical)
  BY <1>5, <1>10, <1>12 DEF Raised, Severity
<1>19. Raised(a.lowTemp, \E v \in temps : v <= t.lowTemp, \E v \in temps : v <= t.lowTempCritical)
  BY <1>5, <1>11, <1>15 DEF Raised, Severity
<1>20. Raised(a.highTemp, \E v \in temps : v >= t.highTemp, \E v \in temps : v >= t.highTempCritical)
  BY <1>5, <1>11, <1>15 DEF Raised, Severity
<1>21. (paths.internal = 0) <=> d.blocking = {}
  BY <1>6 DEF Severity
<1> QED BY <1>6, <1>13, <1>14, <1>16, <1>17, <1>18, <1>19, <1>20, <1>21
        DEF AlarmsFollowReadings, Raised, t, cells, temps, d

-----------------------------------------------------------------------------
(***************************************************************************)
(* Names.                                                                  *)
(***************************************************************************)
LEMMA TemperaturesNamed ==
    ASSUME PanelInv
    PROVE  TemperatureIdsUnambiguous
<1> SUFFICES ASSUME Shown PROVE TemperatureIdsUnambiguous
  BY DEF TemperatureIdsUnambiguous
<1> DEFINE d == shown
           e == TempExtremes(d)
           temps == UNION {{d.temp[p][i] : i \in DOMAIN d.temp[p]} : p \in Packs}
<1>1. Settled /\ d \in Readable /\ Displays(paths, d)
  BY DEF PanelInv, Shown
<1>2. /\ temps \in SUBSET Int /\ e.minT \in temps /\ e.maxT \in temps
      /\ \A k \in temps : e.minT <= k /\ k <= e.maxT
      /\ \A x \in {<<e.minTId, e.minT>>, <<e.maxTId, e.maxT>>} :
           x[1] # None =>
              /\ \A p \in Packs : \A i \in DOMAIN d.temp[p] : i <= TempCount[p]
              /\ \E p \in Packs : \E i \in DOMAIN d.temp[p] :
                   x[1] = TempOffset[p] + i /\ x[2] = d.temp[p][i]
  BY <1>1, TempExtremesFacts
<1>3. /\ paths.minT = e.minT /\ paths.minTId = e.minTId
      /\ paths.maxT = e.maxT /\ paths.maxTId = e.maxTId
  BY <1>1 DEF Displays
<1>4. Counts(Inv.count, TempCount, TempOffset) /\ Packs = 1..Inv.count
  BY <1>1, ReadingFacts, TempCounts
<1>5. \A p \in Packs : \A i \in DOMAIN d.temp[p] : i \in Nat /\ i >= 1 /\ d.temp[p][i] \in temps
  BY <1>1, ReadingFacts
<1>6. \A p \in Packs : TempCount[p] \in Nat
  BY <1>4 DEF Counts
<1> HIDE DEF e, temps
<1>7. \A p \in Packs : \A i \in DOMAIN d.temp[p] : d.temp[p][i] \in paths.minT..paths.maxT
  <2>1. paths.minT \in Int /\ paths.maxT \in Int
    BY <1>2, <1>3
  <2>2. \A k \in temps : k \in Int /\ paths.minT <= k /\ k <= paths.maxT
    BY <1>2, <1>3
  <2>3. \A k \in temps : k \in paths.minT..paths.maxT
    BY <2>1, <2>2
  <2> QED BY <1>5, <2>3
<1>8. ASSUME NEW x \in {<<paths.minTId, paths.minT>>, <<paths.maxTId, paths.maxT>>}, x[1] # None
      PROVE  \E c \in Configured(TempCount) :
                /\ Place(TempCount, c[1], c[2]) = x[1]
                /\ c[2] \in DOMAIN d.temp[c[1]] /\ d.temp[c[1]][c[2]] = x[2]
                /\ \A p \in Packs : \A i \in DOMAIN d.temp[p] : i <= TempCount[p]
  <2>1. /\ \A p \in Packs : \A i \in DOMAIN d.temp[p] : i <= TempCount[p]
        /\ \E p \in Packs : \E i \in DOMAIN d.temp[p] :
             x[1] = TempOffset[p] + i /\ x[2] = d.temp[p][i]
    BY <1>2, <1>3, <1>8
  <2>2. PICK p \in Packs : \E i \in DOMAIN d.temp[p] :
          x[1] = TempOffset[p] + i /\ x[2] = d.temp[p][i]
    BY <2>1
  <2>3. PICK i \in DOMAIN d.temp[p] : x[1] = TempOffset[p] + i /\ x[2] = d.temp[p][i]
    BY <2>2
  <2>4. i \in 1..TempCount[p]
    BY <1>5, <1>6, <2>1
  <2>5. Place(TempCount, p, i) = TempOffset[p] + i
    BY <1>4, <2>4, PlaceIsNumber
  <2>6. <<p, i>> \in Configured(TempCount)
    BY <2>4 DEF Configured
  <2> WITNESS <<p, i>> \in Configured(TempCount)
  <2> QED BY <2>1, <2>3, <2>5
<1> HIDE DEF d
<1> QED BY <1>7, <1>8 DEF TemperatureIdsUnambiguous, d

\* An id belongs to one configured cell: cells of later packs are numbered
\* beyond it, and an earlier pack's surplus cells are written before it.
LEMMA EntryOfCell ==
    ASSUME Settled, NEW d \in Readable, Explicit \/ (First = 1 /\ Inv.cells >= 0),
           NEW p \in Packs, NEW i \in 1..CellCount[p]
    PROVE  LET id == CellOffset[p] + i IN
           /\ id - 1 \in 0..(TotalCells - 1)
           /\ LastAt(AllCells(d), id) # {}
           /\ EntryAt(d, id).value = d.cell[p][i]
<1> DEFINE id == CellOffset[p] + i
           e == [id |-> id, pack |-> p, value |-> d.cell[p][i]]
           n == Inv.count
<1>1. /\ Counts(n, CellCount, CellOffset) /\ Packs = 1..n
      /\ TotalCells = CellOffset[n] + CellCount[n]
  BY ReadingFacts, CellCounts
<1> HIDE DEF n
<1>2. n \in Nat /\ n >= 1 /\ n \in Packs /\ Packs \subseteq Nat
  BY <1>1 DEF Counts
<1>3. \A q \in Packs : CellOffset[q] \in Nat /\ CellCount[q] \in Nat
  BY <1>1, OffsetNumbers DEF Counts
<1>4. \A q \in Packs : p < q => id <= CellOffset[q]
  <2> SUFFICES ASSUME NEW q \in Packs, p < q PROVE id <= CellOffset[q]
    OBVIOUS
  <2>1. CellOffset[p] + CellCount[p] <= CellOffset[q]
    BY <1>1, OffsetsGrow
  <2> QED BY <1>3, <2>1
<1>5. id - 1 \in 0..(TotalCells - 1)
  <2>1. CASE p = n
    BY <1>1, <1>2, <1>3, <2>1
  <2>2. CASE p # n
    <3>1. p < n
      BY <1>1, <1>2, <2>2
    <3>2. id <= CellOffset[n]
      BY <1>2, <1>4, <3>1
    <3> QED BY <1>1, <1>2, <1>3, <3>2
  <2> QED BY <2>1, <2>2
<1>6. i \in DOMAIN d.cell[p]
  BY ReadingFacts
<1>7. e \in AllCells(d) /\ e.id = id /\ e.pack = p /\ e.value = d.cell[p][i]
  BY <1>6, CellEntries
<1>8. ASSUME NEW f \in AllCells(d), f.id = id
      PROVE  f.pack \in Nat /\ f.pack <= p /\ (f.pack = p => f = e)
  <2>1. PICK q \in Packs : \E j \in DOMAIN d.cell[q] :
          f = [id |-> CellOffset[q] + j, pack |-> q, value |-> d.cell[q][j]]
    BY CellEntries
  <2>2. PICK j \in DOMAIN d.cell[q] :
          f = [id |-> CellOffset[q] + j, pack |-> q, value |-> d.cell[q][j]]
    BY <2>1
  <2>3. f.pack = q /\ CellOffset[q] + j = id /\ j \in Nat /\ j >= 1
    BY <1>8, <2>2, ReadingFacts
  <2>4. ~(p < q)
    BY <1>3, <1>4, <2>3
  <2>5. q = p => j = i
    BY <1>3, <2>3
  <2> QED BY <1>2, <2>2, <2>3, <2>4, <2>5
<1> HIDE DEF id, e
<1>9. LastAt(AllCells(d), id) = {e}
  <2>1. e \in LastAt(AllCells(d), id)
    BY <1>7, <1>8 DEF LastAt
  <2>2. \A f \in LastAt(AllCells(d), id) : f = e
    <3> TAKE f \in LastAt(AllCells(d), id)
    <3>1. f \in AllCells(d) /\ f.id = id /\ e.pack <= f.pack
      BY <1>7 DEF LastAt
    <3> QED BY <1>2, <1>7, <1>8, <3>1
  <2> QED BY <2>1, <2>2
<1>10. EntryAt(d, id) = e
  BY <1>9 DEF EntryAt
<1> QED BY <1>5, <1>7, <1>9, <1>10 DEF id

LEMMA CellsNamed ==
    ASSUME PanelInv
    PROVE  CellPathsNamed
<1> SUFFICES ASSUME Shown, Explicit \/ First = 1 PROVE CellPathsNamed
  BY DEF CellPathsNamed
<1>0. CASE ~Explicit /\ Inv.cells < 0
  <2>1. Settled /\ shown \in Readable
    BY DEF PanelInv, Shown
  <2>2. \A p \in Packs : 1..CellCount[p] = {}
    BY <1>0, <2>1 DEF Settled, CellCount
  <2>3. Configured(CellCount) = {}
    BY <2>2 DEF Configured
  <2>4. ~AsConfigured(shown)
    BY <2>1, <2>2, ReadingFacts DEF AsConfigured
  <2> QED BY <2>3, <2>4 DEF CellPathsNamed
<1> SUFFICES ASSUME Explicit \/ (First = 1 /\ Inv.cells >= 0) PROVE CellPathsNamed
  <2>1. ~Explicit => Inv.cells \in Int
    BY DEF PanelInv, Shown, Settled
  <2> QED BY <1>0, <2>1
<1> DEFINE d == shown
           n == Inv.count
           low == Lowest(AllCells(d))
           high == Highest(AllCells(d))
<1>1. Settled /\ d \in Readable /\ Displays(paths, d) /\ Shaped(paths)
  BY DEF PanelInv, Shown
<1>2. /\ Counts(n, CellCount, CellOffset) /\ Packs = 1..n
      /\ TotalCells = CellOffset[n] + CellCount[n]
  BY <1>1, ReadingFacts, CellCounts
<1> HIDE DEF n
<1>3. \A p \in Packs : CellOffset[p] \in Nat /\ CellCount[p] \in Nat
  BY <1>2, OffsetNumbers DEF Counts
<1>4. \A p \in Packs : \A i \in 1..CellCount[p] :
        paths.cell[(CellOffset[p] + i) - 1] = d.cell[p][i]
  <2> TAKE p \in Packs
  <2> TAKE i \in 1..CellCount[p]
  <2> DEFINE id == CellOffset[p] + i
  <2>1. /\ id - 1 \in 0..(TotalCells - 1)
        /\ LastAt(AllCells(d), id) # {} /\ EntryAt(d, id).value = d.cell[p][i]
    BY <1>1, EntryOfCell
  <2>2. id \in Int
    BY <1>3
  <2> HIDE DEF id
  <2>3. (id - 1) + 1 = id
    BY <2>2
  <2>4. paths.cell[id - 1] = EntryAt(d, id).value
    BY <1>1, <2>1, <2>3 DEF Displays
  <2>5. paths.cell[id - 1] = d.cell[p][i]
    BY <2>1, <2>4
  <2> QED BY <2>5 DEF id
<1>5. \A c \in Configured(CellCount) :
        paths.cell[Place(CellCount, c[1], c[2]) - 1] = d.cell[c[1]][c[2]]
  <2> TAKE c \in Configured(CellCount)
  <2>1. PICK p \in Packs : \E i \in 1..CellCount[p] : c = <<p, i>>
    BY DEF Configured
  <2>2. PICK i \in 1..CellCount[p] : c = <<p, i>>
    BY <2>1
  <2>3. Place(CellCount, p, i) = CellOffset[p] + i
    BY <1>2, PlaceIsNumber
  <2>4. c[1] = p /\ c[2] = i
    BY <2>2
  <2>5. paths.cell[(CellOffset[p] + i) - 1] = d.cell[p][i]
    BY <1>4
  <2> QED BY <2>3, <2>4, <2>5
<1>6. ASSUME AsConfigured(d)
      PROVE  /\ paths.cell[paths.minVId - 1] = paths.minV
             /\ paths.cell[paths.maxVId - 1] = paths.maxV
             /\ \A i \in DOMAIN paths.cell : paths.cell[i] \in paths.minV..paths.maxV
  <2>1. \A f \in AllCells(d) : \E p \in Packs : \E i \in 1..CellCount[p] :
          f.id = CellOffset[p] + i /\ f.value = d.cell[p][i]
    <3>1. \A f \in AllCells(d) : \E p \in Packs : \E i \in DOMAIN d.cell[p] :
            f = [id |-> CellOffset[p] + i, pack |-> p, value |-> d.cell[p][i]]
      BY <1>1, CellEntries
    <3>2. \A p \in Packs : DOMAIN d.cell[p] = 1..CellCount[p]
      BY <1>6 DEF AsConfigured
    <3> TAKE f \in AllCells(d)
    <3>3. PICK p \in Packs : \E i \in DOMAIN d.cell[p] :
            f = [id |-> CellOffset[p] + i, pack |-> p, value |-> d.cell[p][i]]
      BY <3>1
    <3>4. PICK i \in DOMAIN d.cell[p] :
            f = [id |-> CellOffset[p] + i, pack |-> p, value |-> d.cell[p][i]]
      BY <3>3
    <3>5. i \in 1..CellCount[p] /\ f.id = CellOffset[p] + i /\ f.value = d.cell[p][i]
      BY <3>2, <3>4
    <3> QED BY <3>5
  <2>2. \A p \in Packs : \A i \in 1..CellCount[p] :
          d.cell[p][i] \in 1..MaxReading /\ \E f \in AllCells(d) : f.value = d.cell[p][i]
    <3> TAKE p \in Packs
    <3> TAKE i \in 1..CellCount[p]
    <3> DEFINE f == [id |-> CellOffset[p] + i, pack |-> p, value |-> d.cell[p][i]]
    <3>1. i \in DOMAIN d.cell[p] /\ d.cell[p][i] \in 1..MaxReading
      BY <1>1, ReadingFacts
    <3>2. f \in AllCells(d) /\ f.value = d.cell[p][i]
      BY <1>1, <3>1, CellEntries
    <3> HIDE DEF f
    <3> QED BY <3>1, <3>2
  <2>3. \A f \in AllCells(d) : f.value \in 1..MaxReading
    BY <2>1, <2>2
  <2>4. AllCells(d) # {} /\ 1 \in Int /\ MaxReading \in Int
    <3>1. AllCells(d) # {}
      BY <1>1, CellValues
    <3> QED BY <3>1, PanelAssumption
  <2>5. /\ low \in AllCells(d) /\ \A f \in AllCells(d) : low.value <= f.value
        /\ high \in AllCells(d) /\ \A f \in AllCells(d) : high.value >= f.value
    BY <2>3, <2>4, ExtremeEntries
  <2>6. /\ paths.minV = low.value /\ paths.minVId = low.id
        /\ paths.maxV = high.value /\ paths.maxVId = high.id
    BY <1>1 DEF Displays
  <2> HIDE DEF low, high
  <2>7. \A f \in AllCells(d) : paths.cell[f.id - 1] = f.value
    <3> TAKE f \in AllCells(d)
    <3>1. PICK p \in Packs : \E i \in 1..CellCount[p] :
            f.id = CellOffset[p] + i /\ f.value = d.cell[p][i]
      BY <2>1
    <3>2. PICK i \in 1..CellCount[p] : f.id = CellOffset[p] + i /\ f.value = d.cell[p][i]
      BY <3>1
    <3>3. paths.cell[(CellOffset[p] + i) - 1] = d.cell[p][i]
      BY <1>4
    <3> QED BY <3>2, <3>3
  <2>8. ASSUME NEW i \in DOMAIN paths.cell
        PROVE  paths.cell[i] \in paths.minV..paths.maxV
    <3>1. n \in Nat /\ n >= 1 /\ CellOffset[n] \in Nat /\ CellCount[n] \in Nat
      BY <1>2, <1>3 DEF Counts
    <3>2. i + 1 \in Nat /\ 1 <= i + 1 /\ i + 1 <= CellOffset[n] + CellCount[n] /\ i \in Int
      BY <1>1, <1>2, <3>1 DEF Shaped
    <3>3. PICK p \in 1..n : \E j \in 1..CellCount[p] : CellOffset[p] + j = i + 1
      BY <1>2, <3>2, OffsetsCover
    <3>4. PICK j \in 1..CellCount[p] : CellOffset[p] + j = i + 1
      BY <3>3
    <3>5. paths.cell[i] = d.cell[p][j]
      <4>1. paths.cell[(CellOffset[p] + j) - 1] = d.cell[p][j]
        BY <1>2, <1>4
      <4>2. (CellOffset[p] + j) - 1 = i
        BY <1>2, <1>3, <3>2, <3>4
      <4> QED BY <4>1, <4>2
    <3>6. PICK f \in AllCells(d) : f.value = d.cell[p][j]
      BY <1>2, <2>2
    <3>7. low.value \in Int /\ high.value \in Int /\ f.value \in Int
      BY <2>3, <2>5
    <3>8. low.value <= f.value /\ f.value <= high.value
      BY <2>5, <3>7
    <3> QED BY <2>6, <3>5, <3>6, <3>7, <3>8
  <2> QED BY <2>5, <2>6, <2>7, <2>8
<1> HIDE DEF d
<1> QED BY <1>5, <1>6 DEF CellPathsNamed, d

-----------------------------------------------------------------------------
\* _update_cell_voltages: on a connected chain every cell path holds the latest
\* reading of the cell at its place, whatever earlier updates wrote or failed to
\* write, and the ids of the extremes name such cells.
THEOREM CellPathsTrue == Spec => []CellPathsNamed
<1>1. PanelInv => CellPathsNamed
  BY CellsNamed
<1> QED BY <1>1, SpecPanelInv, PTL

\* _collect_cells_and_temps: for every stride a published temperature id names
\* one sensor, or none is published, and the extremes cover every sensor.
THEOREM TemperatureIdsTrue == Spec => []TemperatureIdsUnambiguous
<1>1. PanelInv => TemperatureIdsUnambiguous
  BY TemperaturesNamed
<1> QED BY <1>1, SpecPanelInv, PTL

\* _update_alarms: for all thresholds the alarms on display are raised exactly
\* by the readings on display.
THEOREM AlarmsFollow == Spec => []AlarmsFollowReadings
<1>1. PanelInv => AlarmsFollowReadings
  BY AlarmsTrue
<1> QED BY <1>1, SpecPanelInv, PTL
=============================================================================

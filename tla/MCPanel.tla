-------------------------------- MODULE MCPanel --------------------------------
(***************************************************************************)
(* Small instances of Startup and Panel: one command line, file and        *)
(* manifest for every case that load_config tells apart, and snapshots     *)
(* that vary the cells, the temperatures and the totals one at a time.     *)
(***************************************************************************)
EXTENDS Panel

NoOptions == [s \in {} |-> "default"]

MCCommand(options) ==
    [options |-> options, config |-> FALSE, topology |-> FALSE, chain |-> NoChain,
     validate |-> FALSE, observe |-> FALSE]

Second == [inventory |-> [count |-> 2, cells |-> 2, temps |-> 1, first |-> 3]]
Undersized == [inventory |-> [count |-> 2, cells |-> 2, temps |-> 1, first |-> 1],
               alarms |-> "cli", mode |-> "legacy"]

\* Command lines that name another broker only observe, to keep the panel small.
MCArguments ==
    {MCCommand(NoOptions), MCCommand(Second), MCCommand(Undersized),
     [MCCommand([local_only |-> TRUE]) EXCEPT !.observe = TRUE],
     [MCCommand([broker |-> "remote"]) EXCEPT !.observe = TRUE, !.config = TRUE],
     [MCCommand([mode |-> "legacy"]) EXCEPT !.observe = TRUE],
     [MCCommand([broker |-> "remote"]) EXCEPT !.observe = TRUE, !.config = TRUE, !.topology = TRUE],
     [MCCommand(NoOptions) EXCEPT !.chain = "a"]}
    \cup {[MCCommand(NoOptions) EXCEPT !.topology = TRUE, !.config = c, !.chain = id, !.observe = w] :
              c \in BOOLEAN, id \in {NoChain, "a", "x"}, w \in BOOLEAN}
    \cup {[MCCommand(o) EXCEPT !.topology = TRUE, !.validate = v] :
              o \in {NoOptions, Second}, v \in BOOLEAN}

Wide == [broker |-> "remote", identity |-> "file", alarms |-> "file",
         inventory |-> [count |-> 3, cells |-> 1, temps |-> 2, first |-> 1]]

MCFiles ==
    {Malformed, [local_only |-> TRUE], [mode |-> "junk", broker |-> "loopback"],
     Wide}

MCMember(bms, cells, temps) == [bms |-> bms, cells |-> cells, temps |-> temps, rated |-> TRUE]

ChainA == [id |-> "a", identity |-> "a", topic |-> "a", output |-> "managed",
           profile |-> "profile", voltage |-> 1, limit |-> 1,
           members |-> <<MCMember(7, 2, 2), MCMember(4, 2, 1)>>]
ChainB == [ChainA EXCEPT !.id = "b", !.identity = "b", !.topic = "b", !.output = "offline",
                         !.profile = "none",
                         !.members = <<MCMember(1, 1, 1), MCMember(2, 3, 1)>>]

MCManifests ==
    {Malformed, <<>>, <<ChainA>>, <<ChainB>>, <<ChainA, ChainB>>,
     <<ChainA, [ChainB EXCEPT !.topic = "a"]>>, <<[ChainA EXCEPT !.identity = "reserved"]>>,
     <<[ChainA EXCEPT !.profile = "none"]>>, <<[ChainA EXCEPT !.voltage = 2]>>,
     <<[ChainA EXCEPT !.members = <<MCMember(7, 2, 2), MCMember(4, 1, 1)>>]>>,
     <<[ChainA EXCEPT !.members = <<MCMember(7, 2, 2), MCMember(7, 2, 1)>>]>>}

MCLevels(shift) ==
    [lowSoc |-> 2, lowSocCritical |-> 1, lowCell |-> 1 + shift, lowCellCritical |-> 0 + shift,
     highCell |-> 3, highCellCritical |-> 4, imbalance |-> 1, imbalanceCritical |-> 1 + shift,
     highTemp |-> 2, highTempCritical |-> 2 + shift, lowTemp |-> 0, lowTempCritical |-> 0]
MCThresholds ==
    [s \in {"default", "file", "cli", "profile"} |->
        MCLevels(IF s \in {"cli", "profile"} THEN 1 ELSE 0)]

\* Cells at 1, 2 or 3, at most one temperature at 2 among others at 1.
MCBase(cells, temps) ==
    [cell |-> [p \in DOMAIN cells |-> [i \in 1..cells[p] |-> 2]],
     temp |-> [p \in DOMAIN cells |-> [i \in 1..temps[p] |-> 1]],
     volt |-> [p \in DOMAIN cells |-> 2 * cells[p]], soc |-> [p \in DOMAIN cells |-> 2],
     total |-> [x \in {} |-> 0], blocking |-> {}]

MCReadings(cells, temps) ==
    LET packs == DOMAIN cells
        base == MCBase(cells, temps)
        grid == {[p \in packs |-> [i \in 1..cells[p] |-> g[<<p, i>>]]] :
                    g \in [UNION {{<<p, i>> : i \in 1..cells[p]} : p \in packs} -> {1, 3}]}
    IN {[base EXCEPT !.cell = f] : f \in grid}
       \cup UNION {{[base EXCEPT !.temp[p][i] = 2] : i \in 1..temps[p]} : p \in packs}
       \cup {base, [base EXCEPT !.volt = [p \in packs |-> 1]], [base EXCEPT !.soc[2] = 1],
             [base EXCEPT !.blocking = {1}]}

\* What per-topic telemetry may have besides: a cell too many, totals.
MCLegacy ==
    LET base == MCBase(<<2, 2>>, <<1, 1>>)
    IN {base, [base EXCEPT !.cell[1] = [i \in 1..3 |-> i]],
        [base EXCEPT !.total = [soc |-> 0, voltage |-> 0]]}

\* Two packs of two cells, with the sensors of ChainA, which are more than the
\* undersized inventory counts; three packs of one cell.
MCSnapshots ==
    MCReadings(<<2, 2>>, <<2, 1>>) \cup MCReadings(<<1, 1, 1>>, <<2, 2, 2>>) \cup MCLegacy
=============================================================================

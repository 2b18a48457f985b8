----------------------------- MODULE MCMqttClient -----------------------------
(***************************************************************************)
(* Small instances of MqttClient.  The row sets below are the inputs the   *)
(* producer may send: sound rows with every evidence mask that matters at  *)
(* every age, and one row for each fault the decoders tell apart.          *)
(***************************************************************************)
EXTENDS MqttClient, TLC

MCRow(seen, age, grant) ==
    [seen |-> seen, bad |-> {}, age |-> age, grant |-> grant, online |-> TRUE]

Faulty == {[MCRow(Masked, 0, Perm) EXCEPT !.online = FALSE],
           [MCRow(Masked, 0, Perm) EXCEPT !.bad = Core],
           [MCRow({FirstTemp}, 0, Perm) EXCEPT !.bad = {FirstTemp}]}

\* One BMS in detail: two sensors, the masks the merge tells apart.  The
\* granted permissions matter only in a row that shows the MOS state.
DetailRows ==
    {MCRow(seen, age, grant) :
        seen \in {{"mos"}, {FirstTemp, "mos"}, Masked, Keys},
        age \in 0..Stale, grant \in {{}, Perm}}
    \cup {MCRow(Core, age, Perm) : age \in 0..Stale}
    \cup {MCRow({}, 0, Perm)} \cup Faulty

\* Two BMS: few rows, so that every combination of them makes a frame.
PairRows ==
    {MCRow(Keys, 0, Perm), MCRow(Masked, Stale - 1, {}), MCRow({}, 0, Perm),
     MCRow(Core, 0, Perm), MCRow(Masked \ Core, 0, {}), MCRow(Masked, Stale, Perm)}
    \cup {[MCRow(Masked, 0, Perm) EXCEPT !.online = FALSE]}

\* Boot ids are only ever compared for equality.
BootNames == Permutations(Boot)

\* telemetry_mode of a series chain without a topology.
SeriesDeployments == [topology : {FALSE}, source : {"atomic", "legacy"}]

\* Schema 1 frames of a series chain, and schema 2 frames of a topology.
ChainDeployments == [topology : BOOLEAN, source : {"atomic"}]
=============================================================================

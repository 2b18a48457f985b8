-------------------------------- MODULE MCDvcc --------------------------------
(***************************************************************************)
(* The default profile of dvcc.py, readings on both sides of each of its   *)
(* thresholds, and the polls that find them.                               *)
(***************************************************************************)
EXTENDS Dvcc

Default ==
    [maxCharge |-> 100000, maxDischarge |-> 120000, minCharge |-> 2000, rate |-> 10000,
     full |-> 3400, start |-> 3450, balance |-> 3500, near |-> 3550, cutoff |-> 3600,
     balancePct |-> 20,
     imbStart |-> 50, imbAggressive |-> 100, imbCritical |-> 200, imbPct |-> 30,
     stopCold |-> 0, fullMin |-> 10, fullMax |-> 40, stopHot |-> 50,
     coldPct |-> 50, hotPct |-> 20,
     socStart |-> 95, socPct |-> 50,
     dFull |-> 3000, dStart |-> 2900, dCutoff |-> 2700, dLowPct |-> 50, dHotPct |-> 50]

\* The recovery rate of a cautious installation: 20 mA per second.
Slow == [Default EXCEPT !.rate = 20]

R(max, min, cold, hot, soc) ==
    [max |-> max, min |-> min, cold |-> cold, hot |-> hot, soc |-> soc]

High == {3449, 3450, 3499, 3500, 3537, 3549, 3550, 3599, 3600}
Apart == {50, 51, 99, 100, 163, 199, 200}
Low == {2700, 2701, 2900, 2901, 2999, 3000}
Warmth == {<<25, 25>>, <<0, 20>>, <<1, 20>>, <<9, 20>>, <<10, 20>>, <<20, 40>>,
           <<20, 41>>, <<20, 49>>, <<20, 50>>, <<9, 49>>, <<10, 49>>}
Charge == {94, 95, 99, 100}

\* Each curve on its own, and the curves together where several limit.
Sweep ==
    {R(m, m - 20, 25, 25, 50) : m \in High}
    \cup {R(3340, 3340 - d, 25, 25, 50) : d \in Apart}
    \cup {R(3300, 3300, w[1], w[2], 50) : w \in Warmth}
    \cup {R(3300, 3300, 25, 25, c) : c \in Charge}
    \cup {R(3050, l, 25, 25, 50) : l \in Low}
    \cup {R(3490, 3490 - d, 25, h, 98) : d \in {40, 90}, h \in {25, 45, 50}}
    \cup {R(3050, 2800, 25, 50, 50)}
    \cup {R(NoData, NoData, NoData, NoData, 50)}

\* Readings that allow everything, something, little and nothing.
Few == {R(3300, 3300, 25, 25, 50), R(3487, 3400, 25, 25, 50), R(3300, 3290, 3, 20, 97),
        R(3601, 3500, 25, 25, 100)}

Granted(p, d) == [granted |-> Perm, partial |-> p, dt |-> d]
Mixed == {Granted(FALSE, 2), Granted(TRUE, 2), Granted(FALSE, 0), Granted(FALSE, 3),
          [granted |-> {"discharging"}, partial |-> FALSE, dt |-> 2],
          [granted |-> {"charging"}, partial |-> TRUE, dt |-> 2]}

\* One poll of each kind, at one pace.
Paced == {Granted(FALSE, 2), Granted(TRUE, 2),
          [granted |-> {"discharging"}, partial |-> FALSE, dt |-> 2],
          [granted |-> {"charging"}, partial |-> FALSE, dt |-> 2]}
=============================================================================

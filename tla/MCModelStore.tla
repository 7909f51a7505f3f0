---------------------------- MODULE MCModelStore ----------------------------
(* Three trained versions.  One build accepts them all and ships the       *)
(* starter; one shares its feature contract with the newest candidate and  *)
(* the starter only; one accepts the newest candidate and ships nothing.   *)
(* Days have two hours of two ticks, weeks two days, one of them a weekend. *)
EXTENDS DemandForecast

CONSTANTS m1, m2, m3, starter

Trained == {m1, m2, m3}

Build(accepts, ships) == [accepts |-> accepts, ships |-> ships]
Shipping == {Build({m1, m2, m3, starter}, TRUE), Build({m3, starter}, TRUE)}
ThreeBuilds == Shipping \cup {Build({m3}, FALSE)}

Targets == m1 :> "absolute" @@ m2 :> "delta" @@ m3 :> "ratio" @@ starter :> "ratio"

TwoSeasons == [day \in 0 .. 9 |-> IF day < 2 THEN 0 ELSE 1]
Scales == [temperature |-> 12, price |-> 3]
Fading == [age \in 0 .. 9 |-> 10 - age]
FadingFast == [age \in 0 .. 9 |-> 2000 - 150 * age]
ElevenTenths == <<11, 10>>

Known(temperature, price) == [temperature |-> temperature, price |-> price]
Slot(start) == [start |-> start, known |-> Known(5, 4)]

\* Two readings in each of the hours of a function from hours to powers, the
\* second of them higher by more, but one in the hours of few
Read(powers, few, more) ==
  {[at |-> HourTicks * h + t, home |-> powers[h] + more * t] :
     h \in DOMAIN powers, t \in {0, 1}}
  \ {[at |-> HourTicks * h + 1, home |-> powers[h] + more] : h \in few}

Temperature == [h \in 0 .. 19 |-> Known(IF h % 3 = 0 THEN Unknown ELSE h, h % 5)]

Given(readings, eras, live, answers) ==
  [readings |-> readings, known |-> Temperature, eras |-> eras, live |-> live,
   answers |-> answers, now |-> 8]

Steady == [h \in 1 .. 7 |-> 9]
Uneven == (2 :> 4) @@ (3 :> 30) @@ (4 :> 7) @@ (5 :> 22) @@ (6 :> 3) @@ (7 :> 40)
Falling == (2 :> 30) @@ (3 :> 4) @@ (4 :> 22) @@ (5 :> 7) @@ (6 :> 40) @@ (7 :> 3)
Evening == (1 :> 12) @@ (5 :> 18)

Quarters == {Slot(16), Slot(17), Slot(18), Slot(19)}
Hours == {Slot(17), Slot(18), Slot(22)}

FewInputs ==
  {Given({}, Hours, 12, <<5, 90, 250>>),
   Given(Read(Steady, {}, 0), Hours, Unknown, <<90, 10, 50>>),
   Given(Read(Steady, {}, 0), Quarters, 9, <<7, 60, 0, 100>>),
   Given(Read(Falling, {}, 5), Quarters, Unknown, <<120, 40, 300, 60>>),
   Given(Read(Uneven, {3}, 0), Quarters, 35, <<9, 20, 2, 20>>),
   Given(Read(Evening, {5}, 2), Hours, 3, <<100, 100, 10>>)}
=============================================================================

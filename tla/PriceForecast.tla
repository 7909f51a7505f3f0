--------------------------- MODULE PriceForecast ---------------------------
(***************************************************************************)
(* Price slots and solar hours as sets of windows: the overlay of one      *)
(* provider's slots on another's (market-data.service.ts), the cut at the  *)
(* present (simulation-preparation.service.ts), and the share of the       *)
(* sun a slot gets, once for the dashboard (forecast-assembly.service.ts)  *)
(* and once for the plan (simulation.service.ts).                          *)
(*                                                                         *)
(* An entry stands for its price; "nth" is its place in the provider's     *)
(* answer.                                                                 *)
(***************************************************************************)
EXTENDS Integers, FiniteSets, Functions

CONSTANTS
  Providers,  \* the price providers of the program
  Priority,   \* their priorities; a smaller number is better
  Position    \* their order in the program: awattar, entsoe, from_evcc, ...

ASSUME ProvidersAssumption ==
  /\ IsFiniteSet(Providers)
  /\ Priority \in [Providers -> Int] /\ Position \in [Providers -> Int]
  /\ \A p, q \in Providers : Position[p] = Position[q] => p = q

Earlier(i, j) == IF i <= j THEN i ELSE j
Later(i, j) == IF i <= j THEN j ELSE i

Overlap(e, f) == e.from < f.to /\ f.from < e.to

-----------------------------------------------------------------------------
(* The merge                                                               *)

\* Both sorts are stable: of two providers with one priority the later one of
\* the program is asked later and laid over the other.
AskedBefore(p, q) ==
  Priority[p] < Priority[q] \/ (Priority[p] = Priority[q] /\ Position[p] < Position[q])

Better(p, q) ==
  Priority[p] < Priority[q] \/ (Priority[p] = Priority[q] /\ Position[q] < Position[p])

\* Mutant: only a slot with the same start is replaced.
OverlaySameStart(base, over) ==
  {e \in base : \A o \in over : e.from # o.from} \cup over

\* A slot of the base that overlaps any slot laid over it is dropped as a whole.
Overlay(base, over) ==
  {e \in base : \A o \in over : ~Overlap(e, o)} \cup over

\* compareEntriesByStart, and the order of the answer where it says nothing.
ByWindow(e, f) ==
  \/ e.from < f.from
  \/ e.from = f.from /\ e.to < f.to
  \/ e.from = f.from /\ e.to = f.to /\ e.nth < f.nth

ByAnswer(e, f) == e.nth < f.nth

-----------------------------------------------------------------------------
(* The cut at the present                                                  *)

Future(S, ref) == {e \in S : e.to > ref}

StartAt(e, ref) == Later(e.from, ref)

-----------------------------------------------------------------------------
(* The sun in a slot: the forecast's power is the same over its hour, and  *)
(* remains so when the hour is cut                                         *)

Shared(e, s, ref) ==
  Later(0, Earlier(e.to, s.to) - Later(StartAt(e, ref), s.from))

\* runSimulation: every hour that overlaps the slot gives its share.
PlannedSun(e, sun, ref) ==
  SumFunction([s \in Future(sun, ref) |-> s.power * Shared(e, s, ref)])

\* findSolarSlot: an hour with the same start, else the first that overlaps.
FirstHour(e, hours, ref) ==
  CHOOSE s \in hours : /\ s.from < e.to /\ s.to > StartAt(e, ref)
                       /\ \A h \in hours :
                            h.from < e.to /\ h.to > StartAt(e, ref) => s.from <= h.from

HourOf(e, hours, ref) ==
  IF \E s \in hours : StartAt(s, ref) = StartAt(e, ref)
  THEN CHOOSE s \in hours : StartAt(s, ref) = StartAt(e, ref)
  ELSE FirstHour(e, hours, ref)

\* buildSolarSource: the share of one hour only.
ShownSun(e, sun, ref) ==
  LET hours == Future(sun, ref) IN
  IF \A s \in hours : ~Overlap([e EXCEPT !.from = StartAt(e, ref)], s) THEN 0
  ELSE HourOf(e, hours, ref).power * Shared(e, HourOf(e, hours, ref), ref)
=============================================================================

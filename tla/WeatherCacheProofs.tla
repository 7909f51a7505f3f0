------------------------- MODULE WeatherCacheProofs -------------------------
(***************************************************************************)
(* Proofs about WeatherCache for every set of callers, series, limits and  *)
(* windows.  Three arguments share one inductive invariant: what remains   *)
(* of the cooldown and what has passed since a refusal always add up to    *)
(* the time the program keeps quiet; ageing can only take requests out of  *)
(* a window, and one is added only where there is room; and a call that    *)
(* lost nothing has every hour of the series behind it, because both parts *)
(* of a series are cut at the one hour it read when it began.              *)
(***************************************************************************)
EXTENDS WeatherCache, FiniteSetTheorems, TLAPS

\* The cooldown outlasts every refusal by RefusedFor.
CooldownCoversRefusal == cooldown + sinceRefusal >= RefusedFor

\* The hours a call has already got of the series it is at.
Behind(j) ==
  IF j.pc = "flight" /\ j.part = "forecast"
  THEN {h \in Window(j) : h <= j.now}
  ELSE {}

\* A request in flight asks for one part of its window, cut at the hour the
\* call began in.
FlightOf(c, j) ==
  /\ j.from <= j.to
  /\ j.at \in 1..(Len(Asks[c]) + 1)
  /\ j.pc = "flight" => j.at <= Len(Asks[c]) /\ j.asked = PartHours(j, j.part, j.now)
  /\ j.pc = "answered" => j.at = Len(Asks[c]) + 1

\* What a call that lost nothing can rely on.
ProgressOf(c, j) ==
  ~j.failed /\ ~j.short /\ j.pc # "idle" =>
    /\ \A i \in DOMAIN Asks[c] : i < j.at => Window(j) \subseteq rows[Asks[c][i]]
    /\ j.pc = "flight" => Behind(j) \subseteq rows[SeriesAt(c, j)]

CallsInOrder == \A c \in Callers : FlightOf(c, call[c]) /\ ProgressOf(c, call[c])

IInv ==
  TypeOK /\ WithinBudget /\ CooldownCoversRefusal /\ CallsInOrder
-----------------------------------------------------------------------------
(* The budget                                                              *)

LEMMA RecentIsFinite ==
  ASSUME TypeOK, NEW w
  PROVE  IsFiniteSet(Recent(w)) /\ Cardinality(Recent(w)) \in Nat
<1>1. Recent(w) \in SUBSET requests /\ IsFiniteSet(requests)
  BY DEF Recent, TypeOK
<1>2. IsFiniteSet(Recent(w))
  BY <1>1, FS_Subset
<1> QED BY <1>2, FS_CardinalityType

\* A request is only added while every window has room for it.
LEMMA SendFits ==
  ASSUME TypeOK, WithinBudget, ~Exhausted, requests' = Counted
  PROVE  /\ requests' \subseteq [age : Nat, nth : Nat] /\ IsFiniteSet(requests')
         /\ WithinBudget'
<1> DEFINE new == [age |-> 0, nth |-> Cardinality(Recent(1))]
<1>1. new \in [age : Nat, nth : Nat]
  BY RecentIsFinite
<1>2. requests' = requests \cup {new}
  BY DEF Counted
<1> HIDE DEF new
<1>3. requests' \subseteq [age : Nat, nth : Nat] /\ IsFiniteSet(requests')
  BY <1>1, <1>2, FS_AddElement DEF TypeOK
<1>4. ASSUME NEW l \in Limits
      PROVE  Cardinality(Recent(l.window)') <= l.max
  <2>1. Cardinality(Recent(l.window)) < l.max
    BY RecentIsFinite, LimitsAssumption DEF Exhausted
  <2>2. new.age < l.window
    BY LimitsAssumption DEF new
  <2>3. Recent(l.window)' = Recent(l.window) \cup {new}
    BY <1>2, <2>2 DEF Recent
  <2>4. /\ Cardinality(Recent(l.window)) \in Nat
        /\ Cardinality(Recent(l.window) \cup {new})
             \in {Cardinality(Recent(l.window)), Cardinality(Recent(l.window)) + 1}
    BY RecentIsFinite, FS_AddElement
  <2> QED BY <2>1, <2>3, <2>4, LimitsAssumption
<1>5. WithinBudget'
  BY <1>4 DEF WithinBudget
<1> QED BY <1>3, <1>5

\* Ageing takes requests out of a window and brings none in.
LEMMA AgeingFits ==
  ASSUME TypeOK, WithinBudget,
         requests' = {Aged(r) : r \in {q \in requests : q.age + 1 < Longest}}
  PROVE  /\ requests' \subseteq [age : Nat, nth : Nat] /\ IsFiniteSet(requests')
         /\ WithinBudget'
<1> DEFINE Kept(n) == {q \in requests : q.age + 1 < Longest /\ q.age + 1 < n}
           Kept0 == {q \in requests : q.age + 1 < Longest}
<1>1. requests' \subseteq [age : Nat, nth : Nat]
  BY DEF Aged, TypeOK
<1>2. IsFiniteSet(requests')
  <2>1. IsFiniteSet(Kept0)
    <3>1. Kept0 \in SUBSET requests /\ IsFiniteSet(requests)
      BY DEF TypeOK
    <3> QED BY <3>1, FS_Subset
  <2>2. [q \in Kept0 |-> Aged(q)] \in Surjection(Kept0, requests')
    BY DEF Surjection
  <2> HIDE DEF Kept0
  <2> QED BY <2>1, <2>2, FS_Surjection
<1>3. ASSUME NEW l \in Limits
      PROVE  Cardinality(Recent(l.window)') <= l.max
  <2>1. Kept(l.window) \in SUBSET Recent(l.window)
    BY LimitsAssumption DEF Recent, TypeOK
  <2>2. /\ IsFiniteSet(Kept(l.window))
        /\ Cardinality(Kept(l.window)) <= Cardinality(Recent(l.window))
    <3> HIDE DEF Kept
    <3> QED BY <2>1, RecentIsFinite, FS_Subset
  <2>3. Recent(l.window)' = {Aged(q) : q \in Kept(l.window)}
    BY DEF Recent, Aged, TypeOK
  <2>4. [q \in Kept(l.window) |-> Aged(q)] \in Surjection(Kept(l.window), Recent(l.window)')
    <3> HIDE DEF Kept
    <3> QED BY <2>3 DEF Surjection
  <2>5. /\ IsFiniteSet(Recent(l.window)')
        /\ Cardinality(Recent(l.window)') <= Cardinality(Kept(l.window))
    <3> HIDE DEF Kept
    <3> QED BY <2>2, <2>4, FS_Surjection
  <2>6. /\ Cardinality(Recent(l.window)') \in Nat
        /\ Cardinality(Kept(l.window)) \in Nat
        /\ Cardinality(Recent(l.window)) \in Nat
    <3> HIDE DEF Kept
    <3> QED BY <2>2, <2>5, RecentIsFinite, FS_CardinalityType
  <2>7. Cardinality(Recent(l.window)) <= l.max
    BY DEF WithinBudget
  <2> HIDE DEF Kept
  <2> QED BY <2>2, <2>5, <2>6, <2>7, LimitsAssumption
<1>4. WithinBudget'
  BY <1>3 DEF WithinBudget
<1> QED BY <1>1, <1>2, <1>4

-----------------------------------------------------------------------------
(* The calls                                                               *)

LEMMA AsksType ==
  ASSUME NEW c \in Callers
  PROVE  /\ Len(Asks[c]) \in Nat /\ DOMAIN Asks[c] = 1..Len(Asks[c])
         /\ \A i \in DOMAIN Asks[c] : Asks[c][i] \in Series
BY AsksAssumption

CallTypes ==
  call \in [Callers -> Calls] /\ \A c \in Callers : call[c].at \in 1..(Len(Asks[c]) + 1)

\* A step of one call leaves the others as they are, and rows only grow.
LEMMA OneCallMoves ==
  ASSUME TypeOK, CallsInOrder, NEW c \in Callers, NEW k \in Calls,
         call' = [call EXCEPT ![c] = k],
         \A s \in Series : rows[s] \subseteq rows'[s],
         FlightOf(c, k), ProgressOf(c, k)'
  PROVE  CallTypes' /\ CallsInOrder'
<1>1. /\ call'[c] = k
      /\ \A d \in Callers : d # c => call'[d] = call[d]
      /\ call' \in [Callers -> Calls]
  BY DEF TypeOK
<1>2. ASSUME NEW d \in Callers
      PROVE  FlightOf(d, call'[d]) /\ ProgressOf(d, call[d])'
  <2>1. CASE d = c
    BY <2>1, <1>1
  <2>2. CASE d # c
    <3>1. FlightOf(d, call[d]) /\ ProgressOf(d, call[d]) /\ call'[d] = call[d]
      BY <1>1, <2>2 DEF CallsInOrder
    <3>2. PICK j : j = call[d]
      OBVIOUS
    <3>3. ProgressOf(d, j)'
      <4>1. \A i \in DOMAIN Asks[d] : Asks[d][i] \in Series
        BY AsksType
      <4>2. j.pc = "flight" => SeriesAt(d, j) \in Series
        BY <3>1, <3>2, AsksType DEF FlightOf, SeriesAt
      <4> QED BY <3>1, <3>2, <4>1, <4>2 DEF ProgressOf, SeriesAt
    <3> QED BY <3>1, <3>2, <3>3
  <2> QED BY <2>1, <2>2
<1>3. CallsInOrder'
  BY <1>2 DEF CallsInOrder, FlightOf
<1>4. CallTypes'
  BY <1>1, <1>2 DEF CallTypes, FlightOf
<1> QED BY <1>3, <1>4

LEMMA StartOrders ==
  ASSUME TypeOK, CallsInOrder, NEW c \in Callers, NEW w \in Windows, Start(c, w)
  PROVE  CallTypes' /\ CallsInOrder'
<1> DEFINE k == [Idle EXCEPT !.pc = "look", !.now = hour, !.from = w.from, !.to = w.to]
<1>1. PICK q : q = k
  OBVIOUS
<1>2. q = [pc |-> "look", from |-> w.from, to |-> w.to, now |-> hour, at |-> 1,
           part |-> "historical", asked |-> {}, failed |-> FALSE, short |-> FALSE]
  BY <1>1 DEF Idle
<1>3. q \in Calls
  BY <1>2, WindowsAssumption DEF Calls, TypeOK
<1>4. FlightOf(c, q)
  BY <1>2, WindowsAssumption, AsksType DEF FlightOf
<1>5. ProgressOf(c, q)'
  BY <1>2, AsksType DEF ProgressOf
<1>6. call' = [call EXCEPT ![c] = q] /\ rows' = rows
  BY <1>1 DEF Start
<1> QED BY <1>3, <1>4, <1>5, <1>6, OneCallMoves

LEMMA DroppedInOrder ==
  ASSUME TypeOK, NEW c \in Callers, NEW j \in Calls,
         j.from <= j.to, j.at \in 1..Len(Asks[c])
  PROVE  Dropped(j) \in Calls /\ FlightOf(c, Dropped(j)) /\ ProgressOf(c, Dropped(j))'
<1>1. PICK q : q = Dropped(j)
  OBVIOUS
<1>2. q = [pc |-> "look", from |-> j.from, to |-> j.to, now |-> j.now, at |-> j.at + 1,
           part |-> j.part, asked |-> {}, failed |-> TRUE, short |-> j.short]
  BY <1>1 DEF Dropped, NextSeries, Calls
<1>3. q \in Calls
  BY <1>2 DEF Calls, Hours
<1>4. q.pc = "look" /\ q.failed /\ q.from = j.from /\ q.to = j.to /\ q.at = j.at + 1
  BY <1>2 DEF Calls
<1>5. FlightOf(c, q)
  BY <1>4, AsksType DEF FlightOf
<1>6. ProgressOf(c, q)'
  BY <1>4 DEF ProgressOf
<1> QED BY <1>1, <1>3, <1>5, <1>6

LEMMA RequestedInOrder ==
  ASSUME TypeOK, NEW c \in Callers, NEW j \in Calls,
         NEW part \in {"historical", "forecast"},
         j.from <= j.to, j.at \in 1..Len(Asks[c]),
         ~j.failed /\ ~j.short =>
           /\ \A i \in DOMAIN Asks[c] : i < j.at => Window(j) \subseteq rows'[Asks[c][i]]
           /\ part = "forecast" =>
                {h \in Window(j) : h <= j.now} \subseteq rows'[Asks[c][j.at]]
  PROVE  /\ Requested(j, part) \in Calls /\ FlightOf(c, Requested(j, part))
         /\ ProgressOf(c, Requested(j, part))'
<1>1. PICK q : q = Requested(j, part)
  OBVIOUS
<1>2. q = [j EXCEPT !.pc = "flight", !.part = part, !.asked = PartHours(j, part, j.now)]
  BY <1>1 DEF Requested, Clock
<1>3. PartHours(j, part, j.now) \subseteq Hours
  BY TimesAssumption DEF PartHours, Window, Calls, Hours
<1>4. q \in Calls
  BY <1>2, <1>3 DEF Calls
<1>5. /\ q.pc = "flight" /\ q.part = part /\ q.asked = PartHours(j, part, j.now)
      /\ q.from = j.from /\ q.to = j.to /\ q.at = j.at /\ q.now = j.now
      /\ q.failed = j.failed /\ q.short = j.short
  BY <1>2 DEF Calls
<1>6. FlightOf(c, q)
  BY <1>5, AsksType DEF FlightOf, PartHours, Window
<1>7. ProgressOf(c, q)'
  BY <1>5 DEF ProgressOf, Behind, Window, SeriesAt
<1> QED BY <1>1, <1>4, <1>6, <1>7

\* What fetchAndCacheRange does up to its request keeps the whole invariant.
LEMMA IssueKeeps ==
  ASSUME IInv, NEW c \in Callers, NEW j \in Calls,
         NEW part \in {"historical", "forecast"},
         j.from <= j.to, j.at \in 1..Len(Asks[c]),
         rows' \in [Series -> SUBSET Hours], \A s \in Series : rows[s] \subseteq rows'[s],
         ~j.failed /\ ~j.short =>
           /\ \A i \in DOMAIN Asks[c] : i < j.at => Window(j) \subseteq rows'[Asks[c][i]]
           /\ part = "forecast" =>
                {h \in Window(j) : h <= j.now} \subseteq rows'[Asks[c][j.at]],
         Issue(c, j, part), UNCHANGED <<hour, sinceRefusal>>
  PROVE  IInv'
<1> USE DEF IInv
<1>1. CASE cooldown > 0 /\ TurnedAway(c, j) /\ UNCHANGED <<cooldown, requests>>
  <2>1. CallTypes' /\ CallsInOrder'
    BY <1>1, DroppedInOrder, OneCallMoves DEF TurnedAway
  <2>2. WithinBudget' /\ CooldownCoversRefusal'
    BY <1>1 DEF WithinBudget, Recent, CooldownCoversRefusal
  <2>3. TypeOK'
    BY <1>1, <2>1 DEF TypeOK, CallTypes
  <2> QED BY <2>1, <2>2, <2>3
<1>2. CASE cooldown = 0 /\ cooldown' = LimitedFor /\ TurnedAway(c, j) /\ UNCHANGED requests
  <2>1. CallTypes' /\ CallsInOrder'
    BY <1>2, DroppedInOrder, OneCallMoves DEF TurnedAway
  <2>2. CooldownCoversRefusal'
    BY <1>2, TimesAssumption DEF CooldownCoversRefusal, TypeOK
  <2>3. WithinBudget'
    BY <1>2 DEF WithinBudget, Recent
  <2>4. TypeOK'
    BY <1>2, <2>1, TimesAssumption DEF TypeOK, CallTypes
  <2> QED BY <2>1, <2>2, <2>3, <2>4
<1>3. CASE ~Exhausted /\ Send(c, j, part)
  <2>1. CallTypes' /\ CallsInOrder'
    BY <1>3, RequestedInOrder, OneCallMoves DEF Send
  <2>2. /\ requests' \subseteq [age : Nat, nth : Nat] /\ IsFiniteSet(requests')
        /\ WithinBudget'
    BY <1>3, SendFits DEF Send
  <2>3. CooldownCoversRefusal'
    BY <1>3 DEF Send, CooldownCoversRefusal
  <2>4. TypeOK'
    BY <1>3, <2>1, <2>2 DEF TypeOK, CallTypes, Send
  <2> QED BY <2>1, <2>2, <2>3, <2>4
<1> QED BY <1>1, <1>2, <1>3 DEF Issue

\* A step that only moves one call, and rows, keeps the rest.
LEMMA QuietStep ==
  ASSUME IInv, UNCHANGED <<cooldown, requests, hour, sinceRefusal>>,
         rows' \in [Series -> SUBSET Hours], CallTypes', CallsInOrder'
  PROVE  IInv'
<1>1. WithinBudget' /\ CooldownCoversRefusal'
  BY DEF IInv, WithinBudget, Recent, CooldownCoversRefusal
<1>2. TypeOK'
  BY DEF IInv, TypeOK, CallTypes
<1> QED BY <1>1, <1>2 DEF IInv

LEMMA SkipKeeps ==
  ASSUME IInv, NEW c \in Callers, Skip(c)
  PROVE  IInv'
<1>1. PICK j : j = call[c]
  OBVIOUS
<1>2. PICK q : q = NextSeries(j)
  OBVIOUS
<1>3. /\ j \in Calls /\ j.pc = "look" /\ j.at \in 1..Len(Asks[c]) /\ Covered(c, j)
      /\ FlightOf(c, j) /\ ProgressOf(c, j)
  BY <1>1, AsksType DEF IInv, TypeOK, CallsInOrder, Skip, Looking
<1>4. q = [pc |-> "look", from |-> j.from, to |-> j.to, now |-> j.now, at |-> j.at + 1,
           part |-> j.part, asked |-> {}, failed |-> j.failed, short |-> j.short]
  BY <1>2, <1>3 DEF NextSeries, Calls
<1>5. q \in Calls
  BY <1>3, <1>4 DEF Calls, Hours
<1>6. FlightOf(c, q)
  BY <1>3, <1>4, AsksType DEF FlightOf
<1>7. rows' = rows /\ call' = [call EXCEPT ![c] = q]
  BY <1>1, <1>2 DEF Skip
<1>8. ProgressOf(c, q)'
  <2>1. ASSUME ~q.failed, ~q.short, NEW i \in DOMAIN Asks[c], i < q.at
        PROVE  Window(q) \subseteq rows[Asks[c][i]]
    <3>1. CASE i = j.at
      BY <3>1, <1>3, <1>4 DEF Covered, Window, SeriesAt
    <3>2. CASE i # j.at
      BY <3>2, <2>1, <1>3, <1>4, AsksType DEF ProgressOf, Window
    <3> QED BY <3>1, <3>2
  <2> QED BY <2>1, <1>4, <1>7 DEF ProgressOf
<1>9. CallTypes' /\ CallsInOrder'
  BY <1>5, <1>6, <1>7, <1>8, OneCallMoves DEF IInv
<1> QED BY <1>7, <1>9, QuietStep DEF Skip, IInv, TypeOK

LEMMA AskKeeps ==
  ASSUME IInv, NEW c \in Callers, Ask(c)
  PROVE  IInv'
<1>1. PICK j : j = call[c]
  OBVIOUS
<1>2. /\ j \in Calls /\ j.pc = "look" /\ j.at \in 1..Len(Asks[c]) /\ j.from <= j.to
      /\ ProgressOf(c, j)
  BY <1>1, AsksType DEF IInv, TypeOK, CallsInOrder, Ask, Looking, FlightOf
<1>3. rows' = rows /\ UNCHANGED <<hour, sinceRefusal>>
  BY DEF Ask
<1>4. rows' \in [Series -> SUBSET Hours]
  BY <1>3 DEF IInv, TypeOK
<1>5. PICK part \in {"historical", "forecast"} :
        Issue(c, j, part) /\ (part = "forecast" => j.from > j.now)
  BY <1>1, <1>2 DEF Ask, Clock, Calls, Hours
<1>6. part = "forecast" => {h \in Window(j) : h <= j.now} = {}
  BY <1>2, <1>5 DEF Window, Calls, Hours
<1>7. ~j.failed /\ ~j.short =>
        \A i \in DOMAIN Asks[c] : i < j.at => Window(j) \subseteq rows'[Asks[c][i]]
  BY <1>2, <1>3 DEF ProgressOf
<1> QED BY <1>2, <1>3, <1>4, <1>5, <1>6, <1>7, IssueKeeps

LEMMA AnswerKeeps ==
  ASSUME IInv, NEW c \in Callers, NEW got, Answer(c, got)
  PROVE  IInv'
<1>1. PICK o : o = call[c]
  OBVIOUS
<1>2. PICK j : j = [o EXCEPT !.short = @ \/ got # o.asked]
  OBVIOUS
<1>3. /\ o \in Calls /\ o.pc = "flight" /\ o.at \in 1..Len(Asks[c]) /\ o.from <= o.to
      /\ o.asked = PartHours(o, o.part, o.now) /\ ProgressOf(c, o)
      /\ got \subseteq o.asked
  BY <1>1, AsksType DEF IInv, TypeOK, CallsInOrder, Answer, InFlight, FlightOf, Calls
<1>4. PICK late \in BOOLEAN : late = (o.short \/ got # o.asked)
  OBVIOUS
<1>5. /\ j = [pc |-> o.pc, from |-> o.from, to |-> o.to, now |-> o.now, at |-> o.at,
              part |-> o.part, asked |-> o.asked, failed |-> o.failed, short |-> late]
      /\ j \in Calls
  BY <1>2, <1>3, <1>4 DEF Calls
<1>6. rows' = [rows EXCEPT ![Asks[c][o.at]] = @ \cup got]
  BY <1>1, <1>2, <1>5 DEF Answer, Upserted, SeriesAt
<1>7. Asks[c][o.at] \in Series
  BY <1>3, AsksType
<1>8. /\ rows' \in [Series -> SUBSET Hours]
      /\ \A s \in Series : rows[s] \subseteq rows'[s]
      /\ got \subseteq rows'[Asks[c][o.at]]
  BY <1>3, <1>6, <1>7 DEF IInv, TypeOK, Calls
<1>9. UNCHANGED <<hour, sinceRefusal>>
  BY DEF Answer
<1>10. ~j.failed /\ ~j.short =>
         /\ \A i \in DOMAIN Asks[c] : i < j.at => Window(j) \subseteq rows'[Asks[c][i]]
         /\ {h \in Window(j) : h <= j.now} \subseteq rows'[Asks[c][j.at]]
         /\ ~ForecastDue(j) => Window(j) \subseteq rows'[Asks[c][j.at]]
  <2> SUFFICES ASSUME ~j.failed, ~j.short
               PROVE  /\ \A i \in DOMAIN Asks[c] : i < j.at => Window(j) \subseteq rows'[Asks[c][i]]
                      /\ {h \in Window(j) : h <= j.now} \subseteq rows'[Asks[c][j.at]]
                      /\ ~ForecastDue(j) => Window(j) \subseteq rows'[Asks[c][j.at]]
    OBVIOUS
  <2>1. got = PartHours(o, o.part, o.now) /\ ~o.failed /\ ~o.short
    BY <1>3, <1>4, <1>5
  <2>2. \A i \in DOMAIN Asks[c] : i < j.at => Window(j) \subseteq rows'[Asks[c][i]]
    BY <2>1, <1>3, <1>5, <1>8, AsksType DEF ProgressOf, Window
  <2>3. CASE o.part = "historical"
    BY <2>1, <2>2, <2>3, <1>3, <1>5, <1>8 DEF PartHours, Window, ForecastDue, Clock, Calls, Hours
  <2>4. CASE o.part = "forecast"
    <3>1. {h \in Window(o) : h <= o.now} \subseteq rows[Asks[c][o.at]]
      BY <2>1, <2>4, <1>3 DEF ProgressOf, Behind, SeriesAt
    <3>2. {h \in Window(o) : h >= o.now} \subseteq rows'[Asks[c][o.at]]
      BY <2>1, <2>4, <1>8 DEF PartHours
    <3> QED BY <3>1, <3>2, <2>2, <1>3, <1>5, <1>7, <1>8 DEF Window, Calls, Hours
  <2> QED BY <2>3, <2>4, <1>3 DEF Calls
<1>11. CASE ForecastDue(j) /\ Issue(c, j, "forecast")
  BY <1>3, <1>5, <1>8, <1>9, <1>10, <1>11, IssueKeeps
<1>12. CASE /\ ~ForecastDue(j)
            /\ call' = [call EXCEPT ![c] = NextSeries(j)]
            /\ UNCHANGED <<cooldown, requests>>
  <2>1. PICK q : q = NextSeries(j)
    OBVIOUS
  <2>2. q = [pc |-> "look", from |-> j.from, to |-> j.to, now |-> j.now, at |-> j.at + 1,
             part |-> j.part, asked |-> {}, failed |-> j.failed, short |-> j.short]
    BY <2>1, <1>5 DEF NextSeries, Calls
  <2>3. q \in Calls
    BY <2>2, <1>5 DEF Calls, Hours
  <2>4. FlightOf(c, q)
    BY <2>2, <1>3, <1>5, AsksType DEF FlightOf
  <2>5. ProgressOf(c, q)'
    <3>1. ASSUME ~q.failed, ~q.short, NEW i \in DOMAIN Asks[c], i < q.at
          PROVE  Window(q) \subseteq rows'[Asks[c][i]]
      <4>1. CASE i = j.at
        BY <4>1, <3>1, <2>2, <1>10, <1>12 DEF Window
      <4>2. CASE i # j.at
        BY <4>2, <3>1, <2>2, <1>3, <1>5, <1>10, AsksType DEF Window
      <4> QED BY <4>1, <4>2
    <3> QED BY <3>1, <2>2 DEF ProgressOf
  <2>6. CallTypes' /\ CallsInOrder'
    BY <2>1, <2>3, <2>4, <2>5, <1>8, <1>12, OneCallMoves DEF IInv
  <2> QED BY <2>6, <1>8, <1>9, <1>12, QuietStep
<1>13. QED
  BY <1>1, <1>2, <1>11, <1>12 DEF Answer, Upserted

LEMMA RefusedKeeps ==
  ASSUME IInv, NEW c \in Callers, Refused(c) \/ Broken(c)
  PROVE  IInv'
<1>1. PICK j : j = call[c]
  OBVIOUS
<1>2. /\ j \in Calls /\ j.at \in 1..Len(Asks[c]) /\ j.from <= j.to
      /\ rows' = rows /\ requests' = requests /\ hour' = hour
      /\ call' = [call EXCEPT ![c] = Dropped(j)]
  BY <1>1, AsksType DEF IInv, TypeOK, CallsInOrder, Refused, Broken, InFlight, FlightOf
<1>3. CallTypes' /\ CallsInOrder'
  BY <1>2, DroppedInOrder, OneCallMoves DEF IInv
<1>4. CASE Refused(c)
  <2>1. cooldown' = RefusedFor /\ sinceRefusal' = 0
    BY <1>4 DEF Refused
  <2>2. CooldownCoversRefusal'
    BY <2>1, TimesAssumption DEF CooldownCoversRefusal
  <2>3. WithinBudget'
    BY <1>2 DEF IInv, WithinBudget, Recent
  <2>4. TypeOK'
    BY <1>2, <1>3, <2>1, TimesAssumption DEF IInv, TypeOK, CallTypes
  <2> QED BY <1>3, <2>2, <2>3, <2>4 DEF IInv
<1>5. CASE Broken(c)
  BY <1>2, <1>3, <1>5, QuietStep DEF Broken, IInv, TypeOK
<1> QED BY <1>4, <1>5

LEMMA FinishKeeps ==
  ASSUME IInv, NEW c \in Callers, Finish(c)
  PROVE  IInv'
<1>1. PICK j : j = call[c]
  OBVIOUS
<1>2. PICK pc \in {"threw", "answered"} : call' = [call EXCEPT ![c] = [j EXCEPT !.pc = pc]]
  BY <1>1 DEF Finish
<1>3. PICK q : q = [j EXCEPT !.pc = pc]
  OBVIOUS
<1>4. /\ j \in Calls /\ j.pc = "look" /\ j.at = Len(Asks[c]) + 1
      /\ FlightOf(c, j) /\ ProgressOf(c, j)
  BY <1>1, AsksType DEF IInv, TypeOK, CallsInOrder, Finish
<1>5. /\ q \in Calls /\ q.pc = pc /\ q.at = j.at /\ q.from = j.from /\ q.to = j.to
      /\ q.failed = j.failed /\ q.short = j.short
  BY <1>3, <1>4 DEF Calls
<1>6. rows' = rows
  BY DEF Finish
<1>7. FlightOf(c, q)
  BY <1>4, <1>5 DEF FlightOf
<1>8. ProgressOf(c, q)'
  BY <1>4, <1>5, <1>6 DEF ProgressOf, Window
<1>9. CallTypes' /\ CallsInOrder'
  BY <1>2, <1>3, <1>5, <1>6, <1>7, <1>8, OneCallMoves DEF IInv
<1> QED BY <1>6, <1>9, QuietStep DEF Finish, IInv, TypeOK

LEMMA TickKeeps ==
  ASSUME IInv, Tick
  PROVE  IInv'
<1>1. /\ requests' \subseteq [age : Nat, nth : Nat] /\ IsFiniteSet(requests')
      /\ WithinBudget'
  BY AgeingFits DEF IInv, Tick
<1>2. CooldownCoversRefusal' /\ cooldown' \in 0..RefusedFor /\ sinceRefusal' \in 0..RefusedFor
  BY TimesAssumption DEF IInv, Tick, CooldownCoversRefusal, TypeOK
<1>3. CallsInOrder'
  BY DEF IInv, Tick, CallsInOrder, FlightOf, ProgressOf, Behind, Window, PartHours, SeriesAt
<1>4. TypeOK'
  BY <1>1, <1>2 DEF IInv, Tick, TypeOK
<1> QED BY <1>1, <1>2, <1>3, <1>4 DEF IInv

\* A caller without a call.
LEMMA IdleInOrder ==
  /\ Idle \in Calls /\ Idle.pc = "idle"
  /\ \A c \in Callers : FlightOf(c, Idle)
<1>1. Idle \in Calls /\ Idle.pc = "idle" /\ Idle.at = 1 /\ Idle.from = 0 /\ Idle.to = 0
  BY TimesAssumption DEF Idle, Calls, Hours
<1> QED BY <1>1, AsksType DEF FlightOf

LEMMA NoneFit ==
  \A l \in Limits : Cardinality({r \in {} : r.age < l.window}) <= l.max
<1>1. ASSUME NEW l \in Limits
      PROVE  Cardinality({r \in {} : r.age < l.window}) <= l.max
  <2>1. {r \in {} : r.age < l.window} = {} /\ Cardinality({}) = 0
    BY FS_EmptySet
  <2> QED BY <2>1, LimitsAssumption
<1> QED BY <1>1

LEMMA InitKeeps == Init => IInv
<1> SUFFICES ASSUME Init PROVE IInv
  OBVIOUS
<1>1. \A c \in Callers : call[c] = Idle
  BY DEF Init
<1>2. CallsInOrder
  BY <1>1, IdleInOrder DEF CallsInOrder, ProgressOf
<1>3. TypeOK
  <2>1. \A c \in Callers : call[c].at \in 1..(Len(Asks[c]) + 1)
    BY <1>2 DEF CallsInOrder, FlightOf
  <2>2. IsFiniteSet(requests) /\ requests \subseteq [age : Nat, nth : Nat]
    BY FS_EmptySet DEF Init
  <2> QED BY <2>1, <2>2, IdleInOrder, TimesAssumption DEF Init, TypeOK, Hours
<1>4. WithinBudget
  BY NoneFit DEF Init, WithinBudget, Recent
<1>5. CooldownCoversRefusal
  BY TimesAssumption DEF Init, CooldownCoversRefusal
<1> QED BY <1>2, <1>3, <1>4, <1>5 DEF IInv

LEMMA RestartKeeps ==
  ASSUME IInv, Restart
  PROVE  IInv'
<1>1. \A c \in Callers : call'[c] = Idle
  BY DEF Restart
<1>2. CallsInOrder'
  BY <1>1, IdleInOrder DEF CallsInOrder, ProgressOf, FlightOf
<1>3. TypeOK'
  <2>1. \A c \in Callers : call'[c].at \in 1..(Len(Asks[c]) + 1)
    BY <1>1, IdleInOrder DEF FlightOf
  <2>2. IsFiniteSet(requests') /\ requests' \subseteq [age : Nat, nth : Nat]
    BY FS_EmptySet DEF Restart
  <2> QED BY <2>1, <2>2, IdleInOrder DEF IInv, Restart, TypeOK
<1>4. WithinBudget'
  BY NoneFit DEF Restart, WithinBudget, Recent
<1>5. CooldownCoversRefusal'
  BY DEF IInv, Restart, CooldownCoversRefusal
<1> QED BY <1>2, <1>3, <1>4, <1>5 DEF IInv

LEMMA StutterKeeps ==
  ASSUME IInv, UNCHANGED vars
  PROVE  IInv'
<1>1. CallTypes' /\ CallsInOrder'
  BY DEF IInv, TypeOK, vars, CallTypes, CallsInOrder, FlightOf, ProgressOf, Behind,
         Window, PartHours, SeriesAt
<1> QED BY <1>1, QuietStep DEF IInv, TypeOK, vars

\* Every step keeps the invariant.
LEMMA StepKeeps == IInv /\ [Next]_vars => IInv'
<1> SUFFICES ASSUME IInv, [Next]_vars PROVE IInv'
  OBVIOUS
<1>1. ASSUME NEW c \in Callers, NEW w \in Windows, Start(c, w)
      PROVE  IInv'
  BY <1>1, StartOrders, QuietStep DEF Start, IInv, TypeOK
<1>2. ASSUME NEW c \in Callers, NEW got \in SUBSET Hours, Answer(c, got)
      PROVE  IInv'
  BY <1>2, AnswerKeeps
<1> QED BY <1>1, <1>2, SkipKeeps, AskKeeps, RefusedKeeps, FinishKeeps, TickKeeps,
           RestartKeeps, StutterKeeps DEF Next

-----------------------------------------------------------------------------
(* The results                                                             *)

\* The variables keep their types.
THEOREM TypeCorrect == Spec => []TypeOK
<1>1. Init => IInv
  BY InitKeeps
<1>2. IInv /\ [Next]_vars => IInv'
  BY StepKeeps
<1>3. IInv => TypeOK
  BY DEF IInv
<1> QED BY <1>1, <1>2, <1>3, PTL DEF Spec

\* A process keeps every limit on its requests, for any number of callers
\* (consumeOpenMeteoBudget).
THEOREM BudgetIsKept == Spec => []WithinBudget
<1>1. Init => IInv
  BY InitKeeps
<1>2. IInv /\ [Next]_vars => IInv'
  BY StepKeeps
<1>3. IInv => WithinBudget
  BY DEF IInv
<1> QED BY <1>1, <1>2, <1>3, PTL DEF Spec

\* A call that lost nothing returns its whole window (getWeatherHours,
\* getSolarProxyHours).
THEOREM AnswersAreWhole == Spec => []WholeUnlessFailed
<1>1. Init => IInv
  BY InitKeeps
<1>2. IInv /\ [Next]_vars => IInv'
  BY StepKeeps
<1>3. IInv => WholeUnlessFailed
  <2> SUFFICES ASSUME IInv, NEW c \in Callers, call[c].pc = "answered",
                      ~call[c].failed, ~call[c].short, NEW i \in DOMAIN Asks[c]
               PROVE  Window(call[c]) \subseteq rows[Asks[c][i]]
    BY DEF WholeUnlessFailed
  <2>1. FlightOf(c, call[c]) /\ ProgressOf(c, call[c])
    BY DEF IInv, CallsInOrder
  <2> QED BY <2>1, AsksType DEF FlightOf, ProgressOf
<1> QED BY <1>1, <1>2, <1>3, PTL DEF Spec

\* Only a step without a cooldown sends a request.
LEMMA OnlyIssueSends ==
  ASSUME IInv, [Next]_vars, Sent
  PROVE  cooldown = 0
<1>1. PICK r \in requests' : r \notin requests /\ r.age = 0
  BY DEF Sent
<1>2. ~Tick
  <2> SUFFICES ASSUME Tick PROVE FALSE
    OBVIOUS
  <2>1. PICK q \in requests : r = Aged(q)
    BY <1>1 DEF Tick
  <2> QED BY <1>1, <2>1 DEF IInv, TypeOK, Aged
<1>3. ~Restart /\ ~UNCHANGED vars
  BY <1>1 DEF Restart, vars
<1>4. \A c \in Callers : ~Skip(c) /\ ~Refused(c) /\ ~Broken(c) /\ ~Finish(c)
  BY <1>1 DEF Skip, Refused, Broken, Finish
<1>5. \A c \in Callers, w \in Windows : ~Start(c, w)
  BY <1>1 DEF Start
<1>6. \E c \in Callers : Ask(c) \/ \E got \in SUBSET Hours : Answer(c, got)
  BY <1>2, <1>3, <1>4, <1>5 DEF Next
<1> QED BY <1>1, <1>6 DEF Ask, Answer, Issue

\* The program keeps quiet for RefusedFor after HTTP 429, across callers and
\* restarts (recordOpenMeteoCooldown, assertNoOpenMeteoCooldown).
THEOREM RefusalIsRespected == Spec => QuietAfterRefusal
<1>1. Init => IInv
  BY InitKeeps
<1>2. IInv /\ [Next]_vars => IInv'
  BY StepKeeps
<1>3. IInv /\ [Next]_vars => [Sent => sinceRefusal = RefusedFor]_vars
  <2> SUFFICES ASSUME IInv, [Next]_vars, Sent PROVE sinceRefusal = RefusedFor
    OBVIOUS
  <2>1. cooldown = 0
    BY OnlyIssueSends
  <2> QED BY <2>1, TimesAssumption DEF IInv, CooldownCoversRefusal, TypeOK
<1> QED BY <1>1, <1>2, <1>3, PTL DEF Spec, QuietAfterRefusal
=============================================================================

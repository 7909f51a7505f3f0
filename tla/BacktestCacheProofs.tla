------------------------- MODULE BacktestCacheProofs -------------------------
(***************************************************************************)
(* Proofs about BacktestCache for any number of days, configurations,      *)
(* tariffs, plans and restarts.  The argument: what a summary is computed  *)
(* from lies in the past, and the past does not change (LEMMA PastStays),  *)
(* so that a chain of days that was right when it was stored stays right;  *)
(* and whenever a day is simulated the day before is in the cache, or      *)
(* simulated, or impossible to simulate, or without a price for what its   *)
(* battery holds (LEMMA StartIsChained).                                   *)
(***************************************************************************)
EXTENDS BacktestCache, FiniteSetTheorems, TLAPS

\* A configuration is on record whenever the process runs, and none from a day
\* to come.
LogInv ==
  /\ up \/ DOMAIN cache # {} => configLog # <<>>
  /\ \A i \in DOMAIN configLog : configLog[i].day <= today

\* Between calls the service remembers nothing.
CallInv ==
  /\ working => up
  /\ ~working => DOMAIN live = {} /\ barren = {} /\ todo = {} /\ stack = <<>>

\* An entry of day d is right if the day is complete: the day carries on, and
\* both its ends are where one chain of days puts them.
Sound(e, d) ==
  Complete(d) => /\ Carries(d) /\ Chained(e.start, d) /\ Chained(e.final, d + 1)
                 /\ e.final.from = e.start.from

LiveInv ==
  \A d \in DOMAIN live :
    /\ Sound(live[d], d)
    /\ live[d].worth = "so far" => d + 1 >= today
    /\ Priced(d + 1) /\ d + 1 < today => live[d].worth = "settled"

BarrenInv == \A d \in barren : ~Simulable(d) \/ ~Priced(d + 1)

CacheInv ==
  \A k \in DOMAIN cache :
    /\ Sound(cache[k], k.day)
    /\ Priced(k.day + 1) => cache[k].worth = "settled"

IInv == TypeOK /\ LogInv /\ CallInv /\ LiveInv /\ BarrenInv /\ CacheInv /\ Settled

-----------------------------------------------------------------------------
(* The configuration of a day                                              *)

LEMMA HasGreatest ==
  ASSUME NEW S, IsFiniteSet(S), S \subseteq Int, S # {}
  PROVE  \E x \in S : \A y \in S : y <= x
<1> DEFINE Above(i) == {j \in S : j > i}
           U == {Above(i) : i \in S}
<1>1. IsWellFoundedOn(StrictSubsetOrdering(S), FiniteSubsetsOf(S))
  BY FS_StrictSubsetOrderingWellFounded
<1>2. U \subseteq FiniteSubsetsOf(S)
  BY FS_Subset DEF FiniteSubsetsOf
<1>3. U # {}
  OBVIOUS
<1> HIDE DEF U
<1>4. PICK A \in U : \A B \in U : ~(<<B, A>> \in StrictSubsetOrdering(S))
  BY <1>1, <1>2, <1>3, WFMin
<1>5. PICK x \in S : A = Above(x)
  BY <1>4 DEF U
<1>6. ASSUME NEW y \in S, ~(y <= x)
      PROVE  FALSE
  <2>1. Above(y) \subseteq Above(x) /\ y \in Above(x) /\ y \notin Above(y)
    <3>1. x \in Int /\ y \in Int /\ y > x
      BY <1>6
    <3>2. \A j \in S : j > y => j > x
      BY <3>1
    <3>3. Above(y) \subseteq Above(x)
      BY <3>2
    <3>4. y \in Above(x)
      BY <3>1
    <3>5. y \notin Above(y)
      BY <3>1
    <3> QED BY <3>3, <3>4, <3>5
  <2>2. <<Above(y), Above(x)>> \in StrictSubsetOrdering(S)
    BY <2>1 DEF StrictSubsetOrdering
  <2>3. Above(y) \in U
    BY DEF U
  <2> HIDE DEF Above
  <2> QED BY <2>2, <2>3, <1>4, <1>5
<1> QED BY <1>6

Before(d) == {i \in DOMAIN configLog : configLog[i].day < d}

\* The latest row before a day exists.
LEMMA LatestRow ==
  ASSUME configLog \in Seq([day : 0..MaxDay, config : Configs]), NEW d, Before(d) # {}
  PROVE  (CHOOSE i \in Before(d) : \A j \in Before(d) : j <= i) \in Before(d)
<1>1. Before(d) \subseteq 1..Len(configLog) /\ Len(configLog) \in Nat
  BY DEF Before
<1>2. IsFiniteSet(Before(d))
  <2>1. IsFiniteSet(1..Len(configLog))
    BY <1>1, FS_Interval
  <2> QED BY <1>1, <2>1, FS_Subset
<1>3. \E i \in Before(d) : \A j \in Before(d) : j <= i
  BY <1>1, <1>2, HasGreatest, SMTT(30)
<1> HIDE DEF Before
<1> QED BY <1>3, Zenon

\* A row of the log is a day and a configuration.
LEMMA RowType ==
  ASSUME configLog \in Seq([day : 0..MaxDay, config : Configs]), NEW i \in DOMAIN configLog
  PROVE  configLog[i] \in [day : 0..MaxDay, config : Configs]
<1> DEFINE Row == [day : 0..MaxDay, config : Configs]
<1> HIDE DEF Row
<1>1. configLog \in Seq(Row)
  BY DEF Row
<1>2. configLog[i] \in Row
  BY <1>1
<1> QED BY <1>2 DEF Row

LEMMA ConfigAtType ==
  ASSUME configLog \in Seq([day : 0..MaxDay, config : Configs]), configLog # <<>>, NEW d
  PROVE  ConfigAt(d) \in Configs
<1>1. CASE Before(d) = {}
  <2>1. ConfigAt(d) = configLog[1].config
    BY <1>1 DEF ConfigAt, Before
  <2>2. 1 \in DOMAIN configLog
    OBVIOUS
  <2> QED BY <2>1, <2>2, RowType
<1>2. CASE Before(d) # {}
  <2> DEFINE i == CHOOSE i \in Before(d) : \A j \in Before(d) : j <= i
  <2>1. i \in Before(d)
    BY <1>2, LatestRow
  <2>2. ConfigAt(d) = configLog[i].config
    BY <1>2 DEF ConfigAt, Before
  <2> HIDE DEF i
  <2>3. i \in DOMAIN configLog
    BY <2>1 DEF Before
  <2> QED BY <2>2, <2>3, RowType
<1> QED BY <1>1, <1>2

\* A configuration recorded today changes nothing for today and the days before.
LEMMA NewRowIsForLaterDays ==
  ASSUME configLog \in Seq([day : 0..MaxDay, config : Configs]), configLog # <<>>,
         today \in Int, NEW c \in Configs, NEW d \in Int, d <= today,
         configLog' = Append(configLog, [day |-> today, config |-> c])
  PROVE  ConfigAt(d)' = ConfigAt(d)
<1>1. /\ DOMAIN configLog' = 1..(Len(configLog) + 1)
      /\ DOMAIN configLog = 1..Len(configLog)
      /\ Len(configLog) \in Nat \ {0}
      /\ \A i \in 1..Len(configLog) : configLog'[i] = configLog[i]
      /\ configLog'[Len(configLog) + 1].day = today
  OBVIOUS
<1>2. Before(d)' = Before(d)
  BY <1>1 DEF Before
<1>3. CASE Before(d) = {}
  BY <1>1, <1>2, <1>3 DEF ConfigAt, Before
<1>4. CASE Before(d) # {}
  <2> DEFINE i == CHOOSE i \in Before(d) : \A j \in Before(d) : j <= i
  <2>1. i \in Before(d)
    BY <1>4, LatestRow
  <2>2. ConfigAt(d) = configLog[i].config
    BY <1>4 DEF ConfigAt, Before
  <2>3. ConfigAt(d)' = configLog'[i].config
    BY <1>2, <1>4 DEF ConfigAt, Before
  <2> HIDE DEF i
  <2>4. configLog'[i] = configLog[i]
    BY <2>1, <1>1 DEF Before
  <2> QED BY <2>2, <2>3, <2>4
<1> QED BY <1>3, <1>4
-----------------------------------------------------------------------------
(* The past                                                                *)

\* What a step leaves alone: the days before today, as they were recorded and
\* under the configurations they had.
PastIsKept ==
  /\ today' \in Int /\ today <= today'
  /\ \A i \in 1..Yesterday : history'[i] = history[i]
  /\ \A i \in 1..today : ConfigAt(i)' = ConfigAt(i)

LEMMA Later ==
  ASSUME NEW a \in Int, NEW b \in Int, a <= b, NEW d \in 1..(a - 1)
  PROVE  d \in 1..(b - 1) /\ d < b
OBVIOUS

LEMMA PastStays ==
  ASSUME TypeOK, PastIsKept
  PROVE  /\ \A d \in 1..Yesterday : Complete(d)' <=> Complete(d)
         /\ \A d \in 1..Yesterday : Simulable(d)' <=> Simulable(d)
         /\ \A d \in 1..Yesterday : Priced(d)' <=> Priced(d)
         /\ \A d \in 1..Yesterday : Carries(d)' <=> Carries(d)
         /\ ~Carries(0) /\ ~Carries(0)'
<1>1. today \in Int /\ today' \in Int /\ today <= today'
  BY DaysAssumption DEF TypeOK, PastIsKept, Days
<1>2. \A d \in 1..Yesterday : history'[d] = history[d]
  BY DEF PastIsKept
<1>3. ASSUME NEW d \in 1..Yesterday
      PROVE  Complete(d)' <=> Complete(d)
  <2>1. d \in 1..Yesterday'
    BY <1>1, Later DEF Yesterday
  <2>2. history'[d] = history[d]
    BY <1>2
  <2>3. Complete(d) <=> "ends" \in history[d]
    BY DEF Complete
  <2>4. Complete(d)' <=> "ends" \in history'[d]
    BY <2>1 DEF Complete
  <2> QED BY <2>2, <2>3, <2>4
<1>4. /\ \A d \in 1..Yesterday : Simulable(d)' <=> Simulable(d)
      /\ \A d \in 1..Yesterday : Priced(d)' <=> Priced(d)
  BY <1>1, <1>2 DEF Simulable, Priced
<1>5. ~Complete(0) /\ ~Complete(0)'
  BY <1>1 DEF Complete, Yesterday
<1> QED BY <1>3, <1>4, <1>5 DEF Carries

LEMMA SoundStays ==
  ASSUME TypeOK, PastIsKept, NEW d \in 1..Yesterday, NEW e, IsEntry(e, d), Sound(e, d)
  PROVE  Sound(e, d)'
<1> SUFFICES ASSUME Complete(d)'
             PROVE  /\ Carries(d)' /\ Chained(e.start, d)' /\ Chained(e.final, d + 1)'
                    /\ e.final.from = e.start.from
  BY DEF Sound
<1>1. today \in Int /\ d \in Int
  BY DaysAssumption DEF TypeOK, Days
<1>2. /\ Carries(d) /\ Chained(e.start, d) /\ Chained(e.final, d + 1)
      /\ e.final.from = e.start.from
  BY PastStays DEF Sound
<1>3. e.start.from \in 1..d /\ e.final.from \in 1..d
  BY <1>1, <1>2 DEF IsEntry, IsSoc
<1>4. ASSUME NEW s, NEW n \in {d, d + 1}, s.from \in 1..d, Chained(s, n)
      PROVE  Chained(s, n)'
  <2>1. \A i \in s.from..(n - 1) : i \in 1..Yesterday /\ i \in 1..today
    BY <1>1, <1>4 DEF Yesterday
  <2>2. \A i \in s.from..(n - 1) : Carries(i)' /\ s.under[i] = ConfigAt(i)'
    BY <1>4, <2>1, PastStays DEF Chained, PastIsKept
  <2>3. s.from - 1 \in 1..Yesterday \/ s.from - 1 = 0
    BY <1>1, <1>4 DEF Yesterday
  <2>4. Carries(s.from - 1)' => ~Priced(s.from)'
    <3>1. s.from \in 1..Yesterday
      BY <1>1, <1>4 DEF Yesterday
    <3> QED BY <1>4, <2>3, <3>1, PastStays DEF Chained
  <2> QED BY <2>2, <2>4 DEF Chained
<1>5. Carries(d)'
  BY <1>2, PastStays
<1> QED BY <1>2, <1>3, <1>4, <1>5

LEMMA CacheStays ==
  ASSUME TypeOK, Settled, CacheInv, PastIsKept, UNCHANGED cache
  PROVE  CacheInv' /\ Settled'
<1>1. ASSUME NEW k \in DOMAIN cache, NEW e, e = cache[k]
      PROVE  /\ Sound(e, k.day)'
             /\ Priced(k.day + 1)' => e.worth = "settled"
             /\ k.day + 1 < today' /\ e.worth # "so far"
  <2>0. today \in Int /\ today' \in Int /\ today <= today'
    BY DaysAssumption DEF TypeOK, PastIsKept, Days
  <2>1. k.day \in 1..Yesterday /\ k.day + 1 \in 1..Yesterday
    <3>1. k \in [day : Days, config : Configs, tariff : Tariffs]
      BY DEF TypeOK
    <3>2. k.day \in Days
      BY <3>1
    <3>3. k.day + 1 < today
      BY DEF Settled
    <3> QED BY <2>0, <3>2, <3>3, DaysAssumption DEF Yesterday, Days
  <2>2. /\ IsEntry(e, k.day) /\ Sound(e, k.day)
        /\ Priced(k.day + 1) => e.worth = "settled"
    BY <1>1 DEF TypeOK, CacheInv
  <2>3. Sound(e, k.day)'
    BY <2>1, <2>2, SoundStays
  <2>4. Priced(k.day + 1)' <=> Priced(k.day + 1)
    BY <2>1, PastStays
  <2>5. k.day + 1 < today' /\ e.worth # "so far"
    <3>1. k.day + 1 < today /\ e.worth # "so far"
      BY <1>1 DEF Settled
    <3> QED BY <2>0, <2>1, <3>1, Later DEF Yesterday
  <2>6. Priced(k.day + 1)' => e.worth = "settled"
    BY <2>2, <2>4
  <2> QED BY <2>3, <2>5, <2>6
<1>2. CacheInv'
  <2>1. ASSUME NEW k \in DOMAIN cache
        PROVE  Sound(cache[k], k.day)'
    BY <1>1, <2>1 DEF Sound, Chained
  <2>2. ASSUME NEW k \in DOMAIN cache
        PROVE  Priced(k.day + 1)' => cache'[k].worth = "settled"
    BY <1>1, <2>2
  <2> QED BY <2>1, <2>2 DEF CacheInv
<1>3. Settled'
  BY <1>1 DEF Settled
<1> QED BY <1>2, <1>3
-----------------------------------------------------------------------------
(* One simulated day                                                       *)

LEMMA TodayType ==
  ASSUME TypeOK
  PROVE  today \in Int /\ 1..Yesterday \subseteq Days /\ 1..Yesterday \subseteq Int
BY DaysAssumption DEF TypeOK, Days, Yesterday

\* Simulating a day appends it to the chain.
LEMMA ThroughType ==
  ASSUME NEW d \in Int, NEW soc, IsSoc(soc, d), ConfigAt(d) \in Configs
  PROVE  IsSoc(Through(d, soc), d + 1)
<1>1. PICK f \in 1..d : soc \in [from : {f}, under : [f..(d - 1) -> Configs]]
  BY DEF IsSoc
<1>2. soc.from = f /\ soc.under \in [f..(d - 1) -> Configs]
  BY <1>1
<1> DEFINE u == [i \in f..d |-> IF i = d THEN ConfigAt(d) ELSE soc.under[i]]
<1>3. u \in [f..d -> Configs]
  <2> SUFFICES ASSUME NEW i \in f..d
               PROVE  (IF i = d THEN ConfigAt(d) ELSE soc.under[i]) \in Configs
    OBVIOUS
  <2>1. CASE i = d
    BY <2>1
  <2>2. CASE i # d
    BY <1>2, <2>2
  <2> QED BY <2>1, <2>2
<1>4. Through(d, soc) = [from |-> f, under |-> u]
  BY <1>2 DEF Through
<1>5. f \in 1..(d + 1) /\ (d + 1) - 1 = d
  OBVIOUS
<1> HIDE DEF u
<1>6. Through(d, soc) \in [from : {f}, under : [f..((d + 1) - 1) -> Configs]]
  BY <1>3, <1>4, <1>5
<1> QED BY <1>5, <1>6 DEF IsSoc

LEMMA ThroughIsChained ==
  ASSUME NEW d \in Int, NEW soc, IsSoc(soc, d), Chained(soc, d), Carries(d)
  PROVE  Chained(Through(d, soc), d + 1) /\ Through(d, soc).from = soc.from
<1>1. soc.from \in 1..d
  BY DEF IsSoc
<1> DEFINE t == Through(d, soc)
<1>2. /\ t.from = soc.from
      /\ \A i \in soc.from..d : t.under[i] = IF i = d THEN ConfigAt(d) ELSE soc.under[i]
  BY DEF Through
<1> HIDE DEF t
<1>3. ASSUME NEW i \in soc.from..d
      PROVE  Carries(i) /\ t.under[i] = ConfigAt(i)
  <2>1. CASE i = d
    BY <1>2, <2>1
  <2>2. CASE i # d
    BY <1>1, <1>2, <2>2 DEF Chained
  <2> QED BY <2>1, <2>2
<1>4. (d + 1) - 1 = d
  OBVIOUS
<1>5. Chained(t, d + 1)
  BY <1>2, <1>3, <1>4 DEF Chained
<1> QED BY <1>2, <1>5 DEF t

LEMMA RecordedType ==
  ASSUME NEW d \in Int, d >= 1
  PROVE  IsSoc(Recorded(d), d)
<1>1. <<>> \in [d..(d - 1) -> Configs]
  <2>1. d..(d - 1) = {}
    OBVIOUS
  <2>2. <<>> \in [{} -> Configs]
    OBVIOUS
  <2> QED BY <2>1, <2>2
<1>2. Recorded(d) \in [from : {d}, under : [d..(d - 1) -> Configs]]
  BY <1>1 DEF Recorded
<1> QED BY <1>2 DEF IsSoc

LEMMA RecordedIsChained ==
  ASSUME NEW d \in Int, Carries(d - 1) => ~Priced(d)
  PROVE  Chained(Recorded(d), d)
BY DEF Chained, Recorded

\* The day before's summary in the cache is one of that day.
LEMMA CachedDay ==
  ASSUME NEW d, Cached(d)
  PROVE  Key(d) \in DOMAIN cache /\ Key(d).day = d
BY DEF Cached, Stored, Key

LEMMA StartType ==
  ASSUME IInv, NEW d \in 1..Yesterday
  PROVE  IsSoc(StartSoc(d), d)
<1>0. d \in Int /\ d >= 1 /\ (d - 1) + 1 = d
  BY TodayType DEF IInv
<1>1. CASE Complete(d - 1) /\ d - 1 \in DOMAIN live
  <2>1. IsEntry(live[d - 1], d - 1)
    BY <1>1 DEF IInv, TypeOK
  <2>2. IsSoc(live[d - 1].final, d)
    BY <1>0, <2>1 DEF IsEntry
  <2> QED BY <1>1, <2>2 DEF StartSoc
<1>2. CASE Complete(d - 1) /\ d - 1 \notin DOMAIN live /\ Cached(d - 1)
  <2>1. IsEntry(cache[Key(d - 1)], d - 1)
    BY <1>2, CachedDay DEF IInv, TypeOK
  <2>2. IsSoc(cache[Key(d - 1)].final, d)
    BY <1>0, <2>1 DEF IsEntry
  <2> QED BY <1>2, <2>2 DEF StartSoc
<1>3. CASE ~(Complete(d - 1) /\ (d - 1 \in DOMAIN live \/ Cached(d - 1)))
  BY <1>0, <1>3, RecordedType DEF StartSoc
<1> QED BY <1>1, <1>2, <1>3

\* When a complete day is simulated, the day before it was, or its summary is in
\* the cache, or the chain of days begins here.
LEMMA StartIsChained ==
  ASSUME IInv, NEW d \in 1..Yesterday, Complete(d), ~WaitsFor(d), ~HasNoEntry(d)
  PROVE  Chained(StartSoc(d), d)
<1>0. d \in Int /\ d >= 1 /\ (d - 1) + 1 = d /\ d - 1 < Yesterday
  BY TodayType DEF IInv, Yesterday
<1>1. CASE Complete(d - 1) /\ d - 1 \in DOMAIN live
  <2>1. Sound(live[d - 1], d - 1)
    BY <1>1 DEF IInv, LiveInv
  <2>2. Chained(live[d - 1].final, d)
    BY <1>0, <1>1, <2>1 DEF Sound
  <2> QED BY <1>1, <2>2 DEF StartSoc
<1>2. CASE Complete(d - 1) /\ d - 1 \notin DOMAIN live /\ Cached(d - 1)
  <2>1. Sound(cache[Key(d - 1)], d - 1)
    BY <1>2, CachedDay DEF IInv, CacheInv
  <2>2. Chained(cache[Key(d - 1)].final, d)
    BY <1>0, <1>2, <2>1 DEF Sound
  <2> QED BY <1>2, <2>2 DEF StartSoc
<1>3. CASE ~(Complete(d - 1) /\ (d - 1 \in DOMAIN live \/ Cached(d - 1)))
  <2>1. Carries(d - 1) => ~Priced(d)
    <3>1. CASE ~Complete(d - 1)
      BY <3>1 DEF Carries
    <3>2. CASE Complete(d - 1)
      <4>1. CacheEligible(d - 1)
        BY <1>0 DEF CacheEligible
      <4>2. d - 1 \in barren
        BY <1>3, <3>2, <4>1 DEF WaitsFor
      <4>3. ~Simulable(d - 1) \/ ~Priced(d)
        BY <1>0, <4>2 DEF IInv, BarrenInv
      <4> QED BY <4>3 DEF HasNoEntry, Carries
    <3> QED BY <3>1, <3>2
  <2>2. StartSoc(d) = Recorded(d)
    BY <1>3 DEF StartSoc
  <2> QED BY <1>0, <2>1, <2>2, RecordedIsChained
<1> QED BY <1>1, <1>2, <1>3

\* What a call makes of a day is right.
LEMMA EntryIsRight ==
  ASSUME IInv, working, NEW d \in 1..Yesterday, ~WaitsFor(d), ~HasNoEntry(d)
  PROVE  /\ IsEntry(Entry(d), d)
         /\ Sound(Entry(d), d)
         /\ Entry(d).worth = "so far" => d + 1 >= today
         /\ Priced(d + 1) /\ d + 1 < today => Entry(d).worth = "settled"
<1>0. d \in Int
  BY TodayType DEF IInv
<1>1. ConfigAt(d) \in Configs
  BY ConfigAtType DEF IInv, TypeOK, LogInv, CallInv
<1>2. IsSoc(StartSoc(d), d) /\ IsSoc(Through(d, StartSoc(d)), d + 1)
  BY <1>0, <1>1, StartType, ThroughType
<1>3. /\ Entry(d) = [start |-> Entry(d).start, final |-> Entry(d).final, worth |-> Entry(d).worth]
      /\ Entry(d).start = StartSoc(d)
      /\ Entry(d).final = Through(d, StartSoc(d))
      /\ Entry(d).worth = Worth(d)
  BY DEF Entry
<1>4. /\ Worth(d) \in Snapshots \cup {"settled", "so far"}
      /\ Worth(d) = "so far" => ~(d + 1 < today)
      /\ Priced(d + 1) /\ d + 1 < today => Worth(d) = "settled"
  BY SnapshotsAssumption DEF Worth, HasNoEntry, IInv, TypeOK
<1>5. IsEntry(Entry(d), d)
  BY <1>2, <1>3, <1>4 DEF IsEntry
<1>6. Sound(Entry(d), d)
  <2> SUFFICES ASSUME Complete(d)
               PROVE  /\ Carries(d) /\ Chained(Entry(d).start, d)
                      /\ Chained(Entry(d).final, d + 1) /\ Entry(d).final.from = Entry(d).start.from
    BY DEF Sound
  <2>1. Carries(d)
    BY DEF Carries, HasNoEntry
  <2>2. Chained(StartSoc(d), d)
    BY StartIsChained
  <2>3. /\ Chained(Through(d, StartSoc(d)), d + 1)
        /\ Through(d, StartSoc(d)).from = StartSoc(d).from
    BY <1>0, <1>2, <2>1, <2>2, ThroughIsChained
  <2> QED BY <1>3, <2>1, <2>2, <2>3
<1>7. Entry(d).worth = "so far" => d + 1 >= today
  <2>1. today \in Int /\ d + 1 \in Int
    BY <1>0, TodayType DEF IInv
  <2>2. ~(d + 1 < today) => d + 1 >= today
    BY <2>1
  <2> QED BY <1>3, <1>4, <2>2
<1> QED BY <1>3, <1>4, <1>5, <1>6, <1>7
-----------------------------------------------------------------------------
(* The steps of a call                                                     *)

\* Within a day the past is kept, and what the call has made so far stays right.
LEMMA CallStays ==
  ASSUME IInv, UNCHANGED <<today, history, configLog>>
  PROVE  /\ PastIsKept
         /\ UNCHANGED cache => CacheInv' /\ Settled'
         /\ UNCHANGED <<live, barren>> => LiveInv' /\ BarrenInv'
<1>1. PastIsKept
  BY TodayType DEF IInv, PastIsKept, ConfigAt
<1>2. ASSUME UNCHANGED cache
      PROVE  CacheInv' /\ Settled'
  BY <1>1, <1>2, CacheStays DEF IInv
<1>3. ASSUME UNCHANGED <<live, barren>>
      PROVE  LiveInv' /\ BarrenInv'
  <2>1. ASSUME NEW d \in DOMAIN live, NEW e, e = live[d]
        PROVE  Sound(e, d)'
    BY <1>1, <2>1, SoundStays DEF IInv, TypeOK, LiveInv
  <2>2. \A d : (Simulable(d)' <=> Simulable(d)) /\ (Priced(d)' <=> Priced(d))
    BY DEF Simulable, Priced
  <2>3. \A d \in DOMAIN live' : Sound(live[d], d)'
    BY <1>3, <2>1 DEF Sound, Chained
  <2>4. LiveInv'
    BY <1>3, <2>2, <2>3 DEF IInv, LiveInv
  <2>5. BarrenInv'
    BY <1>3, <2>2 DEF IInv, BarrenInv
  <2> QED BY <2>4, <2>5
<1> QED BY <1>1, <1>2, <1>3

LEMMA NothingMade ==
  ASSUME DOMAIN live' = {}, barren' = {}
  PROVE  LiveInv' /\ BarrenInv'
BY DEF LiveInv, BarrenInv

LEMMA EmptyDomain == DOMAIN <<>> = {}
OBVIOUS

\* A call begins with days of the past.
LEMMA AskKeeps ==
  ASSUME IInv, Idle, NEW S \in SUBSET (1..Yesterday), NEW F \in SUBSET (1..Yesterday),
         NEW plan \in Snapshots \cup {"none"}, Ask(S, F, plan),
         due' \in {"none", "startup", "midnight"},
         UNCHANGED <<world, configLog, cache, up, restarts>>
  PROVE  IInv'
<1>1. /\ UNCHANGED <<stack, live, barren>>
      /\ todo' \in SUBSET (1..Yesterday)
      /\ forced' \in SUBSET (1..Yesterday)
      /\ using' \in Snapshots \cup {"none"}
      /\ working' \in BOOLEAN
      /\ working' => up
      /\ ~working' => todo' = {}
  <2>1. CASE UNCHANGED job
    BY <2>1 DEF IInv, TypeOK, CallInv, Idle, job
  <2>2. CASE ~UNCHANGED job
    BY <2>2 DEF Ask, Idle
  <2> QED BY <2>1, <2>2
<1>2. TypeOK'
  BY <1>1 DEF IInv, TypeOK, world, Yesterday
<1>3. LogInv'
  BY DEF IInv, LogInv, world
<1>4. CallInv'
  BY <1>1 DEF IInv, CallInv, Idle
<1>5. LiveInv' /\ BarrenInv' /\ CacheInv' /\ Settled'
  BY <1>1, CallStays DEF world
<1> QED BY <1>2, <1>3, <1>4, <1>5 DEF IInv

LEMMA RequestKeeps ==
  ASSUME IInv
  PROVE  /\ \A first \in Days : Page(first) => IInv'
         /\ \A d \in Days : Detail(d) => IInv'
         /\ Startup \/ Scheduled => IInv'
<1>0. /\ snapshot \in Snapshots \cup {"none"} /\ "none" \in Snapshots \cup {"none"}
      /\ due \in {"none", "startup", "midnight"}
      /\ {} \in SUBSET (1..Yesterday)
  BY DEF IInv, TypeOK
<1>1. ASSUME NEW first \in Days, Page(first)
      PROVE  IInv'
  <2> DEFINE S == {d \in first..first + PageLength - 1 : Complete(d)}
  <2>1. S \in SUBSET (1..Yesterday)
    BY DEF Complete
  <2>2. Idle /\ Ask(S, {}, snapshot) /\ UNCHANGED <<world, configLog, cache, up, due, restarts>>
    BY <1>1 DEF Page
  <2> HIDE DEF S
  <2> QED BY <1>0, <2>1, <2>2, AskKeeps
<1>2. ASSUME NEW d \in Days, Detail(d)
      PROVE  IInv'
  <2>1. {d} \in SUBSET (1..Yesterday)
    BY <1>2 DEF Detail, Complete
  <2>2. Idle /\ Ask({d}, {d}, snapshot) /\ UNCHANGED <<world, configLog, cache, up, due, restarts>>
    BY <1>2 DEF Detail
  <2> QED BY <1>0, <2>1, <2>2, AskKeeps
<1>3. ASSUME Startup
      PROVE  IInv'
  <2> DEFINE S == {d \in Days : Complete(d) /\ CacheEligible(d)}
  <2>1. S \in SUBSET (1..Yesterday)
    BY DEF Complete
  <2>2. /\ Idle /\ Ask(S, {}, "none") /\ due' = "none"
        /\ UNCHANGED <<world, configLog, cache, up, restarts>>
    BY <1>3 DEF Startup
  <2> HIDE DEF S
  <2> QED BY <1>0, <2>1, <2>2, AskKeeps
<1>4. ASSUME Scheduled
      PROVE  IInv'
  <2> DEFINE S == {d \in Days : d = today - 2 /\ CacheEligible(d)}
  <2>1. S \in SUBSET (1..Yesterday)
    BY TodayType, DaysAssumption DEF IInv, Days, CacheEligible, Yesterday
  <2>2. /\ Idle /\ Ask(S, {}, "none") /\ due' = "none"
        /\ UNCHANGED <<world, configLog, cache, up, restarts>>
    BY <1>4 DEF Scheduled
  <2> HIDE DEF S
  <2> QED BY <1>0, <2>1, <2>2, AskKeeps
<1> QED BY <1>1, <1>2, <1>3, <1>4

LEMMA TakeKeeps ==
  ASSUME IInv, Take
  PROVE  IInv'
<1>1. PICK d \in todo : /\ todo' = todo \ {d}
                        /\ stack' = IF d \in DOMAIN live THEN stack ELSE <<d>>
  BY DEF Take
<1>2. d \in 1..Yesterday /\ stack' \in Seq(1..Yesterday) /\ todo' \subseteq 1..Yesterday
  <2> DEFINE P == 1..Yesterday
  <2>1. d \in P /\ todo' \subseteq P /\ stack \in Seq(P)
    BY <1>1 DEF IInv, TypeOK
  <2> HIDE DEF P
  <2>2. <<d>> \in Seq(P)
    BY <2>1
  <2>3. stack' \in Seq(P)
    BY <1>1, <2>1, <2>2
  <2> QED BY <2>1, <2>3 DEF P
<1>3. UNCHANGED <<today, history, tariff, snapshot, observed, configLog, cache, up, due, restarts,
                  working, live, barren, forced, using>>
  BY DEF Take, world
<1>4. TypeOK'
  BY <1>2, <1>3 DEF IInv, TypeOK, Yesterday
<1>5. LogInv' /\ CallInv'
  BY <1>3 DEF IInv, LogInv, CallInv, Take
<1>6. LiveInv' /\ BarrenInv' /\ CacheInv' /\ Settled'
  BY <1>3, CallStays
<1> QED BY <1>4, <1>5, <1>6 DEF IInv

LEMMA TopType ==
  ASSUME TypeOK, stack # <<>>
  PROVE  Top \in 1..Yesterday /\ SubSeq(stack, 1, Len(stack) - 1) \in Seq(1..Yesterday)
<1> DEFINE P == 1..Yesterday
<1> HIDE DEF P
<1>1. stack \in Seq(P)
  BY DEF TypeOK, P
<1>2. stack[Len(stack)] \in P /\ SubSeq(stack, 1, Len(stack) - 1) \in Seq(P)
  BY <1>1
<1> QED BY <1>2 DEF Top, P

LEMMA DescendKeeps ==
  ASSUME IInv, Descend
  PROVE  IInv'
<1>1. stack' \in Seq(1..Yesterday)
  <2>1. Top - 1 \in 1..Yesterday
    BY DEF Descend, WaitsFor, Complete
  <2> QED BY <2>1 DEF Descend, IInv, TypeOK
<1>2. UNCHANGED <<today, history, tariff, snapshot, observed, configLog, cache, up, due, restarts,
                  working, todo, live, barren, forced, using>>
  BY DEF Descend, world
<1>3. TypeOK'
  BY <1>1, <1>2 DEF IInv, TypeOK, Yesterday
<1>4. LogInv' /\ CallInv'
  BY <1>2 DEF IInv, LogInv, CallInv, Descend
<1>5. LiveInv' /\ BarrenInv' /\ CacheInv' /\ Settled'
  BY <1>2, CallStays
<1> QED BY <1>3, <1>4, <1>5 DEF IInv

LEMMA SimulateKeeps ==
  ASSUME IInv, Simulate
  PROVE  IInv'
<1>0. /\ working /\ ~WaitsFor(Top) /\ Top \in 1..Yesterday
      /\ stack' \in Seq(1..Yesterday)
  BY TopType DEF IInv, Simulate
<1>1. UNCHANGED <<today, history, tariff, snapshot, observed, configLog, cache, up, due, restarts,
                  working, todo, forced, using>>
  BY DEF Simulate, world
<1>2. CacheInv' /\ Settled' /\ PastIsKept
  BY <1>1, CallStays
<1>3. \A d : (Simulable(d)' <=> Simulable(d)) /\ (Priced(d)' <=> Priced(d))
  BY <1>1 DEF Simulable, Priced
<1>4. LogInv' /\ CallInv'
  BY <1>0, <1>1 DEF IInv, LogInv, CallInv
<1>5. CASE HasNoEntry(Top)
  <2>1. barren' = barren \cup {Top} /\ live' = live
    BY <1>5 DEF Simulate
  <2>2. TypeOK'
    BY <1>0, <1>1, <2>1 DEF IInv, TypeOK, Yesterday
  <2>3. ~Simulable(Top) \/ ~Priced(Top + 1)
    BY <1>5 DEF HasNoEntry, Worth
  <2>4. BarrenInv'
    BY <1>3, <2>1, <2>3 DEF IInv, BarrenInv
  <2>5. LiveInv'
    <3>1. ASSUME NEW d \in DOMAIN live, NEW e, e = live[d]
          PROVE  Sound(e, d)'
      BY <1>2, <3>1, SoundStays DEF IInv, TypeOK, LiveInv
    <3>2. \A d \in DOMAIN live' : Sound(live[d], d)'
      BY <2>1, <3>1 DEF Sound, Chained
    <3> QED BY <1>1, <1>3, <2>1, <3>2 DEF IInv, LiveInv
  <2> QED BY <1>2, <1>4, <2>2, <2>4, <2>5 DEF IInv
<1>6. CASE ~HasNoEntry(Top)
  <2> DEFINE t == Top
             e == Entry(t)
  <2>1. /\ barren' = barren
        /\ live' = [d \in DOMAIN live \cup {t} |-> IF d = t THEN e ELSE live[d]]
    BY <1>6 DEF Simulate
  <2>2. /\ t \in 1..Yesterday
        /\ IsEntry(e, t) /\ Sound(e, t)
        /\ e.worth = "so far" => t + 1 >= today
        /\ Priced(t + 1) /\ t + 1 < today => e.worth = "settled"
    BY <1>0, <1>6, EntryIsRight
  <2> HIDE DEF t, e
  <2>3. ASSUME NEW d \in DOMAIN live'
        PROVE  /\ d \in 1..Yesterday
               /\ IsEntry(live'[d], d) /\ Sound(live'[d], d)
               /\ live'[d].worth = "so far" => d + 1 >= today
               /\ Priced(d + 1) /\ d + 1 < today => live'[d].worth = "settled"
    <3>1. CASE d = t
      BY <2>1, <2>2, <3>1
    <3>2. CASE d # t
      <4>1. d \in DOMAIN live /\ live'[d] = live[d]
        BY <2>1, <3>2
      <4> QED BY <4>1 DEF IInv, TypeOK, LiveInv
    <3> QED BY <3>1, <3>2
  <2>4. TypeOK'
    BY <1>0, <1>1, <2>1, <2>3 DEF IInv, TypeOK, Yesterday
  <2>5. LiveInv'
    <3>1. ASSUME NEW d \in DOMAIN live', NEW f, f = live'[d]
          PROVE  Sound(f, d)'
      BY <1>2, <2>3, <3>1, SoundStays DEF IInv
    <3>2. \A d \in DOMAIN live' : Sound(live[d], d)'
      BY <3>1 DEF Sound, Chained
    <3> QED BY <1>1, <1>3, <2>3, <3>2 DEF LiveInv
  <2>6. BarrenInv'
    BY <1>3, <2>1 DEF IInv, BarrenInv
  <2> QED BY <1>2, <1>4, <2>4, <2>5, <2>6 DEF IInv
<1> QED BY <1>5, <1>6

\* What a call stores: summaries of days that are over, under their keys.
LEMMA StoredRows ==
  ASSUME IInv, Finish, NEW k \in DOMAIN cache'
  PROVE  \/ k \in DOMAIN cache /\ cache'[k] = cache[k]
         \/ /\ k.day \in DOMAIN live /\ k = Key(k.day) /\ cache'[k] = live[k.day]
            /\ k.day \in 1..Yesterday /\ k.day + 1 < today
<1> DEFINE rows == {d \in DOMAIN live : Storable(d)}
           keys == {Key(d) : d \in rows}
<1>1. cache' = [j \in DOMAIN cache \cup keys |-> IF j \in keys THEN live[j.day] ELSE cache[j]]
  BY DEF Finish
<1>2. CASE k \notin keys
  BY <1>1, <1>2
<1>3. CASE k \in keys
  <2>1. PICK d \in rows : k = Key(d)
    BY <1>3
  <2>2. k.day = d
    BY <2>1 DEF Key
  <2>3. d \in 1..Yesterday /\ d < Yesterday
    BY <2>1 DEF IInv, TypeOK, Storable, CacheEligible
  <2>4. d + 1 < today
    BY <2>3, TodayType DEF IInv, Yesterday
  <2> QED BY <1>1, <1>3, <2>1, <2>2, <2>3, <2>4
<1> QED BY <1>2, <1>3

LEMMA FinishKeeps ==
  ASSUME IInv, Finish
  PROVE  IInv'
<1>1. UNCHANGED <<today, history, tariff, snapshot, observed, configLog, up, due, restarts>>
  BY DEF Finish, world
<1>2. /\ working' = FALSE /\ todo' = {} /\ stack' = <<>> /\ live' = <<>> /\ barren' = {}
      /\ forced' = {} /\ using' = "none" /\ DOMAIN live' = {}
      /\ stack' \in Seq(1..Yesterday)
  BY EmptyDomain DEF Finish, NoJob
<1>3. ASSUME NEW k \in DOMAIN cache'
      PROVE  /\ k \in [day : Days, config : Configs, tariff : Tariffs]
             /\ IsEntry(cache'[k], k.day) /\ Sound(cache'[k], k.day)
             /\ Priced(k.day + 1) => cache'[k].worth = "settled"
             /\ k.day + 1 < today /\ cache'[k].worth # "so far"
  <2>1. CASE k \in DOMAIN cache /\ cache'[k] = cache[k]
    BY <2>1 DEF IInv, TypeOK, CacheInv, Settled
  <2>2. CASE /\ k.day \in DOMAIN live /\ k = Key(k.day) /\ cache'[k] = live[k.day]
             /\ k.day \in 1..Yesterday /\ k.day + 1 < today
    <3>1. ConfigAt(k.day) \in Configs
      BY ConfigAtType DEF IInv, TypeOK, LogInv, CallInv, Finish
    <3>2. k.day \in Days /\ tariff[k.day] \in Tariffs
      BY <2>2, TodayType DEF IInv, TypeOK
    <3>3. k \in [day : Days, config : Configs, tariff : Tariffs]
      BY <2>2, <3>1, <3>2 DEF Key
    <3>4. ~(k.day + 1 >= today)
      BY <2>2, <3>2, TodayType DEF IInv
    <3>5. live[k.day].worth # "so far"
      BY <2>2, <3>4 DEF IInv, LiveInv
    <3>6. /\ IsEntry(live[k.day], k.day) /\ Sound(live[k.day], k.day)
          /\ Priced(k.day + 1) => live[k.day].worth = "settled"
      BY <2>2 DEF IInv, TypeOK, LiveInv
    <3>7. PICK e : e = live[k.day]
      OBVIOUS
    <3>8. cache'[k] = e /\ k.day + 1 < today
      BY <2>2, <3>7
    <3>9. /\ IsEntry(e, k.day) /\ Sound(e, k.day) /\ e.worth # "so far"
          /\ Priced(k.day + 1) => e.worth = "settled"
      BY <3>5, <3>6, <3>7
    <3>10. /\ IsEntry(cache'[k], k.day) /\ Sound(cache'[k], k.day)
           /\ cache'[k].worth # "so far"
           /\ Priced(k.day + 1) => cache'[k].worth = "settled"
      BY <3>8, <3>9
    <3> QED BY <3>3, <3>8, <3>10
  <2> QED BY <2>1, <2>2, StoredRows
<1>4. TypeOK'
  BY <1>1, <1>2, <1>3 DEF IInv, TypeOK, Yesterday
<1>5. LogInv' /\ CallInv'
  BY <1>1, <1>2 DEF IInv, LogInv, CallInv, Finish
<1>6. LiveInv' /\ BarrenInv'
  BY <1>2, NothingMade
<1>7. Settled'
  BY <1>1, <1>3 DEF Settled
<1>8. CacheInv'
  <2>1. PastIsKept
    BY <1>1, CallStays
  <2>2. ASSUME NEW k \in DOMAIN cache', NEW e, e = cache'[k]
        PROVE  Sound(e, k.day)'
    <3>1. k.day \in 1..Yesterday
      <4>1. k.day \in Days /\ k.day + 1 < today
        BY <1>3, <2>2
      <4> QED BY <4>1, TodayType, DaysAssumption DEF IInv, Days, Yesterday
    <3> QED BY <1>3, <2>1, <2>2, <3>1, SoundStays DEF IInv
  <2>3. \A k \in DOMAIN cache' : Sound(cache[k], k.day)'
    BY <2>2 DEF Sound, Chained
  <2>4. \A d : (Simulable(d)' <=> Simulable(d)) /\ (Priced(d)' <=> Priced(d))
    BY <1>1 DEF Simulable, Priced
  <2> QED BY <1>3, <2>3, <2>4 DEF CacheInv
<1> QED BY <1>4, <1>5, <1>6, <1>7, <1>8 DEF IInv
-----------------------------------------------------------------------------
(* The steps between calls                                                 *)

LEMMA RestStays ==
  ASSUME IInv, ~working, UNCHANGED <<job, cache>>
  PROVE  /\ LiveInv' /\ BarrenInv'
         /\ PastIsKept => CacheInv' /\ Settled'
         /\ working' = FALSE /\ todo' = {} /\ stack' = <<>> /\ barren' = {} /\ DOMAIN live' = {}
         /\ stack' \in Seq(1..Yesterday')
         /\ forced' = forced /\ using' = using /\ cache' = cache
<1>1. /\ working' = FALSE /\ todo' = {} /\ stack' = <<>> /\ barren' = {} /\ DOMAIN live' = {}
      /\ forced' = forced /\ using' = using /\ cache' = cache
  BY DEF IInv, TypeOK, CallInv, job
<1>2. <<>> \in Seq(1..Yesterday')
  OBVIOUS
<1>3. PastIsKept => CacheInv' /\ Settled'
  BY <1>1, CacheStays DEF IInv
<1>4. LiveInv' /\ BarrenInv'
  BY <1>1, NothingMade
<1> QED BY <1>1, <1>2, <1>3, <1>4

LEMMA RecordKeeps ==
  ASSUME IInv, NEW plan \in Snapshots, Record(plan)
  PROVE  IInv'
<1>0. /\ ~working /\ UNCHANGED <<job, cache>> /\ snapshot' = plan
      /\ UNCHANGED <<today, tariff, observed, configLog, up, due, restarts>>
  BY DEF Record, Idle
<1>1. PICK shape \in Shapes : history' = [history EXCEPT ![today] = shape]
  BY DEF Record
<1>2. history' \in [Days -> Shapes] /\ \A i \in 1..Yesterday : history'[i] = history[i]
  BY <1>1, TodayType DEF IInv, TypeOK, Yesterday
<1>3. PastIsKept
  BY <1>0, <1>2, TodayType DEF IInv, PastIsKept, ConfigAt
<1>4. TypeOK'
  BY <1>0, <1>2, RestStays DEF IInv, TypeOK, Yesterday
<1>5. LogInv' /\ CallInv'
  BY <1>0, RestStays DEF IInv, LogInv, CallInv
<1> QED BY <1>0, <1>3, <1>4, <1>5, RestStays DEF IInv

LEMMA ObserveKeeps ==
  ASSUME IInv, NEW from, NEW value \in Tariffs, Observe(from, value)
  PROVE  IInv'
<1>1. /\ ~working /\ UNCHANGED <<job, cache>>
      /\ observed' \in 0..MaxTariffs
      /\ UNCHANGED <<today, history, snapshot, configLog, up, due, restarts>>
  BY BoundsAssumption DEF Observe, Idle, IInv, TypeOK
<1>2. tariff' \in [Days -> Tariffs]
  BY DEF Observe, IInv, TypeOK
<1>3. PastIsKept
  BY <1>1, CallStays
<1>4. TypeOK'
  BY <1>1, <1>2, RestStays DEF IInv, TypeOK, Yesterday
<1>5. LogInv' /\ CallInv'
  BY <1>1, RestStays DEF IInv, LogInv, CallInv
<1> QED BY <1>1, <1>3, <1>4, <1>5, RestStays DEF IInv

\* A day that ends was not yet in the past.
LEMMA MidnightKeeps ==
  ASSUME IInv, Midnight
  PROVE  IInv'
<1>0. /\ ~working /\ UNCHANGED <<job, cache>> /\ today' = today + 1 /\ today < MaxDay
      /\ UNCHANGED <<tariff, snapshot, observed, configLog, up, restarts>>
      /\ due' \in {"none", "startup", "midnight"}
  BY DEF Midnight, IInv, TypeOK
<1>1. PICK shape \in Shapes : history' = [history EXCEPT ![today] = shape]
  <2>1. PICK ends \in SUBSET {"ends"} : history' = [history EXCEPT ![today] = history[today] \cup ends]
    BY DEF Midnight, IInv, TypeOK
  <2>2. history[today] \cup ends \in Shapes
    BY <2>1 DEF IInv, TypeOK, Shapes
  <2> QED BY <2>1, <2>2
<1>2. history' \in [Days -> Shapes] /\ \A i \in 1..Yesterday : history'[i] = history[i]
  BY <1>1, TodayType DEF IInv, TypeOK, Yesterday
<1>3. today \in Int /\ today' \in Int /\ today <= today' /\ today' \in Days
  BY <1>0, TodayType, DaysAssumption DEF IInv, TypeOK, Days
<1>4. PastIsKept
  BY <1>0, <1>2, <1>3 DEF PastIsKept, ConfigAt
<1>5. forced \subseteq 1..Yesterday'
  BY <1>3, Later DEF IInv, TypeOK, Yesterday
<1>6. TypeOK'
  BY <1>0, <1>2, <1>3, <1>5, RestStays DEF IInv, TypeOK
<1>7. LogInv'
  <2>1. DOMAIN configLog \subseteq Int /\ \A i \in DOMAIN configLog : configLog[i].day \in Int
    BY RowType, DaysAssumption DEF IInv, TypeOK
  <2>2. \A i \in DOMAIN configLog : configLog[i].day <= today + 1
    BY <1>3, <2>1 DEF IInv, LogInv
  <2> QED BY <1>0, <2>2, RestStays DEF IInv, LogInv
<1>8. CallInv'
  BY <1>0, RestStays DEF IInv, CallInv
<1> QED BY <1>0, <1>4, <1>6, <1>7, <1>8, RestStays DEF IInv

LEMMA CrashKeeps ==
  ASSUME IInv, Crash
  PROVE  IInv'
<1>1. UNCHANGED <<today, history, tariff, snapshot, observed, configLog, cache, restarts>>
  BY DEF Crash, world
<1>2. /\ up' = FALSE /\ due' = "none" /\ working' = FALSE /\ todo' = {} /\ stack' = <<>>
      /\ live' = <<>> /\ barren' = {} /\ forced' = {} /\ using' = "none" /\ DOMAIN live' = {}
      /\ stack' \in Seq(1..Yesterday)
  BY EmptyDomain DEF Crash, NoJob
<1>3. TypeOK'
  BY <1>1, <1>2 DEF IInv, TypeOK, Yesterday
<1>4. LogInv' /\ CallInv'
  BY <1>1, <1>2 DEF IInv, LogInv, CallInv
<1>5. LiveInv' /\ BarrenInv' /\ CacheInv' /\ Settled'
  BY <1>1, <1>2, CallStays, NothingMade
<1> QED BY <1>3, <1>4, <1>5 DEF IInv

\* The configuration of a start is one of today: no day of the past had it.
LEMMA RestartKeeps ==
  ASSUME IInv, NEW config \in Configs, Restart(config)
  PROVE  IInv'
<1> DEFINE row == [day |-> today, config |-> config]
<1>0. /\ ~working /\ UNCHANGED <<job, cache>> /\ up' = TRUE /\ due' = "startup"
      /\ UNCHANGED <<today, history, tariff, snapshot, observed>>
      /\ restarts' \in 0..MaxRestarts
      /\ today \in Int /\ today \in 0..MaxDay
  BY BoundsAssumption, DaysAssumption DEF Restart, IInv, TypeOK, CallInv, world, Days
<1>1. /\ configLog' = configLog \/ configLog' = Append(configLog, row)
      /\ configLog' = configLog => configLog # <<>>
  BY DEF Restart, IInv, TypeOK
<1>2. /\ configLog' \in Seq([day : 0..MaxDay, config : Configs])
      /\ configLog' # <<>>
      /\ \A i \in DOMAIN configLog' : configLog'[i].day <= today
  <2>1. CASE configLog' = configLog
    BY <1>1, <2>1 DEF IInv, TypeOK, LogInv
  <2>2. CASE configLog' = Append(configLog, row)
    <3> DEFINE Row == [day : 0..MaxDay, config : Configs]
    <3>1. row \in Row /\ row.day <= today
      BY <1>0
    <3>2. configLog \in Seq(Row) /\ \A i \in DOMAIN configLog : configLog[i].day <= today
      BY DEF IInv, TypeOK, LogInv
    <3> HIDE DEF row, Row
    <3>3. configLog' \in Seq(Row) /\ configLog' # <<>>
      BY <2>2, <3>1, <3>2
    <3>4. \A i \in DOMAIN configLog' : configLog'[i].day <= today
      BY <2>2, <3>1, <3>2
    <3> QED BY <3>3, <3>4 DEF Row
  <2> QED BY <1>1, <2>1, <2>2
<1>3. TypeOK'
  BY <1>0, <1>2, RestStays DEF IInv, TypeOK, Yesterday
<1>4. LogInv' /\ CallInv'
  BY <1>0, <1>2, RestStays DEF LogInv, CallInv
<1>5. CacheInv' /\ Settled'
  <2>1. CASE configLog = <<>>
    <3>1. DOMAIN cache' = {}
      BY <1>0, <2>1 DEF IInv, LogInv
    <3> QED BY <3>1 DEF CacheInv, Settled
  <2>2. CASE configLog # <<>>
    <3>1. ASSUME NEW d \in 1..today
          PROVE  ConfigAt(d)' = ConfigAt(d)
      <4>1. d \in Int /\ d <= today
        BY <1>0
      <4>2. CASE configLog' = configLog
        BY <4>2 DEF ConfigAt
      <4>3. CASE configLog' = Append(configLog, row)
        BY <1>0, <2>2, <4>1, <4>3, NewRowIsForLaterDays DEF IInv, TypeOK
      <4> QED BY <1>1, <4>2, <4>3
    <3>2. PastIsKept
      BY <1>0, <3>1 DEF PastIsKept
    <3> QED BY <1>0, <3>2, RestStays
  <2> QED BY <2>1, <2>2
<1> QED BY <1>0, <1>3, <1>4, <1>5, RestStays DEF IInv
-----------------------------------------------------------------------------
(* The theorems                                                            *)

LEMMA InitHolds ==
  ASSUME Init
  PROVE  IInv
<1>1. /\ DOMAIN cache = {} /\ DOMAIN live = {} /\ stack \in Seq(1..Yesterday)
      /\ today \in Days /\ today \in Int /\ today >= 1
  BY EmptyDomain, DaysAssumption DEF Init, Days
<1>2. /\ configLog \in Seq([day : 0..MaxDay, config : Configs])
      /\ \A i \in DOMAIN configLog : configLog[i].day <= today
  <2>1. CASE configLog = <<>>
    BY <2>1
  <2>2. ASSUME NEW c \in Configs, NEW e \in Configs,
               configLog = <<[day |-> 0, config |-> c], [day |-> 1, config |-> e]>>
        PROVE  /\ configLog \in Seq([day : 0..MaxDay, config : Configs])
               /\ \A i \in DOMAIN configLog : configLog[i].day <= today
    BY <1>1, <2>2, DaysAssumption
  <2>3. \/ configLog = <<>>
        \/ \E c, e \in Configs :
             configLog = <<[day |-> 0, config |-> c], [day |-> 1, config |-> e]>>
    BY DEF Init
  <2> QED BY <2>1, <2>2, <2>3
<1>3. tariff \in [Days -> Tariffs]
  <2>1. (CHOOSE v \in Tariffs : TRUE) \in Tariffs
    BY TariffsAssumption
  <2> QED BY <2>1 DEF Init
<1>4. TypeOK
  <2>1. history \in [Days -> Shapes] /\ snapshot \in Snapshots
    BY DEF Init
  <2>2. /\ up = FALSE /\ due = "none" /\ working = FALSE /\ todo = {} /\ barren = {}
        /\ forced = {} /\ using = "none" /\ restarts = 0 /\ observed = 0
    BY DEF Init
  <2>3. restarts \in 0..MaxRestarts /\ observed \in 0..MaxTariffs
    BY <2>2, BoundsAssumption
  <2> QED BY <1>1, <1>2, <1>3, <2>1, <2>2, <2>3 DEF TypeOK
<1>5. LogInv /\ CallInv
  BY <1>1, <1>2 DEF Init, LogInv, CallInv
<1>6. LiveInv /\ BarrenInv /\ CacheInv /\ Settled
  BY <1>1 DEF Init, LiveInv, BarrenInv, CacheInv, Settled
<1> QED BY <1>4, <1>5, <1>6 DEF IInv

LEMMA StutterKeeps ==
  ASSUME IInv, UNCHANGED vars
  PROVE  IInv'
BY CallStays DEF IInv, TypeOK, LogInv, CallInv, Yesterday, vars, world, job

LEMMA NextKeeps ==
  ASSUME IInv, [Next]_vars
  PROVE  IInv'
<1>1. ASSUME NEW first \in Days, Page(first) PROVE IInv'
  BY <1>1, RequestKeeps
<1>2. ASSUME NEW d \in Days, Detail(d) PROVE IInv'
  BY <1>2, RequestKeeps
<1>3. CASE Startup \/ Scheduled
  BY <1>3, RequestKeeps
<1>4. CASE Take \/ Descend \/ Simulate \/ Finish
  BY <1>4, TakeKeeps, DescendKeeps, SimulateKeeps, FinishKeeps
<1>5. ASSUME NEW plan \in Snapshots, Record(plan) PROVE IInv'
  BY <1>5, RecordKeeps
<1>6. ASSUME NEW from \in TariffDays, NEW value \in Tariffs, Observe(from, value) PROVE IInv'
  BY <1>6, ObserveKeeps
<1>7. CASE Midnight
  BY <1>7, MidnightKeeps
<1>8. ASSUME NEW config \in Configs, Restart(config) PROVE IInv'
  BY <1>8, RestartKeeps
<1>9. CASE Crash
  BY <1>9, CrashKeeps
<1>10. CASE UNCHANGED vars
  BY <1>10, StutterKeeps
<1> QED
  BY <1>1, <1>2, <1>3, <1>4, <1>5, <1>6, <1>7, <1>8, <1>9, <1>10 DEF Next

\* The invariant the other theorems rest on: what a call has made so far, and
\* what it has stored, is right, and a day it gave up ends its chain.
THEOREM Invariance == Spec => []IInv
<1>1. Init => IInv
  BY InitHolds
<1>2. IInv /\ [Next]_vars => IInv'
  BY NextKeeps
<1> QED BY <1>1, <1>2, PTL DEF Spec

\* The variables of the backtests keep their types.
THEOREM TypeCorrect == Spec => []TypeOK
<1>1. IInv => TypeOK
  BY DEF IInv
<1> QED BY <1>1, Invariance, PTL

\* The summary of a complete day starts where the simulation of the days before
\* it ended, for any history, configurations, tariffs and restarts: its chain
\* begins after a day that cannot be carried on or with a day without prices.
THEOREM SocIsCarried == Spec => []CarriesSoc
<1>1. IInv => CarriesSoc
  BY DEF IInv, CacheInv, Sound, CarriesSoc
<1> QED BY <1>1, Invariance, PTL

\* No summary is computed from a day that is still being recorded.
THEOREM OnlySettledDays == Spec => []Settled
<1>1. IInv => Settled
  BY DEF IInv
<1> QED BY <1>1, Invariance, PTL

\* Chains that begin with the same day are the same.
LEMMA SameBeginning ==
  ASSUME NEW d \in Int, NEW s, NEW t, s.from = t.from,
         IsSoc(s, d), IsSoc(t, d), Chained(s, d), Chained(t, d)
  PROVE  s = t
<1>1. PICK f \in 1..d : s \in [from : {f}, under : [f..(d - 1) -> Configs]]
  BY DEF IsSoc
<1>2. t \in [from : {f}, under : [f..(d - 1) -> Configs]]
  BY <1>1 DEF IsSoc
<1>3. s.under \in [f..(d - 1) -> Configs] /\ t.under \in [f..(d - 1) -> Configs]
  BY <1>1, <1>2
<1>4. \A i \in f..(d - 1) : s.under[i] = t.under[i]
  BY <1>1, <1>2 DEF Chained
<1>5. s.under = t.under
  BY <1>3, <1>4
<1>6. s = [from |-> f, under |-> s.under] /\ t = [from |-> f, under |-> t.under]
  BY <1>1, <1>2
<1> QED BY <1>5, <1>6

\* There is only one chain of days up to a day if no prices are missing on it.
LEMMA OneChain ==
  ASSUME NEW d \in Int, NEW s, NEW t,
         IsSoc(s, d), IsSoc(t, d), Chained(s, d), Chained(t, d), PricesKnown(d)
  PROVE  s = t
<1>1. PICK f \in 1..d : s \in [from : {f}, under : [f..(d - 1) -> Configs]]
  BY DEF IsSoc
<1>2. PICK g \in 1..d : t \in [from : {g}, under : [g..(d - 1) -> Configs]]
  BY DEF IsSoc
<1>3. s.from = f /\ t.from = g /\ f \in Int /\ g \in Int
  BY <1>1, <1>2
<1>4. ~(f < g)
  <2> SUFFICES ASSUME f < g PROVE FALSE
    OBVIOUS
  <2>1. g - 1 \in f..(d - 1) /\ g \in 1..d /\ \A j \in (g - 1)..(d - 1) : j \in f..(d - 1)
    BY <1>3, <1>2
  <2>2. \A j \in (g - 1)..(d - 1) : Carries(j)
    BY <1>3, <2>1 DEF Chained
  <2>3. Priced(g)
    BY <2>1, <2>2 DEF PricesKnown
  <2> QED BY <1>3, <2>1, <2>2, <2>3 DEF Chained
<1>5. ~(g < f)
  <2> SUFFICES ASSUME g < f PROVE FALSE
    OBVIOUS
  <2>1. f - 1 \in g..(d - 1) /\ f \in 1..d /\ \A j \in (f - 1)..(d - 1) : j \in g..(d - 1)
    BY <1>3, <1>1
  <2>2. \A j \in (f - 1)..(d - 1) : Carries(j)
    BY <1>3, <2>1 DEF Chained
  <2>3. Priced(f)
    BY <2>1, <2>2 DEF PricesKnown
  <2> QED BY <1>3, <2>1, <2>2, <2>3 DEF Chained
<1>6. f = g
  BY <1>3, <1>4, <1>5
<1> QED BY <1>3, <1>6, SameBeginning

\* What a call stores in place of a summary is that summary.
LEMMA SameSummary ==
  ASSUME IInv, NEW k \in DOMAIN cache, k.day \in DOMAIN live,
         k.day \in 1..Yesterday, k.day + 1 < today
  PROVE  /\ Complete(k.day) /\ PricesKnown(k.day) =>
              /\ live[k.day].start = cache[k].start
              /\ live[k.day].final = cache[k].final
         /\ Priced(k.day + 1) => live[k.day].worth = cache[k].worth
<1>1. k.day \in Int /\ k.day + 1 \in Int
  BY TodayType DEF IInv
<1>2. IsEntry(live[k.day], k.day) /\ IsEntry(cache[k], k.day)
  BY DEF IInv, TypeOK
<1>3. Sound(live[k.day], k.day) /\ Sound(cache[k], k.day)
  BY DEF IInv, LiveInv, CacheInv
<1>4. ASSUME Complete(k.day), PricesKnown(k.day)
      PROVE  live[k.day].start = cache[k].start /\ live[k.day].final = cache[k].final
  <2> DEFINE d == k.day
             e == live[d]
             c == cache[k]
  <2>1. /\ IsSoc(e.start, d) /\ IsSoc(c.start, d) /\ IsSoc(e.final, d + 1) /\ IsSoc(c.final, d + 1)
        /\ Chained(e.start, d) /\ Chained(c.start, d)
        /\ Chained(e.final, d + 1) /\ Chained(c.final, d + 1)
        /\ e.final.from = e.start.from /\ c.final.from = c.start.from
    BY <1>2, <1>3, <1>4 DEF IsEntry, Sound
  <2> HIDE DEF d, e, c
  <2>2. e.start = c.start
    BY <1>1, <1>4, <2>1, OneChain DEF d
  <2>3. e.final = c.final
    BY <1>1, <2>1, <2>2, SameBeginning DEF d
  <2> QED BY <2>2, <2>3 DEF d, e, c
<1>5. ASSUME Priced(k.day + 1)
      PROVE  live[k.day].worth = cache[k].worth
  <2>1. live[k.day].worth = "settled"
    BY <1>5 DEF IInv, LiveInv
  <2>2. cache[k].worth = "settled"
    BY <1>5 DEF IInv, CacheInv
  <2> QED BY <2>1, <2>2
<1> QED BY <1>4, <1>5

\* A stored summary does not change, whatever is recomputed and whenever, if each
\* day its chain can go through has recorded prices.
THEOREM SummariesAreFinal == Spec => SummaryIsFinal
<1>1. ASSUME IInv, [Next]_vars
      PROVE  KeepsSummaries
  <2>1. CASE Finish
    <3> SUFFICES ASSUME NEW k \in DOMAIN cache
                 PROVE  /\ k \in DOMAIN cache'
                        /\ Complete(k.day) /\ PricesKnown(k.day) =>
                             cache'[k].start = cache[k].start /\ cache'[k].final = cache[k].final
                        /\ Priced(k.day + 1) => cache'[k].worth = cache[k].worth
      BY DEF KeepsSummaries
    <3>1. k \in DOMAIN cache'
      BY <2>1 DEF Finish
    <3>2. CASE cache'[k] = cache[k]
      BY <3>1, <3>2
    <3>3. CASE cache'[k] # cache[k]
      <4>1. /\ k.day \in DOMAIN live /\ cache'[k] = live[k.day]
            /\ k.day \in 1..Yesterday /\ k.day + 1 < today
        BY <1>1, <2>1, <3>1, <3>3, StoredRows
      <4> QED BY <1>1, <3>1, <4>1, SameSummary
    <3> QED BY <3>2, <3>3
  <2>2. CASE UNCHANGED cache
    BY <2>2 DEF KeepsSummaries
  <2>3. Finish \/ UNCHANGED cache
    BY <1>1 DEF Next, vars, Page, Detail, Startup, Scheduled, Take, Descend, Simulate,
      Record, Observe, Midnight, Restart, Crash
  <2> QED BY <2>1, <2>2, <2>3
<1>2. IInv /\ [Next]_vars => [KeepsSummaries]_vars
  BY <1>1
<1> QED BY <1>2, Invariance, PTL DEF Spec, SummaryIsFinal
=============================================================================

------------------------ MODULE PlanningInputsProofs ------------------------
(***************************************************************************)
(* Proofs about PlanningInputs for every set of providers, answers, and    *)
(* configurations.  The grid fee is proved about on its own and carried    *)
(* over, because a planning run only takes steps of GridFee.  There the    *)
(* argument is about time: no row is newer than the run that looks at it,  *)
(* so that the row a run has stored is the newest of its year.  The merge  *)
(* keeps, after every provider laid, what the property says of all of      *)
(* them; and where the list is in the order of its starts, the places of   *)
(* slots and fees are the numbers of slots before them, hence the same.    *)
(* The sun of an hour is counted by its instants: slots that do not        *)
(* overlap share none.                                                     *)
(***************************************************************************)
EXTENDS PlanningInputs, FoldTheorems, TLAPS

-----------------------------------------------------------------------------
(* The newest row                                                          *)

\* No row is of the future, nor of a year that had not begun when it was read.
Timed(rows, t) == \A r \in rows : r.at = YearStart[r.seen] /\ r.seen <= t

Newest(S, r) == r \in S /\ \A s \in S : ~Before(r, s)

LEMMA LatestIsNewest ==
  ASSUME NEW t \in Nat, NEW S, S \subseteq Records, S # {},
         \A r \in S : r.at <= t /\ r.seen <= t
  PROVE  Newest(S, Latest(S))
<1> DEFINE Age(r) == t - r.at
           Ages == {Age(r) : r \in S}
<1>1. ASSUME NEW r \in S
      PROVE  r.at \in Nat /\ r.seen \in Nat /\ Age(r) \in Nat /\ t - r.seen \in Nat
  <2>1. r \in Records /\ r.at <= t /\ r.seen <= t
    OBVIOUS
  <2>2. r.at \in Nat /\ r.seen \in Nat
    BY <2>1, TimesAssumption DEF Records
  <2> QED BY <2>1, <2>2
<1>2. Ages \subseteq Nat /\ Ages # {}
  BY <1>1
<1>3. PICK a \in Ages : \A b \in Ages : a <= b
  <2> HIDE DEF Ages
  <2> QED BY <1>2, LeastNat
<1> DEFINE Young == {r \in S : Age(r) = a}
           Delays == {t - r.seen : r \in Young}
<1>4. Delays \subseteq Nat /\ Delays # {}
  BY <1>1
<1>5. PICK d \in Delays : \A b \in Delays : d <= b
  <2> HIDE DEF Delays
  <2> QED BY <1>4, LeastNat
<1>6. PICK r \in Young : d = t - r.seen
  OBVIOUS
<1>7. ASSUME NEW s \in S PROVE ~Before(r, s)
  <2>1. Age(r) <= Age(s)
    BY <1>3, <1>6
  <2>2. s.at = r.at => t - r.seen <= t - s.seen
    BY <1>5, <1>6
  <2>3. r \in S
    BY <1>6
  <2> QED BY <1>1, <2>1, <2>2, <2>3 DEF Before
<1>8. \E q \in S : \A s \in S : ~Before(q, s)
  BY <1>6, <1>7
<1> QED BY <1>8 DEF Newest, Latest

-----------------------------------------------------------------------------
(* The grid fee                                                            *)

\* A row without its components is of a time before the program ran.
WholeSinceStart == \A r \in records : r.whole \/ r.seen = 0

\* A whole row has the options of the configuration, or an edit came later.
OptionsOrEdit ==
  \A r \in records : r.whole =>
    [area |-> r.area, snap |-> r.snap] = Options(config) \/ edited >= r.seen

\* While a run is under way no other writes a row.
RunIsAlone == fees.stage # "idle" => 1 <= fees.since /\ Timed(records, fees.since)

FeeInv ==
  /\ FeeTypeOK
  /\ 1 <= now /\ fees.since <= now /\ edited <= now
  /\ Timed(records, now)
  /\ WholeSinceStart
  /\ OptionsOrEdit
  /\ RunIsAlone
  /\ TariffIsCurrent

LEMMA HorizonIsTime ==
  /\ Horizon \in Nat /\ Times \subseteq Nat /\ 0..Horizon \subseteq Times /\ 1 \in 0..Horizon
BY TimesAssumption, HorizonAssumption

LEMMA YearHasBegun ==
  ASSUME NEW t \in Times
  PROVE  YearStart[t] \in Times /\ YearStart[t] <= t
BY CalendarAssumption

LEMMA TimedFits ==
  ASSUME NEW t \in Times, NEW rows, rows \subseteq Records, Timed(rows, t)
  PROVE  \A r \in rows : r.at <= t /\ r.seen <= t /\ r.at <= YearStart[t]
<1> SUFFICES ASSUME NEW r \in rows PROVE r.at <= t /\ r.seen <= t /\ r.at <= YearStart[t]
  OBVIOUS
<1>1. r.seen \in Times /\ r.seen <= t /\ r.at = YearStart[r.seen]
  BY DEF Timed, Records
<1>2. YearStart[r.seen] <= YearStart[t]
  BY <1>1, CalendarAssumption
<1>3. /\ t \in Nat /\ r.seen \in Nat /\ YearStart[t] \in Nat /\ YearStart[t] <= t
      /\ YearStart[r.seen] \in Nat
  BY <1>1, YearHasBegun, TimesAssumption
<1> QED BY <1>1, <1>2, <1>3

LEMMA NoneType == NoFee \in Fees /\ StaticFee \in Fees /\ NoRun \in Runs
<1>1. 0 \in Times /\ 0 \in 0..Horizon
  BY HorizonIsTime
<1>2. NoFee \in Fees /\ StaticFee \in Fees
  BY <1>1 DEF NoFee, StaticFee, Fees
<1>3. NoRun \in Runs
  BY <1>1, <1>2 DEF NoRun, Runs
<1> QED BY <1>2, <1>3

LEMMA BaseFeeType ==
  ASSUME NEW t \in Times, NEW rows, rows \subseteq Records, Timed(rows, t)
  PROVE  BaseFee(rows, t) \in Fees
<1>1. NoFee \in Fees /\ StaticFee \in Fees
  BY NoneType
<1>2. CASE InForce(rows, t) = {}
  BY <1>1, <1>2 DEF BaseFee, FeeAt
<1>3. CASE InForce(rows, t) # {}
  <2>1. InForce(rows, t) \subseteq Records /\ \A r \in InForce(rows, t) : r.at <= t /\ r.seen <= t
    BY TimedFits DEF InForce
  <2>2. Latest(InForce(rows, t)) \in Records
    BY <1>3, <2>1, LatestIsNewest, TimesAssumption DEF Newest
  <2>3. FeeOf(Latest(InForce(rows, t)), t) \in Fees
    BY <2>2 DEF FeeOf, Low, Fees, Records
  <2> QED BY <1>1, <1>3, <2>3 DEF BaseFee, FeeAt
<1> QED BY <1>2, <1>3

LEMMA RefreshedType ==
  ASSUME NEW t \in 0..Horizon, NEW rows, rows \subseteq Records, Timed(rows, t), NEW ok \in BOOLEAN
  PROVE  Refreshed(rows, t, ok) \in Runs
BY BaseFeeType, HorizonIsTime DEF Refreshed, Runs

LEMMA FeeInitKeeps == FeeInit => FeeInv
<1> SUFFICES ASSUME FeeInit PROVE FeeInv
  OBVIOUS
<1>1. 0 \in Times /\ YearStart[0] \in Times
  BY HorizonIsTime, YearHasBegun
<1>2. \A r \in records : r \in Records /\ r.at = YearStart[0] /\ r.seen = 0 /\ ~r.whole
  BY <1>1 DEF FeeInit, Records, Areas
<1>3. NoRun \in Runs
  BY NoneType
<1>4. FeeTypeOK
  BY <1>1, <1>2, <1>3, HorizonIsTime DEF FeeInit, FeeTypeOK
<1>5. Timed(records, now) /\ WholeSinceStart /\ OptionsOrEdit
  BY <1>2 DEF FeeInit, Timed, WholeSinceStart, OptionsOrEdit
<1>6. fees.stage = "idle" /\ fees.since = 0
  BY DEF FeeInit, NoRun
<1>7. RunIsAlone /\ TariffIsCurrent
  BY <1>6 DEF RunIsAlone, TariffIsCurrent
<1> QED BY <1>4, <1>5, <1>6, <1>7 DEF FeeInv, FeeInit

\* A run that found the row of its month uses it.
LEMMA BeginRunKeeps == FeeInv /\ BeginRun => FeeInv'
<1> SUFFICES ASSUME FeeInv, BeginRun PROVE FeeInv'
  OBVIOUS
<1>1. /\ now \in 0..Horizon /\ now \in Times /\ records \subseteq Records
      /\ Timed(records, now) /\ 1 <= now
  BY HorizonIsTime DEF FeeInv, FeeTypeOK
<1>2. CASE config.kind = "static" \/ Current(now)
  <2>1. fees' = Refreshed(records, now, TRUE)
    BY <1>2 DEF BeginRun
  <2>2. fees' \in Runs /\ fees'.stage = "refreshed" /\ fees'.since = now
    BY <1>1, <2>1, RefreshedType DEF Refreshed
  <2>3. TariffIsCurrent'
    <3> SUFFICES ASSUME config.kind # "static" PROVE TariffIsCurrent'
      BY DEF TariffIsCurrent, BeginRun
    <3> DEFINE r == Latest(OfYear(records, now))
    <3>1. Current(now)
      BY <1>2
    <3>2. OfYear(records, now) \subseteq Records
          /\ \A q \in OfYear(records, now) : q.at <= now /\ q.seen <= now
      BY <1>1, TimedFits DEF OfYear
    <3>3. Newest(OfYear(records, now), r)
      BY <1>1, <3>1, <3>2, LatestIsNewest, HorizonIsTime DEF Current
    <3>4. r \in records /\ r.at = YearStart[now] /\ MonthOf[r.seen] = MonthOf[now] /\ r.whole
      BY <3>1, <3>3 DEF Newest, OfYear, Current
    <3>5. \/ [area |-> r.area, snap |-> r.snap] = Options(config)
          \/ edited >= r.seen
      BY <3>4 DEF FeeInv, OptionsOrEdit
    <3> HIDE DEF r
    <3>6. \E q \in records :
            /\ q.at = YearStart[now] /\ MonthOf[q.seen] = MonthOf[now] /\ q.whole
            /\ \A s \in OfYear(records, now) : ~Before(q, s)
            /\ \/ [area |-> q.area, snap |-> q.snap] = Options(config)
               \/ edited >= q.seen
      BY <3>3, <3>4, <3>5 DEF Newest
    <3> QED BY <2>2, <3>6 DEF TariffIsCurrent, BeginRun
  <2>4. now' = now /\ config' = config /\ records' = records /\ edited' = edited
    BY DEF BeginRun
  <2>5. RunIsAlone'
    BY <1>1, <2>2, <2>4 DEF RunIsAlone
  <2>6. FeeTypeOK' /\ WholeSinceStart' /\ OptionsOrEdit'
    BY <2>2, <2>4 DEF FeeInv, FeeTypeOK, WholeSinceStart, OptionsOrEdit
  <2> QED BY <1>1, <2>2, <2>3, <2>4, <2>5, <2>6 DEF FeeInv
<1>3. CASE ~(config.kind = "static" \/ Current(now))
  <2>1. fees' = [NoRun EXCEPT !.stage = "fetching", !.since = now]
    BY <1>3 DEF BeginRun
  <2>2. fees' \in Runs /\ fees'.stage = "fetching" /\ fees'.since = now
    BY <1>1, <2>1, NoneType DEF NoRun, Runs
  <2>3. TariffIsCurrent'
    BY <2>2 DEF TariffIsCurrent
  <2>4. now' = now /\ config' = config /\ records' = records /\ edited' = edited
    BY DEF BeginRun
  <2>5. RunIsAlone'
    BY <1>1, <2>2, <2>4 DEF RunIsAlone
  <2>6. FeeTypeOK' /\ WholeSinceStart' /\ OptionsOrEdit'
    BY <2>2, <2>4 DEF FeeInv, FeeTypeOK, WholeSinceStart, OptionsOrEdit
  <2> QED BY <1>1, <2>2, <2>3, <2>4, <2>5, <2>6 DEF FeeInv
<1> QED BY <1>2, <1>3

\* A row stored at the end of the requests is the newest of its year.
LEMMA FetchedKeeps == FeeInv /\ Fetched => FeeInv'
<1> SUFFICES ASSUME FeeInv, Fetched PROVE FeeInv'
  OBVIOUS
<1> DEFINE t == fees.since
<1>1. /\ t \in 0..Horizon /\ t \in Times /\ records \subseteq Records /\ 1 <= t /\ t <= now
      /\ Timed(records, t) /\ now \in 0..Horizon
  BY HorizonIsTime DEF FeeInv, FeeTypeOK, Fetched, RunIsAlone, Runs
<1>2. /\ records' = Stored /\ fees' = Refreshed(Stored, t, TRUE)
      /\ now' = now /\ config' = config /\ edited' = edited
  BY DEF Fetched
<1>3. PICK q : q = Row
  OBVIOUS
<1>4. /\ q.at = YearStart[t] /\ q.seen = t /\ q.whole
      /\ [area |-> q.area, snap |-> q.snap] = Options(config)
  BY <1>3 DEF Row, Options
<1>5. q \in Records
  <2>1. Options(config).area \in Areas /\ Options(config).snap \in BOOLEAN
    BY ConfigsAssumption DEF Options, Areas, FeeInv, FeeTypeOK
  <2> QED BY <1>1, <1>3, <2>1, YearHasBegun DEF Row, Records
<1>6. PICK r \in Stored : r.at = q.at /\ r.seen = q.seen
  BY <1>3 DEF Stored
<1>7. Stored \subseteq Records /\ (\A s \in Stored : s \in records \/ s = q)
  BY <1>1, <1>3, <1>5 DEF Stored
<1>8. Timed(Stored, t)
  BY <1>1, <1>4, <1>7, HorizonIsTime DEF Timed
<1>9. /\ \A s \in Stored : s.whole \/ s.seen = 0
      /\ \A s \in Stored : s.whole =>
           [area |-> s.area, snap |-> s.snap] = Options(config) \/ edited >= s.seen
  BY <1>4, <1>7 DEF FeeInv, WholeSinceStart, OptionsOrEdit
<1>10. fees' \in Runs /\ fees'.since = t /\ fees'.stage = "refreshed"
  BY <1>1, <1>2, <1>7, <1>8, RefreshedType DEF Refreshed
<1>11. \A s \in OfYear(Stored, t) : ~Before(r, s)
  <2> SUFFICES ASSUME NEW s \in Stored, s.at = YearStart[t] PROVE ~Before(r, s)
    BY DEF OfYear
  <2>1. s.seen <= t /\ r.seen = t /\ r.at = s.at /\ t \in Nat /\ s.seen \in Nat /\ s.at \in Nat
    BY <1>1, <1>4, <1>6, <1>7, <1>8, HorizonIsTime DEF Timed, Records
  <2> QED BY <2>1 DEF Before
<1>12. r.whole
  BY <1>1, <1>4, <1>6, <1>9
<1>13. TariffIsCurrent'
  BY <1>2, <1>4, <1>6, <1>9, <1>10, <1>11, <1>12 DEF TariffIsCurrent
<1>14. RunIsAlone' /\ Timed(Stored, now)
  <2>1. \A s \in Stored : s.seen \in Nat /\ s.seen <= t
    BY <1>7, <1>8, HorizonIsTime DEF Timed, Records
  <2>2. Timed(Stored, now)
    BY <1>1, <1>8, <2>1 DEF Timed
  <2> QED BY <1>1, <1>2, <1>8, <1>10, <2>2 DEF RunIsAlone
<1>15. FeeTypeOK'
  BY <1>2, <1>7, <1>10 DEF FeeInv, FeeTypeOK
<1>16. WholeSinceStart' /\ OptionsOrEdit'
  BY <1>2, <1>9 DEF WholeSinceStart, OptionsOrEdit
<1> HIDE DEF t
<1> QED BY <1>1, <1>2, <1>10, <1>13, <1>14, <1>15, <1>16 DEF FeeInv

LEMMA FetchFailedKeeps == FeeInv /\ FetchFailed => FeeInv'
<1> SUFFICES ASSUME FeeInv, FetchFailed PROVE FeeInv'
  OBVIOUS
<1>1. /\ fees.since \in 0..Horizon /\ records \subseteq Records
      /\ 1 <= fees.since /\ Timed(records, fees.since)
  BY DEF FeeInv, FeeTypeOK, FetchFailed, RunIsAlone, Runs
<1>2. /\ fees' = Refreshed(records, fees.since, FALSE)
      /\ now' = now /\ config' = config /\ records' = records /\ edited' = edited
  BY DEF FetchFailed
<1>3. fees' \in Runs /\ fees'.since = fees.since /\ ~fees'.ok
  BY <1>1, <1>2, RefreshedType DEF Refreshed
<1>4. FeeTypeOK' /\ WholeSinceStart' /\ OptionsOrEdit'
  BY <1>2, <1>3 DEF FeeInv, FeeTypeOK, WholeSinceStart, OptionsOrEdit
<1>5. RunIsAlone' /\ TariffIsCurrent'
  BY <1>1, <1>2, <1>3 DEF RunIsAlone, TariffIsCurrent
<1> QED BY <1>2, <1>3, <1>4, <1>5 DEF FeeInv

\* A run that ends leaves the rows to the next.
LEMMA EndRunKeeps == FeeInv /\ EndRun => FeeInv'
<1> SUFFICES ASSUME FeeInv, EndRun PROVE FeeInv'
  OBVIOUS
<1>1. /\ fees' = NoRun
      /\ now' = now /\ config' = config /\ records' = records /\ edited' = edited
  BY DEF EndRun
<1>2. fees' \in Runs /\ fees'.since = 0 /\ fees'.stage = "idle"
  BY <1>1, NoneType DEF NoRun
<1>3. FeeTypeOK' /\ WholeSinceStart' /\ OptionsOrEdit'
  BY <1>1, <1>2 DEF FeeInv, FeeTypeOK, WholeSinceStart, OptionsOrEdit
<1>4. RunIsAlone' /\ TariffIsCurrent'
  BY <1>2 DEF RunIsAlone, TariffIsCurrent
<1>5. now' \in Nat /\ fees'.since <= now'
  BY <1>1, <1>2, HorizonIsTime DEF FeeInv, FeeTypeOK
<1> QED BY <1>1, <1>3, <1>4, <1>5 DEF FeeInv

\* After an edit every row is older than the edit.
LEMMA ReconfigureKeeps == FeeInv /\ Reconfigure => FeeInv'
<1> SUFFICES ASSUME FeeInv, Reconfigure PROVE FeeInv'
  OBVIOUS
<1>1. /\ fees' = NoRun /\ now' = now /\ records' = records /\ config' \in Configs
      /\ edited' = IF config' = config THEN edited ELSE now
  BY DEF Reconfigure
<1>2. fees' \in Runs /\ fees'.since = 0 /\ fees'.stage = "idle"
  BY <1>1, NoneType DEF NoRun
<1>3. now \in 0..Horizon /\ edited \in 0..Horizon /\ edited <= now /\ records \subseteq Records
  BY DEF FeeInv, FeeTypeOK
<1>4. edited' \in 0..Horizon /\ edited' <= now'
  BY <1>1, <1>3, HorizonIsTime
<1>5. FeeTypeOK' /\ WholeSinceStart'
  BY <1>1, <1>2, <1>4 DEF FeeInv, FeeTypeOK, WholeSinceStart
<1>6. OptionsOrEdit'
  <2>1. CASE config' = config
    BY <1>1, <2>1 DEF FeeInv, OptionsOrEdit
  <2>2. CASE config' # config
    <3>1. \A r \in records : now >= r.seen
      BY <1>3, HorizonIsTime DEF FeeInv, Timed, Records
    <3> QED BY <1>1, <2>2, <3>1 DEF OptionsOrEdit
  <2> QED BY <2>1, <2>2
<1>7. RunIsAlone' /\ TariffIsCurrent'
  BY <1>2 DEF RunIsAlone, TariffIsCurrent
<1> QED BY <1>1, <1>2, <1>3, <1>4, <1>5, <1>6, <1>7, HorizonIsTime DEF FeeInv

LEMMA TickKeeps == FeeInv /\ Tick => FeeInv'
<1> SUFFICES ASSUME FeeInv, Tick PROVE FeeInv'
  OBVIOUS
<1>1. /\ now < Horizon /\ now' = now + 1 /\ config' = config /\ records' = records
      /\ fees' = fees /\ edited' = edited
  BY DEF Tick
<1>2. /\ now \in 0..Horizon /\ fees.since \in Nat /\ edited \in Nat
      /\ \A r \in records : r.seen \in Nat
  BY HorizonIsTime DEF FeeInv, FeeTypeOK, Runs, Records
<1>3. FeeTypeOK' /\ WholeSinceStart' /\ OptionsOrEdit'
  BY <1>1, <1>2, HorizonIsTime DEF FeeInv, FeeTypeOK, WholeSinceStart, OptionsOrEdit
<1>4. RunIsAlone' /\ TariffIsCurrent'
  BY <1>1 DEF FeeInv, RunIsAlone, TariffIsCurrent
<1>5. Timed(records', now')
  BY <1>1, <1>2 DEF FeeInv, Timed
<1>6. 1 <= now' /\ fees'.since <= now' /\ edited' <= now'
  BY <1>1, <1>2 DEF FeeInv
<1> QED BY <1>3, <1>4, <1>5, <1>6 DEF FeeInv

LEMMA FeeStepKeeps == FeeInv /\ [FeeNext]_feeVars => FeeInv'
<1> SUFFICES ASSUME FeeInv, [FeeNext]_feeVars PROVE FeeInv'
  OBVIOUS
<1>1. CASE UNCHANGED feeVars
  BY <1>1 DEF feeVars, FeeInv, FeeTypeOK, Timed, WholeSinceStart, OptionsOrEdit, RunIsAlone,
     TariffIsCurrent
<1> QED BY <1>1, BeginRunKeeps, FetchedKeeps, FetchFailedKeeps, EndRunKeeps, ReconfigureKeeps,
           TickKeeps DEF FeeNext

\* The one fee of a run is made of the rows and the configuration it has.
BaseIsApplied == fees.stage = "refreshed" => fees.base = BaseFee(records, fees.since)

LEMMA BaseStays == BaseIsApplied /\ [FeeNext]_feeVars => BaseIsApplied'
<1> SUFFICES ASSUME BaseIsApplied, [FeeNext]_feeVars PROVE BaseIsApplied'
  OBVIOUS
<1>1. CASE UNCHANGED feeVars
  BY <1>1 DEF feeVars, BaseIsApplied, BaseFee
<1>2. CASE BeginRun
  BY <1>2 DEF BeginRun, Refreshed, NoRun, BaseIsApplied, BaseFee
<1>3. CASE Fetched
  <2>1. /\ records' = Stored /\ config' = config
        /\ fees'.since = fees.since /\ fees'.base = BaseFee(Stored, fees.since)
    BY <1>3 DEF Fetched, Refreshed
  <2> QED BY <2>1 DEF BaseIsApplied, BaseFee
<1>4. CASE FetchFailed
  BY <1>4 DEF FetchFailed, Refreshed, BaseIsApplied, BaseFee
<1>5. CASE EndRun \/ Reconfigure
  BY <1>5 DEF EndRun, Reconfigure, NoRun, BaseIsApplied
<1>6. CASE Tick
  BY <1>6 DEF Tick, BaseIsApplied, BaseFee
<1> QED BY <1>1, <1>2, <1>3, <1>4, <1>5, <1>6 DEF FeeNext

\* A planning run is a run of GridFee: collecting, merging and cutting leave
\* the fees alone, and a step of GridFee never happens on the side.
THEOREM ImplementsGridFee == Spec => FeeSpec
<1>1. Init => FeeInit
  BY DEF Init
<1>2. [Next]_vars => [FeeNext]_feeVars
  BY DEF Next, vars, feeVars, FeeNext, CollectEvcc, CollectProvider, Lay, Cut, CollectSolar,
     Finish, Restart
<1> QED BY <1>1, <1>2, PTL DEF Spec, FeeSpec

\* refreshAndApply gives a run that could read the regulator's pages, or had
\* no need to, this year's row of this month, with the configured options
\* unless they were edited after the row was read.
THEOREM TariffStaysCurrent == FeeSpec => []TariffIsCurrent
<1>1. FeeInv => TariffIsCurrent
  BY DEF FeeInv
<1> QED BY FeeInitKeeps, FeeStepKeeps, <1>1, PTL DEF FeeSpec

-----------------------------------------------------------------------------
(* The merge                                                               *)

\* What the merged forecast is after some providers are laid.
MergedOf(laid) ==
  UNION {{e \in input.got[p] : \A q \in laid : Better(q, p) => ~Covers(q, e)} : p \in laid}

\* The providers laid are the worst ones, and none is laid before all are asked.
WorstFirst ==
  /\ input.asked \subseteq Configured /\ input.laid \subseteq Configured
  /\ input.laid # {} => input.asked = Configured
  /\ \A p \in input.laid, q \in Configured \ input.laid : Better(q, p)
  /\ \A p \in Providers \ input.asked : input.got[p] = {}

AllFinite ==
  /\ IsFiniteSet(input.evcc) /\ IsFiniteSet(input.merged)
  /\ \A p \in Providers : IsFiniteSet(input.got[p])

\* The fees are ready before anything is collected, the forecast is cut no
\* earlier, and after that no provider is asked or laid.
InSequence ==
  /\ input.stage = "off" => input = Off
  /\ input.stage # "off" => fees.stage = "refreshed"
  /\ input.stage \in {"cut", "planned", "failed"} =>
       input.laid = Configured /\ fees.since <= input.ref

InputInv ==
  /\ input \in Inputs
  /\ input.merged = MergedOf(input.laid)
  /\ WorstFirst
  /\ AllFinite
  /\ InSequence

IInv == FeeInv /\ InputInv

LEMMA BetterIsOrder ==
  ASSUME NEW p \in Providers, NEW q \in Providers
  PROVE  ~(Better(p, q) /\ Better(q, p)) /\ ~Better(p, p)
BY ProvidersAssumption DEF Better

LEMMA ConfiguredType ==
  ASSUME FeeTypeOK PROVE Configured \subseteq Providers
BY EnergyAssumption DEF FeeTypeOK, Configured

LEMMA NoneIsFinite == IsFiniteSet({})
BY FS_EmptySet

\* What is made of finitely many read entries is finitely many slots.
LEMMA SlotsType ==
  ASSUME NEW p \in Providers, NEW S, IsFiniteSet(S),
         \A e \in S : e.from \in Nat /\ e.to \in Nat /\ e.nth \in Nat /\ e.from < e.to
  PROVE  Slots(p, S) \subseteq Entries /\ IsFiniteSet(Slots(p, S))
<1>1. Slots(p, S) \subseteq Entries
  BY DEF Slots, SlotOf, Entries
<1>2. [e \in S |-> SlotOf(p, e)] \in Surjection(S, Slots(p, S))
  BY DEF Surjection, Slots
<1> QED BY <1>1, <1>2, FS_Surjection

LEMMA HourSlotType ==
  ASSUME NEW p \in Providers, NEW h \in Nat
  PROVE  HourSlot(p, h) \in Entries
BY HourAssumption DEF HourSlot, Entries

LEMMA ByHourType ==
  ASSUME NEW p \in Providers, NEW S, IsFiniteSet(S), S \subseteq Read
  PROVE  ByHour(p, S) \subseteq Entries /\ IsFiniteSet(ByHour(p, S))
<1>1. \A e \in S : HourStart[e.from] \in Nat
  BY HourAssumption DEF Read
<1>2. ByHour(p, S) \subseteq Entries
  BY <1>1, HourSlotType DEF ByHour
<1>3. [e \in S |-> HourSlot(p, HourStart[e.from])] \in Surjection(S, ByHour(p, S))
  BY DEF Surjection, ByHour
<1> QED BY <1>2, <1>3, FS_Surjection

LEMMA ProductIsNat ==
  ASSUME NEW m \in Nat, NEW n \in Nat PROVE m * n \in Nat
OBVIOUS

LEMMA GuessedSlotsType ==
  ASSUME NEW p \in Providers, NEW t \in DOMAIN HourStart, t \in Nat
  PROVE  GuessedSlots(p, t) \subseteq Entries /\ IsFiniteSet(GuessedSlots(p, t))
<1> DEFINE N == 0..(GuessHours - 1)
<1>1. NextHour(t) \in Nat
  BY HourAssumption DEF NextHour
<1>2. ASSUME NEW n \in N PROVE HourSlot(p, NextHour(t) + n * Hour) \in Entries
  <2>1. n * Hour \in Nat
    BY HourAssumption, ProductIsNat
  <2>2. NextHour(t) + n * Hour \in Nat
    BY <1>1, <2>1
  <2> QED BY <2>2, HourSlotType
<1>3. IsFiniteSet(N)
  BY HourAssumption, FS_Interval
<1>4. [n \in N |-> HourSlot(p, NextHour(t) + n * Hour)] \in Surjection(N, GuessedSlots(p, t))
  BY DEF Surjection, GuessedSlots
<1>5. GuessedSlots(p, t) \subseteq Entries
  BY <1>2 DEF GuessedSlots
<1> HIDE DEF N
<1> QED BY <1>3, <1>4, <1>5, FS_Surjection

LEMMA EvccSlotsType ==
  ASSUME NEW state, IsFiniteSet(state), state \subseteq EvccEntries
  PROVE  /\ EvccSlots(FromEvcc, state) \subseteq Entries
         /\ IsFiniteSet(EvccSlots(FromEvcc, state))
<1> DEFINE kept == {e \in state : IsPrice(e) /\
                      \A f \in state : IsPrice(f) /\ Same(e, f) => e.nth <= f.nth}
<1>1. kept \in SUBSET state
  OBVIOUS
<1>2. EvccSlots(FromEvcc, state) = Slots(FromEvcc, kept)
  BY DEF EvccSlots
<1> HIDE DEF kept
<1>3. IsFiniteSet(kept)
  BY <1>1, FS_Subset
<1>4. \A e \in kept : e.from \in Nat /\ e.to \in Nat /\ e.nth \in Nat /\ e.from < e.to
  BY <1>1 DEF EvccEntries
<1> QED BY <1>2, <1>3, <1>4, SlotsType, EnergyAssumption

LEMMA OffKeeps == input = Off => InputInv
<1> SUFFICES ASSUME input = Off PROVE InputInv
  OBVIOUS
<1>1. /\ input.stage = "off" /\ input.evcc = {} /\ input.asked = {} /\ input.laid = {}
      /\ input.merged = {} /\ \A p \in Providers : input.got[p] = {}
  BY DEF Off
<1>2. input \in Inputs
  BY HorizonIsTime DEF Off, Inputs
<1>3. input.merged = MergedOf(input.laid)
  BY <1>1 DEF MergedOf
<1>4. WorstFirst /\ AllFinite /\ InSequence
  BY <1>1, NoneIsFinite DEF WorstFirst, AllFinite, InSequence
<1> QED BY <1>2, <1>3, <1>4 DEF InputInv

\* The steps of GridFee other than the end of a run and a restart.
LEMMA FeeStepsLeaveInput ==
  ASSUME IInv, FeeInv', BeginRun \/ Fetched \/ FetchFailed \/ Tick, UNCHANGED input
  PROVE  InputInv'
<1>1. config' = config /\ input' = input
  BY DEF BeginRun, Fetched, FetchFailed, Tick
<1>2. input.stage # "off" => fees' = fees
  BY DEF IInv, InputInv, InSequence, BeginRun, Fetched, FetchFailed, Tick
<1>3. InSequence'
  BY <1>1, <1>2 DEF IInv, InputInv, InSequence, Configured
<1>4. WorstFirst' /\ AllFinite'
  BY <1>1 DEF IInv, InputInv, WorstFirst, AllFinite, Configured
<1>5. MergedOf(input.laid)' = MergedOf(input.laid)
  BY <1>1 DEF MergedOf, Covers
<1> QED BY <1>1, <1>3, <1>4, <1>5 DEF IInv, InputInv

LEMMA CollectEvccKeeps ==
  ASSUME IInv, NEW state \in EvccStates \cup {{}}, CollectEvcc(state)
  PROVE  InputInv'
<1>1. /\ input = Off /\ fees.stage = "refreshed"
      /\ config' = config /\ fees' = fees
  BY DEF CollectEvcc, IInv, InputInv, InSequence, feeVars
<1> DEFINE S == EvccSlots(FromEvcc, state)
<1>2. input' = [Off EXCEPT !.stage = "collect", !.evcc = S, !.at = now]
  BY <1>1 DEF CollectEvcc
<1>3. S \subseteq Entries /\ IsFiniteSet(S)
  BY ReadAssumption, EvccSlotsType, NoneIsFinite
<1> HIDE DEF S
<1>4. /\ input'.stage = "collect" /\ input'.evcc = S /\ input'.asked = {} /\ input'.laid = {}
      /\ input'.merged = {} /\ \A p \in Providers : input'.got[p] = {}
  BY <1>2 DEF Off
<1>5. input' \in Inputs
  <2>1. Off \in Inputs
    BY HorizonIsTime DEF Off, Inputs
  <2>2. now \in 0..Horizon
    BY DEF IInv, FeeInv, FeeTypeOK
  <2> QED BY <1>2, <1>3, <2>1, <2>2 DEF Inputs
<1>6. (input.merged = MergedOf(input.laid))'
  BY <1>4 DEF MergedOf
<1>7. WorstFirst' /\ AllFinite' /\ InSequence'
  BY <1>1, <1>3, <1>4, NoneIsFinite DEF WorstFirst, AllFinite, InSequence
<1> QED BY <1>5, <1>6, <1>7 DEF InputInv

LEMMA AnswersType ==
  ASSUME IInv, NEW p \in Providers, NEW S \in Answers(p)
  PROVE  S \subseteq Entries /\ IsFiniteSet(S)
<1>1. CASE p = FromEvcc
  BY <1>1 DEF Answers, IInv, InputInv, Inputs, AllFinite
<1>2. CASE S = {}
  BY <1>2, NoneIsFinite
<1>3. CASE p # FromEvcc /\ S # {} /\ p \in Guessing
  <2>1. S = GuessedSlots(p, input.at)
    BY <1>3 DEF Answers
  <2>2. input.at \in DOMAIN HourStart /\ input.at \in Nat
    BY EnergyAssumption, HorizonIsTime DEF IInv, InputInv, Inputs
  <2> QED BY <2>1, <2>2, GuessedSlotsType
<1>4. CASE p # FromEvcc /\ S # {} /\ p \notin Guessing
  <2>1. PICK R \in Published[p] : S = PublishedSlots(p, R)
    BY <1>4 DEF Answers
  <2>2. R \subseteq Read /\ IsFiniteSet(R)
    BY ReadAssumption
  <2>3. Clamped(R, now) \in SUBSET R
    BY DEF Clamped
  <2>4. Clamped(R, now) \subseteq Read /\ IsFiniteSet(Clamped(R, now))
    BY <2>2, <2>3, FS_Subset
  <2>5. CASE p # Entsoe
    BY <2>1, <2>4, <2>5, SlotsType DEF PublishedSlots, Read
  <2>6. CASE p = Entsoe
    <3> DEFINE kept == CheapestByStart(Clamped(R, now))
    <3>1. kept \in SUBSET Clamped(R, now)
      BY DEF CheapestByStart
    <3>2. kept \subseteq Read /\ IsFiniteSet(kept)
      BY <2>4, <3>1, FS_Subset
    <3>3. S = Slots(p, kept) \/ S = ByHour(p, kept)
      BY <2>1, <2>6 DEF PublishedSlots, EntsoeSlots
    <3> HIDE DEF kept
    <3>4. Slots(p, kept) \subseteq Entries /\ IsFiniteSet(Slots(p, kept))
      BY <3>2, SlotsType DEF Read
    <3>5. ByHour(p, kept) \subseteq Entries /\ IsFiniteSet(ByHour(p, kept))
      BY <3>2, ByHourType
    <3> QED BY <3>3, <3>4, <3>5
  <2> QED BY <2>5, <2>6
<1> QED BY <1>1, <1>2, <1>3, <1>4

\* Before the last provider has answered, none is laid.
LEMMA CollectProviderKeeps ==
  ASSUME IInv, NEW p \in Configured, NEW S \in Answers(p), CollectProvider(p, S)
  PROVE  InputInv'
<1>1. /\ p \in Providers /\ p \notin input.asked /\ input.stage = "collect"
      /\ config' = config /\ fees' = fees
      /\ input' = [input EXCEPT !.asked = @ \cup {p}, !.got[p] = S, !.at = now]
  BY ConfiguredType DEF CollectProvider, IInv, FeeInv, feeVars
<1>2. input \in Inputs /\ S \subseteq Entries /\ IsFiniteSet(S)
  BY <1>1, AnswersType DEF IInv, InputInv
<1>3. input.laid = {} /\ input.merged = {}
  BY <1>1 DEF IInv, InputInv, WorstFirst, MergedOf
<1>4. /\ input'.asked = input.asked \cup {p} /\ input'.got = [input.got EXCEPT ![p] = S]
      /\ input'.stage = "collect" /\ input'.evcc = input.evcc
      /\ input'.laid = {} /\ input'.merged = {}
      /\ input.got \in [Providers -> SUBSET Entries]
  BY <1>1, <1>2, <1>3 DEF Inputs
<1>5. input' \in Inputs
  <2>1. now \in 0..Horizon
    BY DEF IInv, FeeInv, FeeTypeOK
  <2> QED BY <1>1, <1>2, <2>1 DEF Inputs
<1>6. (input.merged = MergedOf(input.laid))'
  BY <1>4 DEF MergedOf
<1>7. WorstFirst'
  BY <1>1, <1>4 DEF IInv, InputInv, WorstFirst, Configured
<1>8. AllFinite'
  BY <1>2, <1>4, NoneIsFinite DEF IInv, InputInv, AllFinite
<1>9. InSequence'
  BY <1>1, <1>4 DEF IInv, InputInv, InSequence
<1> QED BY <1>5, <1>6, <1>7, <1>8, <1>9 DEF InputInv

\* The provider laid is better than those under it: its slots all stay, and
\* those under it that it covers go.
LEMMA LayKeeps ==
  ASSUME IInv, NEW p \in Configured, Lay(p)
  PROVE  InputInv'
<1> DEFINE L == input.laid \cup {p}
<1>1. /\ p \in Providers /\ p \notin input.laid /\ NextToLay(p)
      /\ input.asked = Configured /\ input.stage = "collect"
      /\ config' = config /\ fees' = fees
      /\ input' = [input EXCEPT !.laid = L, !.merged = Overlay(input.merged, input.got[p])]
  BY ConfiguredType DEF Lay, IInv, FeeInv, feeVars
<1>2. input \in Inputs /\ Configured \subseteq Providers
  BY ConfiguredType DEF IInv, FeeInv, InputInv
<1>3. /\ input'.laid = L /\ input'.merged = Overlay(input.merged, input.got[p])
      /\ input'.got = input.got /\ input'.asked = input.asked /\ input'.evcc = input.evcc
      /\ input'.stage = "collect"
  BY <1>1, <1>2 DEF Inputs
<1>4. input.got[p] \subseteq Entries /\ input.merged \subseteq Entries
  BY <1>1, <1>2 DEF Inputs
<1>5. Overlay(input.merged, input.got[p]) \subseteq Entries
  BY <1>4 DEF Overlay
<1>6. input' \in Inputs
  BY <1>1, <1>2, <1>5 DEF Inputs
<1>7. \A r \in input.laid : r \in Providers /\ Better(p, r) /\ ~Better(r, p)
  BY <1>1, <1>2, BetterIsOrder DEF IInv, InputInv, WorstFirst
<1>8. ~Better(p, p)
  BY <1>1, BetterIsOrder
<1>9. Overlay(MergedOf(input.laid), input.got[p]) = MergedOf(L)
  <2> DEFINE Left(r, laid) == {e \in input.got[r] : \A q \in laid : Better(q, r) => ~Covers(q, e)}
  <2>1. Left(p, L) = input.got[p]
    BY <1>7, <1>8
  <2>2. \A e : (\A o \in input.got[p] : ~Overlap(e, o)) <=> ~Covers(p, e)
    BY DEF Covers, Overlap
  <2>3. \A r \in input.laid :
          Left(r, L) = {e \in Left(r, input.laid) : \A o \in input.got[p] : ~Overlap(e, o)}
    BY <1>7, <2>2
  <2>4. MergedOf(input.laid) = UNION {Left(r, input.laid) : r \in input.laid}
    BY DEF MergedOf
  <2>5. MergedOf(L) = UNION {Left(r, L) : r \in L}
    BY DEF MergedOf
  <2> HIDE DEF Left
  <2>6. MergedOf(L) = (UNION {Left(r, L) : r \in input.laid}) \cup input.got[p]
    BY <2>1, <2>5
  <2>7. ASSUME NEW e
        PROVE  e \in UNION {Left(r, L) : r \in input.laid}
                 <=> /\ e \in UNION {Left(r, input.laid) : r \in input.laid}
                     /\ \A o \in input.got[p] : ~Overlap(e, o)
    BY <2>3
  <2>8. UNION {Left(r, L) : r \in input.laid}
          = {e \in MergedOf(input.laid) : \A o \in input.got[p] : ~Overlap(e, o)}
    BY <2>4, <2>7
  <2> QED BY <2>6, <2>8 DEF Overlay
<1>10. (input.merged = MergedOf(input.laid))'
  <2>1. input'.merged = MergedOf(L)
    BY <1>3, <1>9 DEF IInv, InputInv
  <2> HIDE DEF L
  <2>2. MergedOf(input.laid)' = MergedOf(L)
    BY <1>3 DEF MergedOf, Covers
  <2> QED BY <2>1, <2>2
<1>11. WorstFirst'
  BY <1>1, <1>3 DEF IInv, InputInv, WorstFirst, Configured, NextToLay
<1>12. AllFinite'
  <2>1. {e \in input.merged : \A o \in input.got[p] : ~Overlap(e, o)} \in SUBSET input.merged
    OBVIOUS
  <2>2. IsFiniteSet({e \in input.merged : \A o \in input.got[p] : ~Overlap(e, o)})
    BY <2>1, FS_Subset DEF IInv, InputInv, AllFinite
  <2>3. IsFiniteSet(Overlay(input.merged, input.got[p]))
    BY <1>1, <2>2, FS_Union DEF Overlay, IInv, InputInv, AllFinite
  <2> QED BY <1>3, <2>3 DEF IInv, InputInv, AllFinite
<1>13. InSequence'
  BY <1>1, <1>3 DEF IInv, InputInv, InSequence
<1> HIDE DEF L
<1> QED BY <1>6, <1>10, <1>11, <1>12, <1>13 DEF InputInv

LEMMA CutKeeps ==
  ASSUME IInv, Cut
  PROVE  InputInv'
<1>1. /\ input.stage = "collect" /\ input.laid = Configured
      /\ config' = config /\ fees' = fees
      /\ input' = [input EXCEPT !.stage = "cut", !.ref = now]
  BY DEF Cut, feeVars
<1>2. input \in Inputs /\ now \in 0..Horizon /\ fees.since <= now
  BY DEF IInv, FeeInv, FeeTypeOK, InputInv
<1>3. /\ input'.stage = "cut" /\ input'.ref = now /\ input'.laid = input.laid
      /\ input'.merged = input.merged /\ input'.got = input.got /\ input'.asked = input.asked
      /\ input'.evcc = input.evcc
  BY <1>1, <1>2 DEF Inputs
<1>4. input' \in Inputs
  BY <1>1, <1>2 DEF Inputs
<1>5. WorstFirst' /\ AllFinite'
  BY <1>1, <1>3 DEF IInv, InputInv, WorstFirst, AllFinite, Configured
<1>7. (input.merged = MergedOf(input.laid))'
  <2>1. MergedOf(input.laid)' = MergedOf(input.laid)
    BY <1>3 DEF MergedOf, Covers
  <2> QED BY <1>3, <2>1 DEF IInv, InputInv
<1>6. InSequence'
  BY <1>1, <1>2, <1>3 DEF IInv, InputInv, InSequence, Configured
<1> QED BY <1>4, <1>5, <1>6, <1>7 DEF InputInv

LEMMA CollectSolarKeeps ==
  ASSUME IInv, NEW sun \in SolarForecasts, CollectSolar(sun)
  PROVE  InputInv'
<1>1. PICK to \in {"planned", "failed"} : input' = [input EXCEPT !.sun = sun, !.stage = to]
  BY DEF CollectSolar
<1>2. input.stage = "cut" /\ config' = config /\ fees' = fees
  BY DEF CollectSolar, feeVars
<1>3. input \in Inputs /\ sun \subseteq SolarHours
  BY DEF IInv, InputInv, SolarHours
<1>4. /\ input'.stage = to /\ input'.ref = input.ref /\ input'.laid = input.laid
      /\ input'.merged = input.merged /\ input'.got = input.got /\ input'.asked = input.asked
      /\ input'.evcc = input.evcc
  BY <1>1, <1>3 DEF Inputs
<1>5. input' \in Inputs
  BY <1>1, <1>3 DEF Inputs
<1>6. WorstFirst' /\ AllFinite'
  BY <1>2, <1>4 DEF IInv, InputInv, WorstFirst, AllFinite, Configured
<1>8. (input.merged = MergedOf(input.laid))'
  <2>1. MergedOf(input.laid)' = MergedOf(input.laid)
    BY <1>4 DEF MergedOf, Covers
  <2> QED BY <1>4, <2>1 DEF IInv, InputInv
<1>7. InSequence'
  BY <1>2, <1>4 DEF IInv, InputInv, InSequence, Configured
<1> QED BY <1>5, <1>6, <1>7, <1>8 DEF InputInv

LEMMA InitKeeps == Init => IInv
BY FeeInitKeeps, OffKeeps DEF Init, IInv, FeeInv

LEMMA StepKeeps == IInv /\ [Next]_vars => IInv'
<1> SUFFICES ASSUME IInv, [Next]_vars PROVE IInv'
  OBVIOUS
<1>1. FeeInv'
  <2>1. [FeeNext]_feeVars
    BY DEF Next, vars, feeVars, FeeNext, CollectEvcc, CollectProvider, Lay, Cut, CollectSolar,
       Finish, Restart
  <2> QED BY <2>1, FeeStepKeeps DEF IInv
<1>2. (input = Off => InputInv)'
  BY OffKeeps, PTL
<1>3. ASSUME BeginRun \/ Fetched \/ FetchFailed \/ Tick, UNCHANGED input PROVE InputInv'
  BY <1>1, <1>3, FeeStepsLeaveInput
<1>4. ASSUME NEW state \in EvccStates \cup {{}}, CollectEvcc(state) PROVE InputInv'
  BY <1>4, CollectEvccKeeps
<1>5. ASSUME NEW p \in Configured, NEW S \in Answers(p), CollectProvider(p, S) PROVE InputInv'
  BY <1>5, CollectProviderKeeps
<1>6. ASSUME NEW p \in Configured, Lay(p) PROVE InputInv'
  BY <1>6, LayKeeps
<1>7. ASSUME Cut PROVE InputInv'
  BY <1>7, CutKeeps
<1>8. ASSUME NEW sun \in SolarForecasts, CollectSolar(sun) PROVE InputInv'
  BY <1>8, CollectSolarKeeps
<1>9. ASSUME Finish \/ Restart PROVE InputInv'
  BY <1>2, <1>9 DEF Finish, Restart
<1>10. ASSUME UNCHANGED vars PROVE InputInv'
  <2>1. input' = input /\ config' = config /\ fees' = fees
    BY <1>10 DEF vars, feeVars
  <2>2. MergedOf(input.laid)' = MergedOf(input.laid)
    BY <2>1 DEF MergedOf, Covers
  <2> QED BY <2>1, <2>2 DEF IInv, InputInv, WorstFirst, AllFinite, InSequence, Configured
<1>11. InputInv'
  BY <1>3, <1>4, <1>5, <1>6, <1>7, <1>8, <1>9, <1>10 DEF Next
<1> QED BY <1>1, <1>11 DEF IInv

\* Whatever the refresh, the providers and the clock do, the fee rows, the
\* fees of the run and its inputs keep their types.
THEOREM TypeCorrect == Spec => []TypeOK
<1>1. IInv => TypeOK
  BY DEF IInv, FeeInv, InputInv, TypeOK
<1> QED BY InitKeeps, StepKeeps, <1>1, PTL DEF Spec

\* The merge of MarketDataService.collect keeps every slot that no better
\* provider overlaps, and no other.
THEOREM MergeIsBest == Spec => []MergedForecastIsBest
<1>1. IInv => MergedForecastIsBest
  <2> SUFFICES ASSUME IInv, input.stage \in {"cut", "planned", "failed"}
               PROVE  input.merged = UNION {{e \in input.got[p] :
                        \A q \in Providers : Better(q, p) => ~Covers(q, e)} : p \in Providers}
    BY DEF MergedForecastIsBest
  <2>1. /\ input.merged = MergedOf(Configured) /\ Configured \subseteq Providers
        /\ \A p \in Providers \ Configured : input.got[p] = {}
    BY ConfiguredType DEF IInv, FeeInv, InputInv, InSequence, WorstFirst
  <2>2. \A e : \A q \in Providers \ Configured : ~Covers(q, e)
    BY <2>1 DEF Covers
  <2> DEFINE Kept(p, S) == {e \in input.got[p] : \A q \in S : Better(q, p) => ~Covers(q, e)}
  <2>3. \A p \in Providers : Kept(p, Providers) = Kept(p, Configured)
    BY <2>1, <2>2
  <2>4. \A p \in Providers \ Configured : Kept(p, Configured) = {}
    BY <2>1
  <2>5. MergedOf(Configured) = UNION {Kept(p, Configured) : p \in Configured}
    BY DEF MergedOf
  <2> HIDE DEF Kept
  <2>6. UNION {Kept(p, Configured) : p \in Configured}
          = UNION {Kept(p, Providers) : p \in Providers}
    BY <2>1, <2>3, <2>4
  <2>7. input.merged = UNION {Kept(p, Providers) : p \in Providers}
    BY <2>1, <2>5, <2>6
  <2> QED BY <2>7 DEF Kept
<1> QED BY InitKeeps, StepKeeps, <1>1, PTL DEF Spec

-----------------------------------------------------------------------------
(* Slots and fees                                                          *)

LEMMA CanonicalType ==
  ASSUME IInv
  PROVE  /\ IsFiniteSet(Canonical) /\ Canonical \subseteq Entries
         /\ \A e \in Canonical : Start(e) \in Nat /\ input.ref <= Start(e)
<1>1. /\ Canonical \in SUBSET input.merged \/ Canonical \in SUBSET input.evcc
      /\ input.merged \subseteq Entries /\ input.evcc \subseteq Entries /\ input.ref \in Nat
  BY HorizonIsTime DEF Canonical, Future, IInv, InputInv, Inputs
<1>2. IsFiniteSet(Canonical)
  BY <1>1, FS_Subset DEF IInv, InputInv, AllFinite
<1>3. ASSUME NEW e \in Entries PROVE Start(e) \in Nat /\ input.ref <= Start(e)
  <2>1. e.from \in Nat
    BY DEF Entries
  <2> QED BY <1>1, <2>1 DEF Start, StartAt, Later
<1> QED BY <1>1, <1>2, <1>3

LEMMA ListIrreflexive ==
  ASSUME IInv, NEW e \in Canonical
  PROVE  ~ListedBefore(e, e)
<1>1. e \in Entries
  BY CanonicalType
<1>2. e.from \in Nat /\ e.to \in Nat /\ e.nth \in Nat
  BY <1>1 DEF Entries
<1> QED BY <1>2 DEF ListedBefore, ByWindow, ByAnswer

\* A slot names its provider, and EVCC's entries have places of their own.
Labelled ==
  /\ \A p \in Providers : \A e \in input.got[p] : e.by = p
  /\ \A e \in input.evcc : e.by = FromEvcc
  /\ \A e, f \in input.evcc : e.nth = f.nth => e = f

LEMMA AnswersAreLabelled ==
  ASSUME IInv, Labelled, NEW p \in Configured, NEW S \in Answers(p), NEW e \in S
  PROVE  e.by = p
<1>1. CASE p = FromEvcc
  BY <1>1 DEF Answers, Labelled
<1>2. CASE p # FromEvcc
  <2>1. CASE S = {}
    BY <2>1
  <2>2. CASE p \in Guessing /\ S = GuessedSlots(p, input.at)
    BY <2>2 DEF GuessedSlots, HourSlot
  <2>3. ASSUME NEW T \in Published[p], S = PublishedSlots(p, T)
        PROVE  e.by = p
    <3>1. S = Slots(p, Clamped(T, now)) \/ S = EntsoeSlots(p, T, now, config.hourly)
      BY <2>3 DEF PublishedSlots
    <3>2. \A Z : \A x \in Slots(p, Z) : x.by = p
      BY DEF Slots, SlotOf
    <3>3. \A Z : \A x \in ByHour(p, Z) : x.by = p
      BY DEF ByHour, HourSlot
    <3> QED BY <3>1, <3>2, <3>3 DEF EntsoeSlots
  <2> QED BY <1>2, <2>1, <2>2, <2>3 DEF Answers
<1> QED BY <1>1, <1>2

LEMMA EvccLabelled ==
  ASSUME NEW state \in EvccStates \cup {{}}, NEW T, T = EvccSlots(FromEvcc, state)
  PROVE  /\ \A e \in T : e.by = FromEvcc
         /\ \A e, f \in T : e.nth = f.nth => e = f
<1>1. \A x, y \in state : x.nth = y.nth => x = y
  BY ReadAssumption
<1>2. \A e \in T : \E x \in state : e = SlotOf(FromEvcc, x)
  BY DEF EvccSlots, Slots
<1>3. \A e \in T : e.by = FromEvcc
  BY <1>2 DEF SlotOf
<1>4. \A e, f \in T : e.nth = f.nth => e = f
  BY <1>1, <1>2 DEF SlotOf
<1> QED BY <1>3, <1>4

LEMMA LabelsStay == IInv /\ Labelled /\ [Next]_vars => Labelled'
<1> SUFFICES ASSUME IInv, Labelled, [Next]_vars
             PROVE  Labelled'
  OBVIOUS
<1>1. CASE UNCHANGED input
  BY <1>1 DEF Labelled
<1>2. ASSUME NEW state \in EvccStates \cup {{}}, CollectEvcc(state)
      PROVE  Labelled'
  <2>1. input' = [input EXCEPT !.stage = "collect", !.evcc = EvccSlots(FromEvcc, state), !.at = now]
    BY <1>2 DEF CollectEvcc
  <2>2. input'.evcc = EvccSlots(FromEvcc, state) /\ input'.got = input.got
    BY <2>1 DEF IInv, InputInv, Inputs
  <2> QED BY <2>2, EvccLabelled DEF Labelled
<1>3. ASSUME NEW p \in Configured, NEW S \in Answers(p), CollectProvider(p, S)
      PROVE  Labelled'
  <2>1. input'.evcc = input.evcc /\ input'.got = [input.got EXCEPT ![p] = S]
    BY <1>3 DEF CollectProvider, IInv, InputInv, Inputs
  <2>2. input.got \in [Providers -> SUBSET Entries]
    BY DEF IInv, InputInv, Inputs
  <2>3. ASSUME NEW q \in Providers, NEW e \in input'.got[q]
        PROVE  e.by = q
    BY <2>1, <2>2, <2>3, AnswersAreLabelled DEF Labelled
  <2> QED BY <2>1, <2>3 DEF Labelled
<1>4. CASE (\E p \in Configured : Lay(p)) \/ Cut \/ (\E sun \in SolarForecasts : CollectSolar(sun))
  <2>1. input'.evcc = input.evcc /\ input'.got = input.got
    BY <1>4 DEF Lay, Cut, CollectSolar, IInv, InputInv, Inputs
  <2> QED BY <2>1 DEF Labelled
<1>5. CASE Finish \/ Restart
  <2>1. input' = Off
    BY <1>5 DEF Finish, Restart
  <2> QED BY <2>1 DEF Labelled, Off
<1> QED BY <1>1, <1>2, <1>3, <1>4, <1>5 DEF Next, vars

\* Slots of two providers that overlap do not both come into the merged list.
LEMMA MergedIsApart ==
  ASSUME IInv, input.stage = "planned", Labelled, NEW e \in input.merged, NEW f \in input.merged,
         Overlap(e, f)
  PROVE  e.by = f.by
<1>1. input.merged = MergedOf(Configured) /\ Configured \subseteq Providers
  BY ConfiguredType DEF IInv, FeeInv, InputInv, InSequence
<1>2. PICK p \in Configured : e \in input.got[p] /\ \A q \in Configured : Better(q, p) => ~Covers(q, e)
  BY <1>1 DEF MergedOf
<1>3. PICK q \in Configured : f \in input.got[q] /\ \A r \in Configured : Better(r, q) => ~Covers(r, f)
  BY <1>1 DEF MergedOf
<1>4. Overlap(f, e)
  BY DEF Overlap
<1>5. Covers(q, e) /\ Covers(p, f)
  BY <1>2, <1>3, <1>4 DEF Covers
<1>6. p = q
  <2>1. p = q \/ Better(p, q) \/ Better(q, p)
    BY <1>1, ProvidersAssumption DEF Better
  <2> QED BY <1>2, <1>3, <1>5, <2>1
<1> QED BY <1>1, <1>2, <1>3, <1>6 DEF Labelled

\* The lists are ordered, those of the market by their starts.
LEMMA ListIsOrder ==
  ASSUME IInv, input.stage = "planned", Labelled
  PROVE  /\ \A e, f \in Canonical : e # f => ListedBefore(e, f) \/ ListedBefore(f, e)
         /\ \A e, f, g \in Canonical : ListedBefore(e, f) /\ ListedBefore(f, g) => ListedBefore(e, g)
         /\ FromMarket => InOrder
<1>1. \A e \in Canonical : e.from \in Nat /\ e.to \in Nat /\ e.nth \in Nat /\ e.from < e.to
  BY CanonicalType DEF Entries
<1>2. ASSUME NEW e \in Canonical, NEW f \in Canonical, e # f
      PROVE  ListedBefore(e, f) \/ ListedBefore(f, e)
  <2>1. CASE FromMarket
    <3>1. e \in input.merged /\ f \in input.merged
      BY <2>1 DEF Canonical, Future
    <3>2. ASSUME e.from = f.from, e.to = f.to, e.nth = f.nth
          PROVE  FALSE
      <4>1. Overlap(e, f)
        BY <1>1, <3>2 DEF Overlap
      <4>2. e.by = f.by
        BY <3>1, <4>1, MergedIsApart
      <4>3. e \in Entries /\ f \in Entries
        BY CanonicalType
      <4> QED BY <1>2, <3>2, <4>2, <4>3 DEF Entries
    <3> QED BY <1>1, <2>1, <3>2 DEF ListedBefore, ByWindow
  <2>2. CASE ~FromMarket
    <3>1. e \in input.evcc /\ f \in input.evcc
      BY <2>2 DEF Canonical, Future
    <3>2. e.nth # f.nth
      BY <1>2, <3>1 DEF Labelled
    <3> QED BY <1>1, <2>2, <3>2 DEF ListedBefore, ByAnswer
  <2> QED BY <2>1, <2>2
<1>3. ASSUME NEW e \in Canonical, NEW f \in Canonical, NEW g \in Canonical,
             ListedBefore(e, f), ListedBefore(f, g)
      PROVE  ListedBefore(e, g)
  <2>1. CASE FromMarket
    BY <1>1, <1>3, <2>1 DEF ListedBefore, ByWindow
  <2>2. CASE ~FromMarket
    BY <1>1, <1>3, <2>2 DEF ListedBefore, ByAnswer
  <2> QED BY <2>1, <2>2
<1>4. ASSUME FromMarket, NEW e \in Canonical, NEW f \in Canonical, ListedBefore(e, f)
      PROVE  Start(e) <= Start(f)
  <2>1. e.from <= f.from
    BY <1>1, <1>4 DEF ListedBefore, ByWindow
  <2>2. input.ref \in Nat
    BY HorizonIsTime DEF IInv, InputInv, Inputs
  <2> QED BY <1>1, <2>1, <2>2 DEF Start, StartAt, Later
<1> QED BY <1>2, <1>3, <1>4 DEF InOrder

Listed(e) == {f \in Canonical : ListedBefore(f, e)}

\* The entries listed up to one are the fewer, the earlier it is listed.
LEMMA PlacesGrow ==
  ASSUME IInv, input.stage = "planned", Labelled, NEW e \in Canonical, NEW f \in Canonical,
         ListedBefore(e, f)
  PROVE  Listed(e) \cup {e} \subseteq Listed(f) /\ Place(e) < Place(f)
<1>1. Listed(e) \cup {e} \subseteq Listed(f)
  BY ListIsOrder DEF Listed
<1>2. e \notin Listed(e)
  BY ListIrreflexive DEF Listed
<1>3. IsFiniteSet(Listed(e)) /\ IsFiniteSet(Listed(f))
  BY CanonicalType, FS_Subset DEF Listed
<1>4. Cardinality(Listed(e) \cup {e}) = Cardinality(Listed(e)) + 1
  BY <1>2, <1>3, FS_AddElement
<1>5. Cardinality(Listed(e) \cup {e}) <= Cardinality(Listed(f))
  BY <1>1, <1>3, FS_Subset
<1>6. Cardinality(Listed(e)) \in Nat /\ Cardinality(Listed(f)) \in Nat
  BY <1>3, FS_CardinalityType
<1>7. Place(e) = Cardinality(Listed(e)) /\ Place(f) = Cardinality(Listed(f))
  BY DEF Place, Listed
<1> QED BY <1>1, <1>4, <1>5, <1>6, <1>7

\* Every place is taken.
LEMMA EachPlaceTaken ==
  ASSUME IInv, input.stage = "planned", Labelled, NEW k \in 0..(Cardinality(Canonical) - 1)
  PROVE  \E f \in Canonical : Place(f) = k
<1> DEFINE n == Cardinality(Canonical)
           T == 0..(n - 1)
           place == [f \in Canonical |-> Place(f)]
<1>1. IsFiniteSet(Canonical) /\ n \in Nat
  BY CanonicalType, FS_CardinalityType
<1>2. IsFiniteSet(T) /\ Cardinality(T) = n
  BY <1>1, FS_Interval
<1>3. ASSUME NEW f \in Canonical
      PROVE  Place(f) \in T
  <2>1. Listed(f) \in SUBSET Canonical /\ Listed(f) # Canonical
    BY ListIrreflexive DEF Listed
  <2>2. /\ Cardinality(Listed(f)) <= n /\ Cardinality(Listed(f)) # n
        /\ Cardinality(Listed(f)) \in Nat
    BY <1>1, <2>1, FS_Subset, FS_CardinalityType
  <2>3. Place(f) = Cardinality(Listed(f))
    BY DEF Place, Listed
  <2> QED BY <1>1, <2>2, <2>3
<1>4. ASSUME NEW e \in Canonical, NEW f \in Canonical, Place(e) = Place(f)
      PROVE  e = f
  <2>1. Place(e) \in Nat /\ Place(f) \in Nat
    BY <1>1, <1>3
  <2>2. ~ListedBefore(e, f) /\ ~ListedBefore(f, e)
    BY <1>4, <2>1, PlacesGrow
  <2> QED BY <2>2, ListIsOrder
<1> HIDE DEF T
<1>5. place \in Injection(Canonical, T)
  BY <1>3, <1>4 DEF Injection, IsInjective
<1>6. place \in Surjection(Canonical, T)
  BY <1>1, <1>2, <1>5, FS_Injection
<1>7. k \in T
  BY DEF T
<1>8. \E f \in Canonical : place[f] = k
  BY <1>6, <1>7 DEF Surjection
<1> QED BY <1>8

SlotsBefore(e) == {f \in Planned : Start(f) < Start(e)}

LEMMA CountsAreFinite ==
  ASSUME IInv, NEW e \in Planned
  PROVE  /\ IsFiniteSet(SlotsBefore(e)) /\ IsFiniteSet(DroppedBefore(e)) /\ IsFiniteSet(Listed(e))
         /\ Cardinality(SlotsBefore(e)) \in Nat /\ Cardinality(DroppedBefore(e)) \in Nat
         /\ Cardinality(Listed(e)) \in Nat
<1>1. /\ SlotsBefore(e) \in SUBSET Canonical /\ DroppedBefore(e) \in SUBSET Canonical
      /\ Listed(e) \in SUBSET Canonical
  BY DEF SlotsBefore, DroppedBefore, Listed, Planned
<1> QED BY <1>1, CanonicalType, FS_Subset, FS_CardinalityType

\* The list has an entry at the place of each slot.
LEMMA SlotHasFee ==
  ASSUME IInv, input.stage = "planned", Labelled, NEW e \in Planned
  PROVE  \E f \in Canonical : /\ Place(f) = SlotPlace(e)
                              /\ FeeBySlot(SlotPlace(e)) = FeeAt(records, Start(f), fees.base)
<1>1. e \in Canonical /\ Start(e) \in Nat
  BY CanonicalType DEF Planned
<1>2. SlotsBefore(e) \in SUBSET Canonical /\ SlotsBefore(e) # Canonical
  BY <1>1 DEF SlotsBefore, Planned
<1>3. /\ Cardinality(SlotsBefore(e)) <= Cardinality(Canonical)
      /\ Cardinality(SlotsBefore(e)) # Cardinality(Canonical)
      /\ Cardinality(SlotsBefore(e)) \in Nat /\ Cardinality(Canonical) \in Nat
  BY <1>2, CanonicalType, CountsAreFinite, FS_Subset, FS_CardinalityType
<1>4. SlotPlace(e) \in 0..(Cardinality(Canonical) - 1)
  BY <1>3 DEF SlotPlace, SlotsBefore
<1> DEFINE c == CHOOSE f \in Canonical : Place(f) = SlotPlace(e)
<1>5. c \in Canonical /\ Place(c) = SlotPlace(e)
  BY <1>4, EachPlaceTaken
<1>6. FeeBySlot(SlotPlace(e)) = FeeAt(records, Start(c), fees.base)
  BY DEF FeeBySlot
<1> QED BY <1>5, <1>6

\* In a list in order the entry at a slot's place is not later than the slot, and
\* is as many slots back at most as entries were dropped before it.
LEMMA PlacesPart ==
  ASSUME IInv, input.stage = "planned", Labelled, InOrder, NEW e \in Planned, NEW c \in Canonical,
         Place(c) = SlotPlace(e)
  PROVE  /\ Start(c) <= Start(e)
         /\ Cardinality(SlotsFromTo(Start(c), Start(e))) <= Cardinality(DroppedBefore(e))
<1> DEFINE k == Cardinality(SlotsBefore(e))
           d == Cardinality(DroppedBefore(e))
           G == SlotsFromTo(Start(c), Start(e))
           A == Listed(e) \cup {e}
           B == Listed(c) \cup {c}
<1>0. \A x \in Canonical : Start(x) \in Nat
  BY CanonicalType
<1>1. /\ e \in Canonical /\ SlotPlace(e) = k
      /\ Place(c) = Cardinality(Listed(c)) /\ Place(e) = Cardinality(Listed(e))
  BY DEF Planned, SlotPlace, SlotsBefore, Place, Listed
<1>2. Listed(e) \subseteq SlotsBefore(e) \cup DroppedBefore(e)
  <2> SUFFICES ASSUME NEW x \in Listed(e), x \in Planned
               PROVE  Start(x) < Start(e)
    BY DEF Listed, SlotsBefore, DroppedBefore
  <2>1. Start(x) <= Start(e) /\ Start(x) # Start(e) /\ x \in Canonical
    BY <1>1 DEF Listed, InOrder, Planned
  <2> QED BY <1>0, <1>1, <2>1
<1>3. SlotsBefore(e) \subseteq Listed(e)
  <2> SUFFICES ASSUME NEW x \in SlotsBefore(e)
               PROVE  ListedBefore(x, e) /\ x \in Canonical
    BY DEF Listed
  <2>1. x \in Canonical /\ Start(x) < Start(e)
    BY DEF SlotsBefore, Planned
  <2>2. ~ListedBefore(e, x) /\ x # e
    BY <1>0, <1>1, <2>1 DEF InOrder
  <2> QED BY <1>1, <2>1, <2>2, ListIsOrder
<1>4. Cardinality(Listed(e)) <= k + d /\ k <= Cardinality(Listed(e))
  <2>1. IsFiniteSet(SlotsBefore(e) \cup DroppedBefore(e))
        /\ Cardinality(SlotsBefore(e) \cup DroppedBefore(e))
             = k + d - Cardinality(SlotsBefore(e) \cap DroppedBefore(e))
    <3>1. IsFiniteSet(SlotsBefore(e)) /\ IsFiniteSet(DroppedBefore(e))
      BY CountsAreFinite
    <3> QED BY <3>1, FS_Union
  <2>2. SlotsBefore(e) \cap DroppedBefore(e) = {}
    BY DEF SlotsBefore, DroppedBefore
  <2>3. Cardinality(SlotsBefore(e) \cup DroppedBefore(e)) = k + d
    <3>1. k \in Nat /\ d \in Nat /\ Cardinality({}) = 0
      BY CountsAreFinite, FS_EmptySet
    <3>2. Cardinality(SlotsBefore(e) \cap DroppedBefore(e)) = 0
      BY <2>2, <3>1
    <3> HIDE DEF k, d
    <3> QED BY <2>1, <3>1, <3>2
  <2>4. Cardinality(Listed(e)) <= Cardinality(SlotsBefore(e) \cup DroppedBefore(e))
    BY <1>2, <2>1, FS_Subset
  <2>5. k <= Cardinality(Listed(e))
    BY <1>3, CountsAreFinite, FS_Subset
  <2> QED BY <2>3, <2>4, <2>5
<1>5. c = e \/ ListedBefore(c, e)
  <2>1. ~ListedBefore(e, c)
    <3> SUFFICES ASSUME ListedBefore(e, c) PROVE FALSE
      OBVIOUS
    <3>1. Place(e) < Place(c)
      BY <1>1, PlacesGrow
    <3>2. Place(c) = k /\ Place(e) = Cardinality(Listed(e)) /\ k <= Cardinality(Listed(e))
      BY <1>1, <1>4
    <3>3. k \in Nat /\ Cardinality(Listed(e)) \in Nat
      BY CountsAreFinite
    <3> HIDE DEF k
    <3> QED BY <3>1, <3>2, <3>3
  <2> QED BY <1>1, <2>1, ListIsOrder
<1>6. Start(c) <= Start(e)
  BY <1>0, <1>1, <1>5 DEF InOrder
<1>7. G \subseteq A \ B
  <2> SUFFICES ASSUME NEW g \in G
               PROVE  g \in A /\ g \notin B
    OBVIOUS
  <2>1. g \in Canonical /\ g \in Planned /\ Start(c) < Start(g) /\ Start(g) <= Start(e)
    BY DEF SlotsFromTo, Planned
  <2>2. g \notin B
    BY <1>0, <2>1 DEF Listed, InOrder
  <2>3. g = e \/ ListedBefore(g, e)
    <3>1. CASE ListedBefore(e, g)
      <4>1. Start(g) = Start(e)
        BY <1>0, <1>1, <2>1, <3>1 DEF InOrder
      <4> QED BY <1>1, <2>1, <3>1, <4>1 DEF Planned
    <3> QED BY <1>1, <2>1, <3>1, ListIsOrder
  <2> QED BY <2>1, <2>2, <2>3 DEF Listed
<1>8. B \subseteq A
  BY <1>1, <1>5, PlacesGrow
<1>9. /\ IsFiniteSet(A) /\ Cardinality(A) = Cardinality(Listed(e)) + 1
      /\ Cardinality(B) = k + 1
  <2>1. e \notin Listed(e) /\ c \notin Listed(c)
    BY <1>1, ListIrreflexive DEF Listed
  <2>2. IsFiniteSet(Listed(e)) /\ IsFiniteSet(Listed(c))
    BY CanonicalType, FS_Subset DEF Listed
  <2>3. Cardinality(Listed(c)) = k
    BY <1>1
  <2> QED BY <2>1, <2>2, <2>3, FS_AddElement
<1>10. IsFiniteSet(A \ B) /\ Cardinality(A \ B) = Cardinality(A) - Cardinality(B)
  <2>1. A \cap B = B /\ IsFiniteSet(A)
    BY <1>8, <1>9
  <2> HIDE DEF A, B
  <2>2. IsFiniteSet(A \ B) /\ Cardinality(A \ B) = Cardinality(A) - Cardinality(A \cap B)
    BY <2>1, FS_Difference
  <2> QED BY <2>1, <2>2
<1>11. Cardinality(G) <= Cardinality(A \ B)
  <2> HIDE DEF A, B, G
  <2> QED BY <1>7, <1>10, FS_Subset
<1>12. Cardinality(G) \in Nat
  <2> HIDE DEF A, B, G
  <2> QED BY <1>7, <1>10, FS_Subset, FS_CardinalityType
<1>13. Cardinality(G) <= d
  <2>1. k \in Nat /\ d \in Nat /\ Cardinality(Listed(e)) \in Nat
    BY CountsAreFinite
  <2> HIDE DEF A, B, G, k, d
  <2> QED BY <1>4, <1>9, <1>10, <1>11, <1>12, <2>1
<1> QED BY <1>6, <1>13

\* A fee at or after the time the run began is that of the newest row, which is
\* of the run's own year and month unless the reading failed.
LEMMA FeeIsNewest ==
  ASSUME IInv, input.stage = "planned", config.kind # "static", records # {},
         NEW t \in Nat, fees.since <= t
  PROVE  IsFeeAt(FeeAt(records, t, fees.base), t)
<1> DEFINE b == fees.since
<1>1. /\ fees.stage = "refreshed" /\ b <= t /\ b \in Times /\ b \in Nat
      /\ input.ref \in Nat /\ records \subseteq Records /\ Timed(records, b)
  BY HorizonIsTime DEF IInv, FeeInv, FeeTypeOK, Runs, RunIsAlone, InputInv, Inputs, InSequence
<1>2. \A r \in records : r.at \in Nat /\ r.seen \in Nat
  BY <1>1, HorizonIsTime DEF Records
<1>3. \A r \in records : r.at <= b /\ r.seen <= b /\ r.at <= YearStart[b]
  BY <1>1, TimedFits
<1>4. \A r \in records : r.at <= t /\ r.seen <= t
  BY <1>1, <1>2, <1>3
<1>5. InForce(records, t) = records
  BY <1>4 DEF InForce
<1>6. PICK r : r = Latest(InForce(records, t))
  OBVIOUS
<1>7. r \in records /\ \A s \in records : ~Before(r, s)
  BY <1>1, <1>4, <1>5, <1>6, LatestIsNewest DEF Newest
<1>8. FeeAt(records, t, fees.base) = FeeOf(r, t)
  BY <1>5, <1>6 DEF FeeAt
<1>9. ASSUME fees.ok
      PROVE  r.at = YearStart[b] /\ MonthOf[r.seen] = MonthOf[b]
  <2>1. PICK q \in records :
          /\ q.at = YearStart[b] /\ MonthOf[q.seen] = MonthOf[b]
          /\ \A s \in OfYear(records, b) : ~Before(q, s)
    BY <1>1, <1>9 DEF IInv, FeeInv, TariffIsCurrent
  <2>2. r.at = q.at
    BY <1>2, <1>3, <1>7, <2>1 DEF Before
  <2>3. r.seen = q.seen
    BY <1>2, <1>7, <2>1, <2>2 DEF Before, OfYear
  <2> QED BY <2>1, <2>2, <2>3
<1> HIDE DEF b
<1> QED BY <1>4, <1>5, <1>7, <1>8, <1>9 DEF b, IsFeeAt

\* applyStoredOverrides takes the one fee at the instant the run began.
LEMMA BaseIsNewest ==
  ASSUME IInv, BaseIsApplied, input.stage = "planned", config.kind = "legacy", records # {}
  PROVE  IsFeeAt(fees.base, fees.since)
<1>1. fees.stage = "refreshed" /\ fees.since \in Nat
  BY HorizonIsTime DEF IInv, FeeInv, FeeTypeOK, Runs, InputInv, InSequence
<1>2. IsFeeAt(FeeAt(records, fees.since, fees.base), fees.since)
  BY <1>1, FeeIsNewest
<1>3. fees.base = FeeAt(records, fees.since, NoFee)
  BY <1>1 DEF BaseIsApplied, BaseFee
<1>4. FeeAt(records, fees.since, NoFee) = FeeAt(records, fees.since, fees.base)
  <2>1. CASE InForce(records, fees.since) = {}
    BY <1>3, <2>1 DEF FeeAt
  <2>2. CASE InForce(records, fees.since) # {}
    BY <2>2 DEF FeeAt
  <2> QED BY <2>1, <2>2
<1> QED BY <1>2, <1>3, <1>4

\* buildGridFeeScheduleFromForecast and prepareSimulationContext join fees and
\* slots by their places in lists of which only one has been deduplicated.
THEOREM PlanIsPricedRight == Spec => []PlanPaysTheTariff
<1>1. IInv /\ Labelled /\ BaseIsApplied => PlanPaysTheTariff
  <2> SUFFICES ASSUME IInv, Labelled, BaseIsApplied, input.stage = "planned", records # {}
               PROVE  /\ config.kind = "legacy" =>
                           /\ IsFeeAt(fees.base, fees.since)
                           /\ \A e \in Planned : PlannedFee(e) = fees.base /\ ShownFee(e) = fees.base
                      /\ config.kind = "e-control" => \A e \in Planned :
                           /\ IsFeeAt(ShownFee(e), Start(e))
                           /\ \E f \in Canonical :
                                /\ IsFeeAt(PlannedFee(e), Start(f))
                                /\ FromMarket \/ InOrder =>
                                     /\ Start(f) <= Start(e)
                                     /\ Cardinality(SlotsFromTo(Start(f), Start(e)))
                                          <= Cardinality(DroppedBefore(e))
    BY DEF PlanPaysTheTariff
  <2>1. ASSUME config.kind = "legacy"
        PROVE  /\ IsFeeAt(fees.base, fees.since)
               /\ \A e \in Planned : PlannedFee(e) = fees.base /\ ShownFee(e) = fees.base
    BY <2>1, BaseIsNewest DEF PlannedFee, ShownFee, Scheduled
  <2>2. ASSUME config.kind = "e-control", NEW e \in Planned
        PROVE  /\ IsFeeAt(ShownFee(e), Start(e))
               /\ \E f \in Canonical :
                    /\ IsFeeAt(PlannedFee(e), Start(f))
                    /\ FromMarket \/ InOrder =>
                         /\ Start(f) <= Start(e)
                         /\ Cardinality(SlotsFromTo(Start(f), Start(e)))
                              <= Cardinality(DroppedBefore(e))
    <3>1. ASSUME NEW x \in Canonical PROVE IsFeeAt(FeeAt(records, Start(x), fees.base), Start(x))
      <4>1. /\ Start(x) \in Nat /\ input.ref <= Start(x) /\ fees.since <= input.ref
            /\ fees.since \in Nat /\ input.ref \in Nat
        BY CanonicalType, HorizonIsTime
           DEF IInv, FeeInv, FeeTypeOK, Runs, InputInv, Inputs, InSequence
      <4> QED BY <2>2, <4>1, FeeIsNewest
    <3>2. e \in Canonical /\ ShownFee(e) = FeeAt(records, Start(e), fees.base)
      BY <2>2 DEF Planned, ShownFee, Scheduled
    <3>3. PICK f \in Canonical :
            /\ Place(f) = SlotPlace(e)
            /\ FeeBySlot(SlotPlace(e)) = FeeAt(records, Start(f), fees.base)
      BY SlotHasFee
    <3>4. PlannedFee(e) = FeeAt(records, Start(f), fees.base)
      BY <2>2, <3>3 DEF PlannedFee, Scheduled
    <3>5. FromMarket \/ InOrder =>
            /\ Start(f) <= Start(e)
            /\ Cardinality(SlotsFromTo(Start(f), Start(e))) <= Cardinality(DroppedBefore(e))
      BY <3>3, ListIsOrder, PlacesPart
    <3>6. IsFeeAt(ShownFee(e), Start(e))
      BY <3>1, <3>2
    <3>7. IsFeeAt(PlannedFee(e), Start(f))
      BY <3>1, <3>4
    <3> QED BY <3>5, <3>6, <3>7
  <2> QED BY <2>1, <2>2
<1>2. Init => Labelled /\ BaseIsApplied
  BY DEF Init, FeeInit, Off, NoRun, Labelled, BaseIsApplied
<1>3. [Next]_vars => [FeeNext]_feeVars
  BY DEF Next, vars, feeVars, FeeNext, CollectEvcc, CollectProvider, Lay, Cut, CollectSolar,
     Finish, Restart
<1> QED BY InitKeeps, StepKeeps, LabelsStay, BaseStays, <1>1, <1>2, <1>3, PTL DEF Spec

-----------------------------------------------------------------------------
(* The sun                                                                 *)

\* What a run plans with is one solar forecast, or none.
SunIsForecast == input.sun \in SolarForecasts

LEMMA SunStays == IInv /\ SunIsForecast /\ [Next]_vars => SunIsForecast'
<1> SUFFICES ASSUME IInv, SunIsForecast, [Next]_vars PROVE SunIsForecast'
  OBVIOUS
<1>1. input \in Inputs
  BY DEF IInv, InputInv
<1>2. ASSUME input' = Off PROVE SunIsForecast'
  BY <1>2 DEF Off, SunIsForecast, SolarForecasts
<1>3. ASSUME NEW sun \in SolarForecasts, CollectSolar(sun) PROVE SunIsForecast'
  <2>1. input'.sun = sun
    BY <1>1, <1>3 DEF CollectSolar, Inputs
  <2> QED BY <2>1 DEF SunIsForecast, SolarForecasts
<1>4. ASSUME input'.sun = input.sun PROVE SunIsForecast'
  BY <1>4 DEF SunIsForecast, SolarForecasts
<1>5. ASSUME NEW state, CollectEvcc(state) PROVE input'.sun = input.sun
  BY <1>1, <1>5 DEF CollectEvcc, Inputs
<1>6. ASSUME NEW p, NEW S, CollectProvider(p, S) PROVE input'.sun = input.sun
  BY <1>1, <1>6 DEF CollectProvider, Inputs
<1>7. ASSUME NEW p, Lay(p) PROVE input'.sun = input.sun
  BY <1>1, <1>7 DEF Lay, Inputs
<1>8. ASSUME Cut PROVE input'.sun = input.sun
  BY <1>1, <1>8 DEF Cut, Inputs
<1>9. CASE Finish \/ Restart
  BY <1>2, <1>9 DEF Finish, Restart
<1>10. CASE (BeginRun \/ Fetched \/ FetchFailed \/ Tick) /\ UNCHANGED input
  BY <1>4, <1>10
<1>11. CASE UNCHANGED vars
  BY <1>4, <1>11 DEF vars
<1> QED BY <1>3, <1>4, <1>5, <1>6, <1>7, <1>8, <1>9, <1>10, <1>11 DEF Next

\* The hours of a forecast follow each other, and their power is not negative.
Hours(sun) ==
  /\ IsFiniteSet(sun)
  /\ \A s \in sun : s.from \in Nat /\ s.to = s.from + Hour /\ s.power \in Nat
  /\ \A s, h \in sun : s # h => ~Overlap(s, h)

LEMMA RowsGiveHours ==
  ASSUME NEW rows \in SolarRows
  PROVE  /\ Hours(SunByHour(rows))
         /\ SunByHour(rows) \subseteq [from : Nat, to : Nat, power : Nat]
         /\ \A s \in SunByHour(rows) : \E r \in rows : r.from = s.from
<1> DEFINE w == [q \in rows |-> q.power]
           Power(t) == SumFunctionOnSet(w, {q \in rows : q.from = t})
           Sunny(r) == [from |-> r.from, to |-> r.from + Hour, power |-> Power(r.from)]
           All == {Sunny(r) : r \in rows}
<1>1. /\ IsFiniteSet(rows) /\ \A r \in rows : r.from \in Nat /\ r.power \in Nat
      /\ \A q, r \in rows : q.from < r.from => q.from + Hour <= r.from
  BY SunAssumption
<1>2. Hour \in Nat \ {0}
  BY HourAssumption
<1>3. \A t : Power(t) \in Int
  <2>1. w \in [rows -> Int]
    BY <1>1
  <2> HIDE DEF w
  <2>2. TAKE t
  <2>3. {q \in rows : q.from = t} \in SUBSET rows
    OBVIOUS
  <2>4. IsFiniteSet({q \in rows : q.from = t})
    BY <1>1, <2>3, FS_Subset
  <2> QED BY <2>1, <2>3, <2>4, SumType
<1>4. SunByHour(rows) = {s \in All : s.power > 0}
  BY DEF SunByHour
<1> HIDE DEF Power
<1>5. IsFiniteSet(All)
  <2>1. [r \in rows |-> Sunny(r)] \in Surjection(rows, All)
    BY DEF Surjection
  <2> HIDE DEF Sunny, All
  <2> QED BY <1>1, <2>1, FS_Surjection
<1>6. IsFiniteSet(SunByHour(rows))
  BY <1>4, <1>5, FS_Subset
<1>7. \A s \in SunByHour(rows) : \E r \in rows : s = Sunny(r) /\ s.power > 0
  BY <1>4
<1>8. \A s \in SunByHour(rows) : s.from \in Nat /\ s.to = s.from + Hour /\ s.power \in Nat
  BY <1>1, <1>3, <1>7
<1>9. ASSUME NEW s \in SunByHour(rows), NEW h \in SunByHour(rows), s # h PROVE ~Overlap(s, h)
  <2>1. PICK r \in rows : s = Sunny(r)
    BY <1>7
  <2>2. PICK q \in rows : h = Sunny(q)
    BY <1>7
  <2>3. r.from # q.from
    BY <1>9, <2>1, <2>2
  <2>4. q.from \in Nat /\ r.from \in Nat /\ (q.from + Hour <= r.from \/ r.from + Hour <= q.from)
    BY <1>1, <1>2, <2>3
  <2> QED BY <1>2, <2>1, <2>2, <2>4 DEF Overlap
<1>10. \A s \in SunByHour(rows) : s \in [from : Nat, to : Nat, power : Nat]
  <2> SUFFICES ASSUME NEW s \in SunByHour(rows) PROVE s \in [from : Nat, to : Nat, power : Nat]
    OBVIOUS
  <2>1. PICK r \in rows : s = Sunny(r)
    BY <1>7
  <2>2. s.from \in Nat /\ s.to \in Nat /\ s.power \in Nat
    BY <1>2, <1>8
  <2> QED BY <2>1, <2>2
<1> QED BY <1>6, <1>7, <1>8, <1>9, <1>10 DEF Hours

LEMMA CalibratedHours ==
  ASSUME NEW sun, Hours(sun), NEW power, \A s \in sun : power[s.from] \in Nat,
         sun \subseteq [from : Nat, to : Nat, power : Nat]
  PROVE  Hours(Calibrated(sun, power))
<1> DEFINE Again(s) == [s EXCEPT !.power = power[s.from]]
<1>1. Calibrated(sun, power) = {Again(s) : s \in sun}
  BY DEF Calibrated
<1>2. \A s \in sun : /\ Again(s).from = s.from /\ Again(s).to = s.to
                     /\ Again(s).power = power[s.from]
  OBVIOUS
<1>3. [s \in sun |-> Again(s)] \in Surjection(sun, Calibrated(sun, power))
  BY <1>1 DEF Surjection
<1> HIDE DEF Again
<1>4. IsFiniteSet(Calibrated(sun, power))
  BY <1>3, FS_Surjection DEF Hours
<1>5. \A s \in Calibrated(sun, power) : s.from \in Nat /\ s.to = s.from + Hour /\ s.power \in Nat
  BY <1>1, <1>2 DEF Hours
<1>6. \A s, h \in Calibrated(sun, power) : s # h => ~Overlap(s, h)
  BY <1>1, <1>2 DEF Hours, Overlap
<1> QED BY <1>4, <1>5, <1>6 DEF Hours

LEMMA ForecastHours == ASSUME NEW sun \in SolarForecasts PROVE Hours(sun)
<1>1. CASE sun = {}
  BY <1>1, NoneIsFinite DEF Hours
<1>2. ASSUME NEW rows \in SolarRows, sun = SunByHour(rows) PROVE Hours(sun)
  BY <1>2, RowsGiveHours
<1>3. ASSUME NEW rows \in SolarRows, NEW power \in Calibrations,
             sun = Calibrated(SunByHour(rows), power)
      PROVE  Hours(sun)
  <2> DEFINE raw == SunByHour(rows)
  <2>1. Hours(raw) /\ \A s \in raw : power[s.from] \in Nat
    BY RowsGiveHours, SunAssumption
  <2>2. raw \subseteq [from : Nat, to : Nat, power : Nat]
    BY RowsGiveHours
  <2> HIDE DEF raw
  <2> QED BY <1>3, <2>1, <2>2, CalibratedHours DEF raw
<1> QED BY <1>1, <1>2, <1>3 DEF SolarForecasts

\* Slots of different providers do not overlap in the merge, so none do if none of
\* one provider do.
LEMMA PlannedApart ==
  ASSUME IInv, Apart(input.evcc), \A p \in Providers : Apart(input.got[p])
  PROVE  Apart(Planned)
<1>1. Apart(input.merged)
  <2> SUFFICES ASSUME NEW e \in input.merged, NEW f \in input.merged, e # f
               PROVE  ~Overlap(e, f)
    BY DEF Apart
  <2>1. /\ input.merged = MergedOf(input.laid) /\ input.laid \subseteq Providers
        /\ e \in Entries /\ f \in Entries
    BY DEF IInv, InputInv, Inputs
  <2>2. PICK p \in input.laid :
          e \in input.got[p] /\ \A q \in input.laid : Better(q, p) => ~Covers(q, e)
    BY <2>1 DEF MergedOf
  <2>3. PICK q \in input.laid :
          f \in input.got[q] /\ \A r \in input.laid : Better(r, q) => ~Covers(r, f)
    BY <2>1 DEF MergedOf
  <2>4. CASE p = q
    BY <2>1, <2>2, <2>3, <2>4 DEF Apart
  <2>5. CASE p # q
    <3>1. Better(p, q) \/ Better(q, p)
      BY <2>1, <2>5, ProvidersAssumption DEF Better
    <3> QED BY <2>2, <2>3, <3>1 DEF Covers, Overlap
  <2> QED BY <2>4, <2>5
<1>2. Planned \subseteq input.merged \/ Planned \subseteq input.evcc
  BY DEF Planned, Canonical, Future
<1> QED BY <1>1, <1>2 DEF Apart

\* What is planned ends after the cut.
LEMMA PlannedType ==
  ASSUME IInv
  PROVE  /\ IsFiniteSet(Planned) /\ input.ref \in Nat
         /\ \A e \in Planned : /\ e.from \in Nat /\ e.to \in Nat /\ e.from < e.to
                               /\ input.ref < e.to
                               /\ Start(e) \in Nat /\ e.from <= Start(e) /\ input.ref <= Start(e)
                               /\ Start(e) < e.to
<1>1. Planned \subseteq Canonical /\ Canonical \subseteq Entries /\ IsFiniteSet(Canonical)
  BY CanonicalType DEF Planned
<1>2. input.ref \in Nat
  BY HorizonIsTime DEF IInv, InputInv, Inputs
<1>3. IsFiniteSet(Planned)
  BY <1>1, FS_Subset
<1>4. ASSUME NEW e \in Planned
      PROVE  e.from \in Nat /\ e.to \in Nat /\ e.from < e.to /\ input.ref < e.to
  BY <1>1, <1>2 DEF Entries, Canonical, Future
<1>5. ASSUME NEW e \in Planned
      PROVE  /\ Start(e) \in Nat /\ e.from <= Start(e) /\ input.ref <= Start(e)
             /\ Start(e) < e.to
  BY <1>2, <1>4 DEF Start, StartAt, Later
<1> QED BY <1>2, <1>3, <1>4, <1>5

\* The instants of a slot within an hour of sun.
Moments(e, s) == Later(Start(e), s.from) .. (Earlier(e.to, s.to) - 1)

LEMMA SharedIsMoments ==
  ASSUME IInv, NEW e \in Planned, NEW s, s.from \in Nat, s.to \in Nat
  PROVE  /\ IsFiniteSet(Moments(e, s))
         /\ Shared(e, s, input.ref) = Cardinality(Moments(e, s))
         /\ \A t : t \in Moments(e, s) <=> /\ t \in Int /\ Start(e) <= t /\ s.from <= t
                                           /\ t < e.to /\ t < s.to
<1> DEFINE a == Later(Start(e), s.from)
           b == Earlier(e.to, s.to)
<1>1. Start(e) \in Nat /\ e.to \in Nat
  BY PlannedType
<1>2. a \in Int /\ b \in Int /\ b - 1 \in Int
  BY <1>1 DEF Later, Earlier
<1>3. Shared(e, s, input.ref) = Later(0, b - a)
  BY DEF Shared, Start
<1>4. \A t \in Int : a <= t /\ t <= b - 1 <=> /\ Start(e) <= t /\ s.from <= t
                                               /\ t < e.to /\ t < s.to
  BY <1>1 DEF Later, Earlier
<1>5. Moments(e, s) = a .. (b - 1)
  BY DEF Moments
<1> HIDE DEF a, b
<1>6. /\ IsFiniteSet(a .. (b - 1))
      /\ Cardinality(a .. (b - 1)) = IF a > b - 1 THEN 0 ELSE (b - 1) - a + 1
  BY <1>2, FS_Interval
<1>7. Later(0, b - a) = IF a > b - 1 THEN 0 ELSE (b - 1) - a + 1
  BY <1>2 DEF Later
<1> QED BY <1>2, <1>3, <1>4, <1>5, <1>6, <1>7

LEMMA TimesMonotone ==
  ASSUME NEW p \in Nat, NEW m \in Nat, NEW n \in Nat, m <= n
  PROVE  p * m <= p * n
<1>1. n - m \in Nat /\ n = m + (n - m)
  OBVIOUS
<1>2. p * n = p * m + p * (n - m) /\ p * (n - m) \in Nat /\ p * m \in Nat
  BY <1>1, Distributes
<1>3. \A x, y, z \in Nat : x = y + z => y <= x
  OBVIOUS
<1>4. p * n \in Nat
  BY Distributes
<1> QED BY <1>2, <1>3, <1>4

\* All slots together have no more of an hour than is left of it.
LEMMA HourIsSharedOut ==
  ASSUME IInv, Apart(Planned), NEW s,
         s.from \in Nat, s.to \in Nat, s.from < s.to, input.ref < s.to, s.power \in Nat
  PROVE  SumFunctionOnSet([e \in Planned |-> s.power * Shared(e, s, input.ref)], Planned)
           <= s.power * (s.to - StartAt(s, input.ref))
<1> DEFINE P == [e \in Planned |-> Moments(e, s)]
           All == Joined(P, Planned)
           left == StartAt(s, input.ref)
<1>1. IsFiniteSet(Planned) /\ input.ref \in Nat
  BY PlannedType
<1>2. left \in Nat /\ left < s.to /\ \A t \in Int : s.from <= t /\ input.ref <= t => left <= t
  BY <1>1 DEF StartAt, Later
<1>3. \A e \in Planned : /\ P[e] = Moments(e, s)
                         /\ IsFiniteSet(P[e])
                         /\ Shared(e, s, input.ref) = Cardinality(P[e])
  BY SharedIsMoments
<1>4. ASSUME NEW e \in Planned, NEW t \in P[e]
      PROVE  /\ t \in Int /\ Start(e) <= t /\ s.from <= t /\ t < e.to /\ t < s.to
             /\ e.from \in Nat /\ e.from <= t /\ input.ref <= t /\ e.to \in Nat
  <2>1. t \in Int /\ Start(e) <= t /\ s.from <= t /\ t < e.to /\ t < s.to
    BY <1>3, <1>4, SharedIsMoments
  <2> QED BY <2>1, <1>1, PlannedType
<1>5. ASSUME NEW e \in Planned, NEW f \in Planned, e # f PROVE P[e] \cap P[f] = {}
  <2> SUFFICES ASSUME NEW t \in P[e], t \in P[f] PROVE FALSE
    OBVIOUS
  <2>1. ~Overlap(e, f)
    BY <1>5 DEF Apart
  <2>2. /\ t \in Int /\ e.from <= t /\ t < f.to /\ f.from <= t /\ t < e.to
        /\ e.from \in Nat /\ e.to \in Nat /\ f.from \in Nat /\ f.to \in Nat
    BY <1>4
  <2> QED BY <2>1, <2>2 DEF Overlap
<1>6. [e \in Planned |-> s.power * Shared(e, s, input.ref)] = Sizes(P, Planned, s.power)
  BY <1>3 DEF Sizes
<1>7. \A t \in All : left <= t /\ t <= s.to - 1 /\ t \in Int
  <2> SUFFICES ASSUME NEW e \in Planned, NEW t \in P[e]
               PROVE  left <= t /\ t <= s.to - 1 /\ t \in Int
    BY DEF Joined
  <2> QED BY <1>2, <1>4
<1> HIDE DEF P, left
<1>8. /\ IsFiniteSet(All)
      /\ SumFunctionOnSet(Sizes(P, Planned, s.power), Planned) = s.power * Cardinality(All)
  BY <1>1, <1>3, <1>5, SumOfDisjoint
<1> HIDE DEF All
<1>9. All \subseteq left .. (s.to - 1)
  BY <1>2, <1>7
<1>10. /\ IsFiniteSet(left .. (s.to - 1))
       /\ Cardinality(left .. (s.to - 1)) = IF left > s.to - 1 THEN 0 ELSE (s.to - 1) - left + 1
  <2>1. left \in Int /\ s.to - 1 \in Int
    BY <1>2
  <2> QED BY <2>1, FS_Interval
<1>11. Cardinality(All) \in Nat /\ Cardinality(All) <= s.to - left /\ s.to - left \in Nat
  <2>1. Cardinality(All) <= Cardinality(left .. (s.to - 1))
    BY <1>9, <1>10, FS_Subset
  <2>2. Cardinality(left .. (s.to - 1)) = s.to - left /\ s.to - left \in Nat
    BY <1>2, <1>10
  <2> QED BY <1>8, <2>1, <2>2, FS_CardinalityType
<1>12. s.power * Cardinality(All) <= s.power * (s.to - left)
  BY <1>11, TimesMonotone
<1> QED BY <1>6, <1>8, <1>12 DEF left

LEMMA NoMoreThanForecast ==
  ASSUME IInv, Apart(Planned), Hours(input.sun)
  PROVE  SumFunction([e \in Planned |-> PlannedSun(e, input.sun, input.ref)])
           <= SumFunction([s \in Future(input.sun, input.ref) |->
                             s.power * (s.to - StartAt(s, input.ref))])
<1> DEFINE F == Future(input.sun, input.ref)
           Part(e, s) == s.power * Shared(e, s, input.ref)
           w == [e \in Planned |-> [s \in F |-> Part(e, s)]]
           Spent(s) == SumFunctionOnSet([e \in Planned |-> Part(e, s)], Planned)
           Left(s) == s.power * (s.to - StartAt(s, input.ref))
           rows == [e \in Planned |-> SumFunctionOnSet(w[e], F)]
           spent == [s \in F |-> Spent(s)]
           left == [s \in F |-> Left(s)]
<1>1. IsFiniteSet(Planned) /\ input.ref \in Nat
  BY PlannedType
<1>2. IsFiniteSet(F)
  <2>1. F \in SUBSET input.sun
    BY DEF Future
  <2> QED BY <2>1, FS_Subset DEF Hours
<1>3. ASSUME NEW s \in F
      PROVE  /\ s.from \in Nat /\ s.to \in Nat /\ s.from < s.to /\ input.ref < s.to
             /\ s.power \in Nat
  <2>1. s \in input.sun /\ s.to > input.ref
    BY DEF Future
  <2>2. s.from \in Nat /\ s.to = s.from + Hour /\ s.power \in Nat /\ Hour \in Nat \ {0}
    BY <2>1, HourAssumption DEF Hours
  <2> QED BY <1>1, <2>1, <2>2
<1>4. ASSUME NEW e \in Planned, NEW s \in F PROVE Part(e, s) \in Nat
  <2>1. Shared(e, s, input.ref) \in Nat
    BY <1>3, SharedIsMoments, FS_CardinalityType
  <2> QED BY <1>3, <2>1, Distributes
<1>5. \A s \in F : Spent(s) <= Left(s)
  <2> HIDE DEF F
  <2> QED BY <1>3, HourIsSharedOut
<1>6. \A s \in F : Left(s) \in Int
  <2> SUFFICES ASSUME NEW s \in F PROVE Left(s) \in Int
    OBVIOUS
  <2>1. s.to - StartAt(s, input.ref) \in Nat
    BY <1>1, <1>3 DEF StartAt, Later
  <2> HIDE DEF F
  <2> QED BY <1>3, <2>1, Distributes
<1>7. \A s \in F : Spent(s) \in Int
  <2> SUFFICES ASSUME NEW s \in F PROVE Spent(s) \in Int
    OBVIOUS
  <2>1. [e \in Planned |-> Part(e, s)] \in [Planned -> Int]
    BY <1>4
  <2> HIDE DEF Part, F
  <2> QED BY <1>1, <2>1, SumType
<1>8. w \in [Planned -> [F -> Int]]
  BY <1>4
<1>9. SumFunction([e \in Planned |-> PlannedSun(e, input.sun, input.ref)])
        = SumFunctionOnSet(rows, Planned)
  <2>1. ASSUME NEW e \in Planned
        PROVE  PlannedSun(e, input.sun, input.ref) = SumFunctionOnSet(w[e], F)
    BY DEF PlannedSun, SumFunction
  <2>2. [e \in Planned |-> PlannedSun(e, input.sun, input.ref)] = rows
    <3> HIDE DEF w, F
    <3> QED BY <2>1
  <2>3. DOMAIN rows = Planned
    OBVIOUS
  <2> HIDE DEF rows
  <2> QED BY <2>2, <2>3 DEF SumFunction
<1>10. SumFunction(left) = SumFunctionOnSet(left, F)
  <2>1. DOMAIN left = F
    OBVIOUS
  <2> HIDE DEF left
  <2> QED BY <2>1 DEF SumFunction
<1>11. SumFunctionOnSet(rows, Planned)
         = SumFunctionOnSet([s \in F |-> SumFunctionOnSet([e \in Planned |-> w[e][s]], Planned)], F)
  <2> HIDE DEF w, F
  <2> QED BY <1>1, <1>2, <1>8, SumExchange
<1>12. [s \in F |-> SumFunctionOnSet([e \in Planned |-> w[e][s]], Planned)] = spent
  <2>1. ASSUME NEW s \in F PROVE [e \in Planned |-> w[e][s]] = [e \in Planned |-> Part(e, s)]
    OBVIOUS
  <2> HIDE DEF w, Part, F
  <2> QED BY <2>1
<1>13. SumFunctionOnSet(spent, F) <= SumFunctionOnSet(left, F)
  <2>1. spent \in [F -> Int] /\ left \in [F -> Int] /\ \A s \in F : spent[s] <= left[s]
    <3> HIDE DEF Spent, Left, F
    <3> QED BY <1>5, <1>6, <1>7
  <2> HIDE DEF spent, left, F
  <2> QED BY <1>2, <2>1, SumMonotone
<1>14. SumFunction([e \in Planned |-> PlannedSun(e, input.sun, input.ref)]) <= SumFunction(left)
  <2> HIDE DEF spent, left, rows, w, F
  <2> QED BY <1>9, <1>10, <1>11, <1>12, <1>13
<1> QED BY <1>14

\* A slot within one hour takes the sun of that hour only.
LEMMA WithinOneHour ==
  ASSUME IInv, Hours(input.sun), NEW e \in Planned, NEW s \in input.sun, Within(e, s)
  PROVE  ShownSun(e, input.sun, input.ref) = PlannedSun(e, input.sun, input.ref)
<1> DEFINE F == Future(input.sun, input.ref)
           x == Start(e)
           w == [h \in F |-> h.power * Shared(e, h, input.ref)]
<1>1. /\ input.ref \in Nat /\ x \in Nat /\ e.from \in Nat /\ e.to \in Nat
      /\ e.from <= x /\ input.ref <= x /\ x < e.to /\ input.ref < e.to
  BY PlannedType
<1>2. \A h \in input.sun : h.from \in Nat /\ h.to \in Nat /\ h.power \in Nat /\ h.from < h.to
  BY HourAssumption DEF Hours
<1>3. s.from <= x /\ x < s.to /\ e.to <= s.to
  BY <1>1, <1>2 DEF Within
<1>4. s \in F /\ F \in SUBSET input.sun /\ \A h \in F : input.ref < h.to
  BY <1>1, <1>2, <1>3 DEF Future
<1>5. ASSUME NEW h \in F, h.from < e.to, x < h.to PROVE h = s
  <2>1. h \in input.sun /\ h.from \in Nat /\ h.to \in Nat /\ h.from < h.to
    BY <1>2, <1>4
  <2>2. Overlap(h, s)
    BY <1>1, <1>2, <1>3, <1>5, <2>1 DEF Overlap, Within
  <2> QED BY <2>1, <2>2 DEF Hours
<1>6. HourOf(e, F, input.ref) = s
  <2>1. ASSUME NEW h \in F, StartAt(h, input.ref) = StartAt(e, input.ref) PROVE h = s
    <3>1. h.from \in Nat /\ h.to \in Nat /\ h.from < h.to /\ input.ref < h.to
      BY <1>2, <1>4
    <3>2. h.from <= x /\ x < h.to
      BY <1>1, <2>1, <3>1 DEF Start, StartAt, Later
    <3> QED BY <1>1, <1>5, <3>1, <3>2
  <2>2. FirstHour(e, F, input.ref) = s
    <3>1. s.from < e.to /\ s.to > StartAt(e, input.ref)
      BY <1>1, <1>2, <1>3 DEF Start
    <3>2. \A h \in F : h.from < e.to /\ h.to > StartAt(e, input.ref) => h = s
      <4>1. \A h \in F : h.to \in Nat
        BY <1>2, <1>4
      <4> QED BY <1>1, <1>5, <4>1 DEF Start
    <3>3. s.from <= s.from
      BY <1>2
    <3> HIDE DEF F
    <3> QED BY <1>4, <3>1, <3>2, <3>3 DEF FirstHour
  <2> HIDE DEF F
  <2> QED BY <2>1, <2>2 DEF HourOf
<1>7. ShownSun(e, input.sun, input.ref) = s.power * Shared(e, s, input.ref)
  <2> DEFINE cut == [e EXCEPT !.from = StartAt(e, input.ref)]
  <2>1. e \in Entries
    BY CanonicalType DEF Planned
  <2>2. cut.from = x /\ cut.to = e.to
    BY <2>1 DEF Entries, Start
  <2> HIDE DEF cut
  <2>3. Overlap(cut, s)
    BY <1>1, <1>2, <1>3, <2>2 DEF Overlap
  <2> QED BY <1>4, <1>6, <2>3 DEF ShownSun, cut
<1>8. ASSUME NEW h \in F, h # s PROVE w[h] = 0
  <2>1. h.from \in Nat /\ h.to \in Nat /\ h.power \in Nat
    BY <1>2, <1>4
  <2>2. h.from >= e.to \/ x >= h.to
    BY <1>1, <1>5, <1>8, <2>1
  <2>3. Shared(e, h, input.ref) = 0
    BY <1>1, <2>1, <2>2 DEF Shared, Start, Earlier, Later
  <2> QED BY <2>1, <2>3
<1>9. \A h \in F : w[h] \in Int
  <2> SUFFICES ASSUME NEW h \in F PROVE w[h] \in Int
    OBVIOUS
  <2>1. h.from \in Nat /\ h.to \in Nat /\ h.power \in Nat
    BY <1>2, <1>4
  <2>2. Shared(e, h, input.ref) \in Nat
    BY <2>1, SharedIsMoments, FS_CardinalityType
  <2> QED BY <2>1, <2>2, Distributes
<1>10. IsFiniteSet(F)
  BY <1>4, FS_Subset DEF Hours
<1>11. PlannedSun(e, input.sun, input.ref) = SumFunctionOnSet(w, F)
  BY DEF PlannedSun, SumFunction
<1>12. w[s] = s.power * Shared(e, s, input.ref) /\ w \in [F -> Int]
  BY <1>4, <1>9
<1> HIDE DEF w, F
<1>13. SumFunctionOnSet(w, F) = w[s]
  BY <1>4, <1>8, <1>10, <1>12, SumSingle
<1> QED BY <1>7, <1>11, <1>12, <1>13

\* Each hour of sun is shared out among the slots that runSimulation plans and
\* what the dashboard shows of a slot within one hour is the same.
THEOREM SunSharedOut == Spec => []SunIsSharedOut
<1>1. Init => SunIsForecast
  BY DEF Init, Off, SunIsForecast, SolarForecasts
<1>2. IInv /\ SunIsForecast => SunIsSharedOut
  <2> SUFFICES ASSUME IInv, SunIsForecast,
                      Apart(input.evcc), \A p \in Providers : Apart(input.got[p])
               PROVE  SunIsSharedOut
    BY DEF SunIsSharedOut
  <2>1. Hours(input.sun)
    BY ForecastHours DEF SunIsForecast
  <2> QED BY <2>1, PlannedApart, NoMoreThanForecast, WithinOneHour DEF SunIsSharedOut
<1> QED BY InitKeeps, StepKeeps, SunStays, <1>1, <1>2, PTL DEF Spec
=============================================================================

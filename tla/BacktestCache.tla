---------------------------- MODULE BacktestCache ----------------------------
(***************************************************************************)
(* The daily backtests (backtest.service.ts) and their materialisation     *)
(* (backtest-materialization.service.ts): what a home battery that only    *)
(* follows the sun would have done on each recorded day, one day carrying  *)
(* its simulated state of charge into the next, with one cached summary    *)
(* per day and configuration in table daily_backtest_summaries.            *)
(*                                                                         *)
(* A call is synchronous: it walks back along the days it needs            *)
(* (ensureLiveEntry), simulates them forward and stores what it made in    *)
(* one transaction.  Its steps are actions here so that each simulated day *)
(* is one step; nothing else of the process runs between them, but the     *)
(* process may die.  A state of charge is known by where it comes from:    *)
(* the day whose recorded value the chain starts with, and the             *)
(* configuration of each day it was simulated through.                     *)
(***************************************************************************)
EXTENDS Integers, Sequences

CONSTANTS
  MaxDay,        \* the last day of the model
  FirstDay,      \* the day the backend with backtests is installed
  Configs,       \* simulation configurations
  Tariffs,       \* values of the recorded dynamic tariffs
  TariffDays,    \* days from which a tariff may hold: starts of months and years
  Snapshots,     \* stored plans: what they say a kWh is worth
  PageLength,    \* days a page of the list stretches over
  MaxRestarts,   \* bound: starts of the process
  MaxTariffs     \* bound: tariffs observed

ASSUME DaysAssumption == MaxDay \in Nat /\ FirstDay \in 1..MaxDay
ASSUME BoundsAssumption == PageLength \in Nat /\ MaxRestarts \in Nat /\ MaxTariffs \in Nat
ASSUME TariffsAssumption == Tariffs # {} /\ TariffDays \subseteq 1..MaxDay
ASSUME SnapshotsAssumption == Snapshots \cap {"none", "settled", "so far"} = {}

Days == 1..MaxDay

\* What a day's rows of table history have: two within two hours of the day's
\* "ends", two at most two hours apart, which are an "interval" to simulate, and
\* a "price" recorded with the earlier of such two.
Shapes == {marks \in SUBSET {"ends", "interval", "price"} : "price" \in marks => "interval" \in marks}

VARIABLES
  today,       \* the UTC day
  history,     \* the shape of each day's recorded history
  configLog,   \* table config_history, in the order of its rows
  tariff,      \* the tariff in force at each day's start, as known by now
  snapshot,    \* the latest stored plan
  cache,       \* table daily_backtest_summaries
  up,          \* the process runs
  due,         \* the materialisation to run: "none", "startup" or "midnight"
  working,     \* a call of the backtest service is under way
  todo,        \* requested days it has not looked at
  stack,       \* the calls of ensureLiveEntry it is inside, innermost last
  live,        \* liveByDate: the entries made so far
  barren,      \* days it called buildDailyEntry for in vain
  forced,      \* forceLiveDates
  using,       \* the snapshot it was given, "none" when it materialises
  restarts, observed

job == <<working, todo, stack, live, barren, forced, using>>
world == <<today, history, tariff, snapshot, observed>>
vars == <<world, configLog, cache, up, due, restarts, job>>

-----------------------------------------------------------------------------
(* What the service reads                                                  *)

Yesterday == today - 1

\* completeDays of the index, which only holds days before today.
Complete(d) == d \in 1..Yesterday /\ "ends" \in history[d]

\* runForHistory finds an interval; a price that is missing counts as 0 there.
Simulable(d) == d \in Days /\ "interval" \in history[d]

\* deriveMarginalPriceFromHistory finds a price.
Priced(d) == d \in Days /\ "price" \in history[d]

CacheEligible(d) == d < Yesterday /\ Complete(d + 1)

\* The latest row observed before the day began, else the earliest row.
ConfigAt(d) ==
  LET before == {i \in DOMAIN configLog : configLog[i].day < d}
  IN  IF before = {} THEN configLog[1].config
      ELSE configLog[CHOOSE i \in before : \A j \in before : j <= i].config

\* The primary key: the fingerprint covers the day's own configuration and
\* tariffs, and nothing of the days before it.
Key(d) == [day |-> d, config |-> ConfigAt(d), tariff |-> tariff[d]]

\* loadCachedSummary
Stored(d) == d # Yesterday /\ CacheEligible(d) /\ Key(d) \in DOMAIN cache

\* getCachedEntryForDate
Cached(d) == d \notin forced /\ Stored(d)

-----------------------------------------------------------------------------
(* One simulated day                                                       *)

Recorded(d) == [from |-> d, under |-> <<>>]

Through(d, soc) ==
  [from |-> soc.from,
   under |-> [i \in soc.from..d |-> IF i = d THEN ConfigAt(d) ELSE soc.under[i]]]

\* Mutant: only a day simulated in this call or found in the cache is carried on.
WaitsForNothing(d) == FALSE

\* resolveInitialSimSocPercent has to simulate the day before first.
WaitsFor(d) ==
  /\ Complete(d - 1)
  /\ d - 1 \notin DOMAIN live \cup barren
  /\ ~Cached(d - 1)
  /\ CacheEligible(d - 1) \/ d - 1 = Yesterday

\* Mutant: the detail view simulates its day by itself.
StartSocAlone(d) ==
  IF d \in forced THEN Recorded(d)
  ELSE IF Complete(d - 1) /\ d - 1 \in DOMAIN live THEN live[d - 1].final
  ELSE IF Complete(d - 1) /\ Cached(d - 1) THEN cache[Key(d - 1)].final
  ELSE Recorded(d)

\* resolveInitialSimSocPercent
StartSoc(d) ==
  IF Complete(d - 1) /\ d - 1 \in DOMAIN live THEN live[d - 1].final
  ELSE IF Complete(d - 1) /\ Cached(d - 1) THEN cache[Key(d - 1)].final
  ELSE Recorded(d)

\* The price of the battery's content at midnight: the next day's average, of
\* all its rows or of those there are so far, else what the plan says.
Worth(d) ==
  IF ~Priced(d + 1) THEN using
  ELSE IF d + 1 < today THEN "settled" ELSE "so far"

\* buildDailyEntry returns null
HasNoEntry(d) == ~Simulable(d) \/ Worth(d) = "none"

Entry(d) ==
  [start |-> StartSoc(d), final |-> Through(d, StartSoc(d)), worth |-> Worth(d)]

-----------------------------------------------------------------------------
(* A call                                                                  *)

Idle == up /\ ~working

\* The days that are in the cache are answered from it.
Ask(dates, force, plan) ==
  LET missing == {d \in dates : d \in force \/ ~Stored(d)}
  IN  IF missing = {}
      THEN UNCHANGED job
      ELSE /\ working' = TRUE
           /\ todo' = missing
           /\ forced' = force
           /\ using' = plan
           /\ UNCHANGED <<stack, live, barren>>

NoJob ==
  /\ working' = FALSE
  /\ todo' = {}
  /\ stack' = <<>>
  /\ live' = <<>>
  /\ barren' = {}
  /\ forced' = {}
  /\ using' = "none"

\* runDailyHistory: a page is a stretch of the list of complete days.
Page(first) ==
  /\ Idle
  /\ Ask({d \in first..first + PageLength - 1 : Complete(d)}, {}, snapshot)
  /\ UNCHANGED <<world, configLog, cache, up, due, restarts>>

\* getDailyHistoryDetail
Detail(d) ==
  /\ Idle
  /\ Complete(d)
  /\ Ask({d}, {d}, snapshot)
  /\ UNCHANGED <<world, configLog, cache, up, due, restarts>>

\* runStartupCatchup, with missingOnly
Startup ==
  /\ Idle
  /\ due = "startup"
  /\ due' = "none"
  /\ Ask({d \in Days : Complete(d) /\ CacheEligible(d)}, {}, "none")
  /\ UNCHANGED <<world, configLog, cache, up, restarts>>

\* Mutant: the day before yesterday is taken for yesterday.
ScheduledYesterday ==
  /\ Idle
  /\ due = "midnight"
  /\ due' = "none"
  /\ Ask({d \in {Yesterday} : CacheEligible(d)}, {}, "none")
  /\ UNCHANGED <<world, configLog, cache, up, restarts>>

\* runScheduledRefresh: the day before yesterday, complete itself or not.
Scheduled ==
  /\ Idle
  /\ due = "midnight"
  /\ due' = "none"
  /\ Ask({d \in Days : d = today - 2 /\ CacheEligible(d)}, {}, "none")
  /\ UNCHANGED <<world, configLog, cache, up, restarts>>

Top == stack[Len(stack)]

\* The loop over the requested days, oldest first.
Take ==
  /\ working
  /\ stack = <<>>
  /\ \E d \in todo :
       /\ \A e \in todo : d <= e
       /\ todo' = todo \ {d}
       /\ stack' = IF d \in DOMAIN live THEN stack ELSE <<d>>
  /\ UNCHANGED <<world, configLog, cache, up, due, restarts, working, live, barren, forced, using>>

\* ensureLiveEntry calls itself for the day before.
Descend ==
  /\ working
  /\ stack # <<>>
  /\ WaitsFor(Top)
  /\ stack' = Append(stack, Top - 1)
  /\ UNCHANGED <<world, configLog, cache, up, due, restarts, working, todo, live, barren, forced, using>>

\* ensureLiveEntry simulates its day and returns.
Simulate ==
  /\ working
  /\ stack # <<>>
  /\ ~WaitsFor(Top)
  /\ IF HasNoEntry(Top)
     THEN barren' = barren \cup {Top} /\ UNCHANGED live
     ELSE /\ live' = [d \in DOMAIN live \cup {Top} |-> IF d = Top THEN Entry(d) ELSE live[d]]
          /\ UNCHANGED barren
  /\ stack' = SubSeq(stack, 1, Len(stack) - 1)
  /\ UNCHANGED <<world, configLog, cache, up, due, restarts, working, todo, forced, using>>

\* Mutant: what was simulated is stored, yesterday included.
StorableToo(d) == d \in DOMAIN live

Storable(d) == d \in DOMAIN live /\ d # Yesterday /\ CacheEligible(d)

\* upsertDailyBacktestSummaries and the answer
Finish ==
  /\ working
  /\ stack = <<>>
  /\ todo = {}
  /\ LET rows == {d \in DOMAIN live : Storable(d)}
         keys == {Key(d) : d \in rows}
     IN  cache' = [k \in DOMAIN cache \cup keys |->
                     IF k \in keys THEN live[k.day] ELSE cache[k]]
  /\ NoJob
  /\ UNCHANGED <<world, configLog, up, due, restarts>>

-----------------------------------------------------------------------------
(* The rest of the process, and the days                                   *)

\* A planning run stores its plan and adds a row to today's history.
Record(plan) ==
  /\ Idle
  /\ snapshot' = plan
  /\ \E shape \in Shapes :
       /\ history[today] \subseteq shape
       /\ "ends" \notin shape
       /\ history' = [history EXCEPT ![today] = shape]
  /\ UNCHANGED <<today, tariff, observed, configLog, cache, up, due, restarts, job>>

\* A planning run observes a tariff that holds from a day on, perhaps one long
\* gone: tariffs are recorded with the start of their month or year, and in the
\* order of those.
Observe(from, value) ==
  /\ Idle
  /\ observed < MaxTariffs
  /\ observed' = observed + 1
  /\ tariff' = [d \in Days |-> IF d >= from THEN value ELSE tariff[d]]
  /\ UNCHANGED <<today, history, snapshot, configLog, cache, up, due, restarts, job>>

\* The day ends; it was complete if there are rows near both of its ends.  The
\* timer is due.  A call does not last from one midnight to the next.
Midnight ==
  /\ ~working
  /\ due # "midnight"
  /\ today < MaxDay
  /\ today' = today + 1
  /\ \E ends \in SUBSET {"ends"} : history' = [history EXCEPT ![today] = @ \cup ends]
  /\ due' = IF up /\ due = "none" THEN "midnight" ELSE due
  /\ UNCHANGED <<tariff, snapshot, observed, configLog, cache, up, restarts, job>>

\* bootstrap: recordStartupConfig adds a row for a configuration that changed.
Restart(config) ==
  /\ ~up
  /\ restarts < MaxRestarts
  /\ restarts' = restarts + 1
  /\ up' = TRUE
  /\ due' = "startup"
  /\ configLog' = IF configLog # <<>> /\ configLog[Len(configLog)].config = config
                  THEN configLog
                  ELSE Append(configLog, [day |-> today, config |-> config])
  /\ UNCHANGED <<world, cache, job>>

\* The process dies, also in the middle of a call.
Crash ==
  /\ up
  /\ restarts < MaxRestarts
  /\ up' = FALSE
  /\ due' = "none"
  /\ NoJob
  /\ UNCHANGED <<world, configLog, cache, restarts>>

\* The history, and the configurations on record, may be older than the backtests.
Init ==
  /\ today = FirstDay
  /\ history \in {h \in [Days -> Shapes] : \A d \in Days : d >= FirstDay => h[d] = {}}
  /\ configLog \in {<<>>} \cup
       {log \in {<<[day |-> 0, config |-> c], [day |-> 1, config |-> e]>> : c, e \in Configs} :
          log[1].config # log[2].config}
  /\ tariff = [d \in Days |-> CHOOSE v \in Tariffs : TRUE]
  /\ snapshot \in Snapshots
  /\ cache = <<>>
  /\ up = FALSE
  /\ due = "none"
  /\ working = FALSE
  /\ todo = {}
  /\ stack = <<>>
  /\ live = <<>>
  /\ barren = {}
  /\ forced = {}
  /\ using = "none"
  /\ restarts = 0
  /\ observed = 0

Next ==
  \/ \E first \in Days : Page(first)
  \/ \E d \in Days : Detail(d)
  \/ Startup
  \/ Scheduled
  \/ Take
  \/ Descend
  \/ Simulate
  \/ Finish
  \/ \E plan \in Snapshots : Record(plan)
  \/ \E from \in TariffDays, value \in Tariffs : Observe(from, value)
  \/ Midnight
  \/ \E config \in Configs : Restart(config)
  \/ Crash

Spec == Init /\ [][Next]_vars

\* A synchronous call runs to its end; a timer that is due fires in spite of
\* requests, because every turn of the event loop looks at the timers; a
\* process that died is started again.
Fairness ==
  /\ WF_vars(Take \/ Descend \/ Simulate \/ Finish \/ \E config \in Configs : Restart(config))
  /\ SF_vars(Startup \/ Scheduled)

FairSpec == Spec /\ Fairness
-----------------------------------------------------------------------------
(* What must hold                                                          *)

\* The state of charge at the start of day d.
IsSoc(soc, d) == \E f \in 1..d : soc \in [from : {f}, under : [f..(d - 1) -> Configs]]

IsEntry(e, d) ==
  /\ e = [start |-> e.start, final |-> e.final, worth |-> e.worth]
  /\ IsSoc(e.start, d) /\ IsSoc(e.final, d + 1)
  /\ e.worth \in Snapshots \cup {"settled", "so far"}

\* The variables keep their types: an entry is stored with the chain of days it
\* comes from, and the service is inside calls for days before today only.
TypeOK ==
  /\ today \in Days
  /\ history \in [Days -> Shapes]
  /\ configLog \in Seq([day : 0..MaxDay, config : Configs])
  /\ tariff \in [Days -> Tariffs]
  /\ snapshot \in Snapshots
  /\ DOMAIN cache \subseteq [day : Days, config : Configs, tariff : Tariffs]
  /\ \A k \in DOMAIN cache : IsEntry(cache[k], k.day)
  /\ up \in BOOLEAN
  /\ due \in {"none", "startup", "midnight"}
  /\ working \in BOOLEAN
  /\ todo \subseteq 1..Yesterday
  /\ stack \in Seq(1..Yesterday)
  /\ DOMAIN live \subseteq 1..Yesterday
  /\ \A d \in DOMAIN live : IsEntry(live[d], d)
  /\ barren \subseteq 1..Yesterday
  /\ forced \subseteq 1..Yesterday
  /\ using \in Snapshots \cup {"none"}
  /\ restarts \in 0..MaxRestarts
  /\ observed \in 0..MaxTariffs

\* A day that can be simulated and that the next day carries on.
Carries(d) == Complete(d) /\ Simulable(d)

\* The state of charge at the start of day d is a recorded one, simulated through
\* each of the days since under the configuration of that day.  A chain of days
\* begins with a recorded value only if the day before cannot be carried on, or
\* if its own first day has no prices: who computes the day before without a
\* plan then finds no price for what its battery holds, and makes no entry.
Chained(soc, d) ==
  /\ \A i \in soc.from..(d - 1) : Carries(i) /\ soc.under[i] = ConfigAt(i)
  /\ Carries(soc.from - 1) => ~Priced(soc.from)

\* "Carries simulated SOC across consecutive days": whoever computed it and
\* when, under whatever tariffs, with what in the cache, the summary of a
\* complete day starts where the simulation of the days before it ended.  The
\* exception is a complete day without any recorded price: the materialisation
\* begins anew with that day's recorded value although the day before is
\* complete, while a page, which has a plan, simulates on.  Both are stored.
CarriesSoc == \A k \in DOMAIN cache : Complete(k.day) => Chained(cache[k].start, k.day)

\* What is stored was not computed from a day that was still being recorded:
\* neither the day itself nor the one whose prices say what the battery's
\* content was worth.
Settled == \A k \in DOMAIN cache : k.day + 1 < today /\ cache[k].worth # "so far"

\* Nowhere in the unbroken run of days before d, nor on d itself, prices are missing.
PricesKnown(d) ==
  \A i \in 1..d : (\A j \in (i - 1)..(d - 1) : Carries(j)) => Priced(i)

\* What a step may do to the cache.
KeepsSummaries ==
  \A k \in DOMAIN cache :
    /\ k \in DOMAIN cache'
    /\ Complete(k.day) /\ PricesKnown(k.day) =>
         cache'[k].start = cache[k].start /\ cache'[k].final = cache[k].final
    /\ Priced(k.day + 1) => cache'[k].worth = cache[k].worth

\* A summary, once stored, does not change if prices were recorded on each day
\* the chain goes through: recomputing the day for the detail view or at the next
\* start finds what the list has shown.  After a complete day without prices it
\* may change: a summary of the materialisation, whose chain begins with that
\* day, is replaced when the detail view simulates on from the day before.  And
\* what the battery's content is worth changes with the plan if it is the next
\* day that has no prices.
SummaryIsFinal == [][KeepsSummaries]_vars

\* A day recorded in full gets a summary if the next one is, with prices: at the
\* second midnight, or at the next start when the process was down then.
Materialized ==
  []<>(\/ \A d \in Days :
            Carries(d) /\ Priced(d + 1) /\ CacheEligible(d) => \E k \in DOMAIN cache : k.day = d
       \/ ~up /\ restarts = MaxRestarts)
=============================================================================

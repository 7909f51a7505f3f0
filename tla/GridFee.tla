------------------------------ MODULE GridFee -------------------------------
(***************************************************************************)
(* The grid fee of a planning run (dynamic-price-config.service.ts, the    *)
(* E-Control provider and its rows in dynamic_price_history): the tariff   *)
(* of a year is read from the regulator once in a month, and the rows that *)
(* were stored serve when it cannot be.  A row keeps the options it was    *)
(* read with; the configuration may be another one since.                  *)
(***************************************************************************)
EXTENDS Integers, FiniteSets

CONSTANTS
  Configs,    \* configurations: [kind, area, snap] of price.grid_fee, and more
  LegacyArea, \* the area of a price.dynamic configuration: "Wien"
  Times,      \* instants 0..n: now, and the starts of price slots
  Horizon,    \* bound: the last instant a run begins at
  MonthOf,    \* resolveMonthKey of an instant
  YearStart,  \* resolveYearStartIso of an instant
  SnapTimes   \* the instants of the summer tariff (isSnapActive)

ASSUME ConfigsAssumption ==
  \A c \in Configs : c.kind \in {"e-control", "legacy", "static"} /\ c.snap \in BOOLEAN
ASSUME TimesAssumption ==
  /\ Times \subseteq Nat /\ Horizon \in Times
  /\ \A t \in 0..Horizon : t \in Times
ASSUME CalendarAssumption ==
  /\ MonthOf \in [Times -> Nat]
  /\ YearStart \in [Times -> Times]
  /\ \A t \in Times : YearStart[t] <= t
  /\ \A s, t \in Times : s <= t => YearStart[s] <= YearStart[t]
ASSUME HorizonAssumption == Horizon >= 1

VARIABLES
  now,
  config,   \* the configuration the process has read
  records,  \* the E-Control rows of dynamic_price_history
  fees,     \* the run: when it began, and the one grid fee of its configuration
  edited    \* history: when the process last got another configuration

feeVars == <<now, config, records, fees, edited>>

Areas == {c.area : c \in Configs} \cup {LegacyArea}

\* effectiveAt, observedAt, the options, and whether the row has the price
\* components and the summer window: rows of earlier versions have neither.
Records == [at : Times, seen : Times, area : Areas, snap : BOOLEAN, whole : BOOLEAN]

Fees == [kind : {"none", "static", "tariff"}, at : Times, seen : Times, low : BOOLEAN]

NoFee == [kind |-> "none", at |-> 0, seen |-> 0, low |-> FALSE]
StaticFee == [NoFee EXCEPT !.kind = "static"]

NoRun == [stage |-> "idle", since |-> 0, ok |-> FALSE, base |-> NoFee]

Runs == [stage : {"idle", "fetching", "refreshed"}, since : 0..Horizon,
         ok : BOOLEAN, base : Fees]

FeeTypeOK ==
  /\ now \in 0..Horizon
  /\ config \in Configs
  /\ records \subseteq Records
  /\ fees \in Runs
  /\ edited \in 0..Horizon

\* The database may hold a row an earlier version stored.
FeeInit ==
  /\ now = 1
  /\ config \in Configs
  /\ records \in {{}} \cup {{r} : r \in [at : {YearStart[0]}, seen : {0}, area : {LegacyArea},
                                        snap : {TRUE}, whole : {FALSE}]}
  /\ fees = NoRun
  /\ edited = 0

-----------------------------------------------------------------------------
(* The stored rows                                                         *)

Before(r, s) == r.at < s.at \/ (r.at = s.at /\ r.seen < s.seen)

Latest(S) == CHOOSE r \in S : \A s \in S : ~Before(r, s)

\* getLatestDynamicPriceRecordAt: the rows in force at an instant.
InForce(rows, t) == {r \in rows : r.at <= t}

\* getLatestDynamicPriceRecordForEffectiveAt: the rows of a year.
OfYear(rows, t) == {r \in rows : r.at = YearStart[t]}

Options(c) ==
  IF c.kind = "e-control" THEN [area |-> c.area, snap |-> c.snap]
  ELSE [area |-> LegacyArea, snap |-> TRUE]

\* isSnapActive: the hours of the summer tariff, by the window kept in the row.
Low(r, t) == r.whole /\ r.snap /\ t \in SnapTimes

\* resolveGridFeeValueFromRecord: a row without components has one price.
FeeOf(r, t) == [kind |-> "tariff", at |-> r.at, seen |-> r.seen, low |-> Low(r, t)]

\* resolvePriceAt: the price of the row in force, or the given one without any.
FeeAt(rows, t, otherwise) ==
  IF InForce(rows, t) = {} THEN otherwise ELSE FeeOf(Latest(InForce(rows, t)), t)

\* applyStoredOverrides: the one fee the run's copy of the configuration gets.
BaseFee(rows, t) == IF config.kind = "static" THEN StaticFee ELSE FeeAt(rows, t, NoFee)

-----------------------------------------------------------------------------
(* A run                                                                   *)

\* Mutant: the age of the row is not looked at.
CurrentForEver(t) ==
  /\ OfYear(records, t) # {}
  /\ Latest(OfYear(records, t)).whole

\* The row of this year was read this month and is whole: it is not read again.
Current(t) ==
  /\ OfYear(records, t) # {}
  /\ MonthOf[Latest(OfYear(records, t)).seen] = MonthOf[t]
  /\ Latest(OfYear(records, t)).whole

\* The stored overrides are applied at the time the run began.
Refreshed(rows, since, ok) ==
  [stage |-> "refreshed", since |-> since, ok |-> ok, base |-> BaseFee(rows, since)]

BeginRun ==
  /\ fees.stage = "idle"
  /\ fees' = IF config.kind = "static" \/ Current(now) THEN Refreshed(records, now, TRUE)
             ELSE [NoRun EXCEPT !.stage = "fetching", !.since = now]
  /\ UNCHANGED <<now, config, records, edited>>

Row == [at |-> YearStart[fees.since], seen |-> fees.since,
        area |-> Options(config).area, snap |-> Options(config).snap, whole |-> TRUE]

\* A row with the same effectiveAt and observedAt stays as it is.
Stored ==
  IF \E r \in records : r.at = Row.at /\ r.seen = Row.seen THEN records
  ELSE records \cup {Row}

\* The three documents were fetched and parsed.  The row bears the time the
\* run began at, however long that took.
Fetched ==
  /\ fees.stage = "fetching"
  /\ records' = Stored
  /\ fees' = Refreshed(Stored, fees.since, TRUE)
  /\ UNCHANGED <<now, config, edited>>

\* Any of them failed: a warning, and the run goes on with what is stored.
FetchFailed ==
  /\ fees.stage = "fetching"
  /\ fees' = Refreshed(records, fees.since, FALSE)
  /\ UNCHANGED <<now, config, records, edited>>

EndRun ==
  /\ fees.stage = "refreshed"
  /\ fees' = NoRun
  /\ UNCHANGED <<now, config, records, edited>>

\* A restart, with the same configuration or another one.
Reconfigure ==
  /\ config' \in Configs
  /\ fees' = NoRun
  /\ edited' = IF config' = config THEN edited ELSE now
  /\ UNCHANGED <<now, records>>

Tick ==
  /\ now < Horizon
  /\ now' = now + 1
  /\ UNCHANGED <<config, records, fees, edited>>

FeeNext ==
  \/ BeginRun \/ Fetched \/ FetchFailed \/ EndRun \/ Reconfigure \/ Tick

FeeSpec == FeeInit /\ [][FeeNext]_feeVars

-----------------------------------------------------------------------------
(* Properties                                                              *)

\* A run that could read the regulator's pages, or had no need to, has a whole
\* row for its own year, read in its own month, and with the options it is
\* configured with unless the configuration was edited after the row was read:
\* such an edit is without effect until the month is over.
TariffIsCurrent ==
  fees.stage = "refreshed" /\ fees.ok /\ config.kind # "static" =>
    \E r \in records :
      /\ r.at = YearStart[fees.since] /\ MonthOf[r.seen] = MonthOf[fees.since] /\ r.whole
      /\ \A s \in OfYear(records, fees.since) : ~Before(r, s)
      /\ \/ [area |-> r.area, snap |-> r.snap] = Options(config)
         \/ edited >= r.seen
=============================================================================

---------------------------- MODULE WeatherCache ----------------------------
(***************************************************************************)
(* The hourly weather and solar rows of Open-Meteo (weather.service.ts):   *)
(* a call answers from the rows in the database when they cover its        *)
(* window, and otherwise fetches the past and the coming part of it, one   *)
(* series (a location, or one solar array) after the other.  Calls of      *)
(* several callers are under way at once: the planning run, the synthetic  *)
(* prices (six locations in parallel) and the calibration share the        *)
(* requests the program allows itself and the cooldown it keeps after the  *)
(* provider refused one.                                                   *)
(*                                                                         *)
(* Time goes by in ticks.  A request or a cooldown is known by its age or  *)
(* by what is left of it, so that nothing but the hour of the day grows.   *)
(***************************************************************************)
EXTENDS Integers, Sequences, FiniteSets

CONSTANTS
  Callers,     \* who calls; a caller makes one call at a time
  Series,      \* the weather of a place, or the sun on an array
  Asks,        \* the series a caller asks for, in order
  Windows,     \* first and last hour a call may ask for
  Limits,      \* OPEN_METEO_LOCAL_RATE_LIMITS: a window in ticks, and requests
  RefusedFor,  \* UPSTREAM_RATE_LIMIT_COOLDOWN_MS in ticks
  LimitedFor,  \* LOCAL_SAFETY_LIMIT_COOLDOWN_MS in ticks
  Horizon      \* bound: the last hour of the model

Hours == 0..Horizon
Longest == CHOOSE w \in {l.window : l \in Limits} : \A l \in Limits : l.window <= w

ASSUME AsksAssumption == Asks \in [Callers -> Seq(Series)]
ASSUME WindowsAssumption ==
  \A w \in Windows : w \in [from : Hours, to : Hours] /\ w.from <= w.to
ASSUME LimitsAssumption ==
  /\ IsFiniteSet(Limits) /\ Limits # {}
  /\ Limits \subseteq [window : Nat \ {0}, max : Nat]
ASSUME TimesAssumption ==
  RefusedFor \in Nat /\ LimitedFor \in 0..RefusedFor /\ Horizon \in Nat

VARIABLES
  rows,          \* the hours each series has a row for
  cooldown,      \* ticks left of the row in provider_cooldowns, 0 when it is over
  requests,      \* requestTimestampsMs, as ages; a number keeps equal ages apart
  hour,          \* the current hour
  call,          \* the call each caller has made last
  sinceRefusal   \* history: ticks since the provider refused a request

vars == <<rows, cooldown, requests, hour, call, sinceRefusal>>

Idle == [pc |-> "idle", from |-> 0, to |-> 0, now |-> 0, at |-> 1,
         part |-> "historical", asked |-> {}, failed |-> FALSE, short |-> FALSE]

Calls ==
  [pc : {"idle", "look", "flight", "answered", "threw"},
   from : Hours, to : Hours, now : Hours, at : Nat,
   part : {"historical", "forecast"}, asked : SUBSET Hours,
   failed : BOOLEAN, short : BOOLEAN]

TypeOK ==
  /\ rows \in [Series -> SUBSET Hours]
  /\ cooldown \in 0..RefusedFor
  /\ requests \subseteq [age : Nat, nth : Nat] /\ IsFiniteSet(requests)
  /\ hour \in Hours
  /\ call \in [Callers -> Calls]
  /\ \A c \in Callers : call[c].at \in 1..(Len(Asks[c]) + 1)
  /\ sinceRefusal \in 0..RefusedFor

Init ==
  /\ rows = [s \in Series |-> {}]
  /\ cooldown = 0
  /\ requests = {}
  /\ hour = 0
  /\ call = [c \in Callers |-> Idle]
  /\ sinceRefusal = RefusedFor

-----------------------------------------------------------------------------
(* The requests the program allows itself                                  *)

Recent(window) == {r \in requests : r.age < window}

\* Mutant: one request too many.
ExhaustedLate == \E l \in Limits : Cardinality(Recent(l.window)) > l.max

Exhausted == \E l \in Limits : Cardinality(Recent(l.window)) >= l.max

Counted == requests \cup {[age |-> 0, nth |-> Cardinality(Recent(1))]}

-----------------------------------------------------------------------------
(* A call                                                                  *)

Window(j) == j.from..j.to

SeriesAt(c, j) == Asks[c][j.at]

\* The present hour is in both parts: the forecast of it overwrites the other.
PartHours(j, part, now) ==
  IF part = "historical" THEN {h \in Window(j) : h <= now}
  ELSE {h \in Window(j) : h >= now}

\* Mutant: the clock is read anew for each request of a call.
ClockAnew(j) == hour

\* nowHour is read once, before the first request: a call that waited over the
\* turn of an hour still splits its windows at the hour it began in.
Clock(j) == j.now

Start(c, w) ==
  /\ call[c].pc \in {"idle", "answered", "threw"}
  /\ call' = [call EXCEPT ![c] = [Idle EXCEPT !.pc = "look", !.now = hour,
                                              !.from = w.from, !.to = w.to]]
  /\ UNCHANGED <<rows, cooldown, requests, hour, sinceRefusal>>

NextSeries(j) == [j EXCEPT !.pc = "look", !.at = @ + 1, !.asked = {}]

\* The error ends with the series: it is logged and the next one is looked at.
Dropped(j) == [NextSeries(j) EXCEPT !.failed = TRUE]

Requested(j, part) ==
  [j EXCEPT !.pc = "flight", !.part = part, !.asked = PartHours(j, part, Clock(j))]

TurnedAway(c, j) == call' = [call EXCEPT ![c] = Dropped(j)]

Send(c, j, part) ==
  /\ requests' = Counted
  /\ call' = [call EXCEPT ![c] = Requested(j, part)]
  /\ UNCHANGED cooldown

\* Mutant: a call that is turned away starts the cooldown again.
IssueRenewing(c, j, part) ==
  \/ cooldown > 0 /\ cooldown' = RefusedFor /\ TurnedAway(c, j) /\ UNCHANGED requests
  \/ cooldown = 0 /\ Exhausted /\ cooldown' = LimitedFor /\ TurnedAway(c, j) /\ UNCHANGED requests
  \/ cooldown = 0 /\ ~Exhausted /\ Send(c, j, part)

\* Mutant: the budget is looked at before the cooldown.
IssueBudgetFirst(c, j, part) ==
  \/ Exhausted /\ cooldown' = LimitedFor /\ TurnedAway(c, j) /\ UNCHANGED requests
  \/ cooldown > 0 /\ ~Exhausted /\ TurnedAway(c, j) /\ UNCHANGED <<cooldown, requests>>
  \/ cooldown = 0 /\ ~Exhausted /\ Send(c, j, part)

\* fetchAndCacheRange up to its request: the cooldown turns it away, the budget
\* turns it away and starts a cooldown, or the request is counted and sent.
Issue(c, j, part) ==
  \/ cooldown > 0 /\ TurnedAway(c, j) /\ UNCHANGED <<cooldown, requests>>
  \/ cooldown = 0 /\ Exhausted /\ cooldown' = LimitedFor /\ TurnedAway(c, j) /\ UNCHANGED requests
  \/ cooldown = 0 /\ ~Exhausted /\ Send(c, j, part)

Looking(c) == call[c].pc = "look" /\ call[c].at <= Len(Asks[c])

Covered(c, j) == Window(j) \subseteq rows[SeriesAt(c, j)]

Skip(c) ==
  /\ Looking(c) /\ Covered(c, call[c])
  /\ call' = [call EXCEPT ![c] = NextSeries(call[c])]
  /\ UNCHANGED <<rows, cooldown, requests, hour, sinceRefusal>>

Ask(c) ==
  LET j == call[c] IN
  /\ Looking(c) /\ ~Covered(c, j)
  /\ Issue(c, j, IF j.from <= Clock(j) THEN "historical" ELSE "forecast")
  /\ UNCHANGED <<rows, hour, sinceRefusal>>

InFlight(c) == call[c].pc = "flight"

\* upsertWeatherHours, upsertSolarProxyHours: a row of the same hour is replaced.
Upserted(s, got) == [rows EXCEPT ![s] = @ \cup got]

ForecastDue(j) == j.part = "historical" /\ j.to > Clock(j)

\* The rows of the answer within the asked hours are stored; an answer may have
\* rows for fewer of them.  The forecast is asked for next, if any hour is to come.
Answer(c, got) ==
  LET j == [call[c] EXCEPT !.short = @ \/ got # call[c].asked] IN
  /\ InFlight(c)
  /\ got \subseteq j.asked
  /\ rows' = Upserted(SeriesAt(c, j), got)
  /\ \/ ForecastDue(j) /\ Issue(c, j, "forecast")
     \/ /\ ~ForecastDue(j)
        /\ call' = [call EXCEPT ![c] = NextSeries(j)]
        /\ UNCHANGED <<cooldown, requests>>
  /\ UNCHANGED <<hour, sinceRefusal>>

\* HTTP 429.
Refused(c) ==
  /\ InFlight(c)
  /\ cooldown' = RefusedFor
  /\ sinceRefusal' = 0
  /\ call' = [call EXCEPT ![c] = Dropped(call[c])]
  /\ UNCHANGED <<rows, requests, hour>>

\* Any other failure of the request or of its body.
Broken(c) ==
  /\ InFlight(c)
  /\ call' = [call EXCEPT ![c] = Dropped(call[c])]
  /\ UNCHANGED <<rows, cooldown, requests, hour, sinceRefusal>>

\* All rows of all series are returned, whatever each fetch came to; a call
\* with nothing to return passes on its first error.
Finish(c) ==
  LET j == call[c]
      nothing == \A i \in DOMAIN Asks[c] : Window(j) \cap rows[Asks[c][i]] = {}
  IN
  /\ j.pc = "look" /\ j.at > Len(Asks[c])
  /\ call' = [call EXCEPT ![c].pc = IF nothing /\ j.failed THEN "threw" ELSE "answered"]
  /\ UNCHANGED <<rows, cooldown, requests, hour, sinceRefusal>>

-----------------------------------------------------------------------------
(* Time and restarts                                                       *)

Aged(r) == [r EXCEPT !.age = @ + 1]

Tick ==
  /\ requests' = {Aged(r) : r \in {q \in requests : q.age + 1 < Longest}}
  /\ cooldown' = IF cooldown > 0 THEN cooldown - 1 ELSE 0
  /\ sinceRefusal' = IF sinceRefusal < RefusedFor THEN sinceRefusal + 1 ELSE sinceRefusal
  /\ hour' \in {hour, hour + 1} \cap Hours
  /\ UNCHANGED <<rows, call>>

\* The rows and the cooldown are in the database; the counted requests are not.
Restart ==
  /\ requests' = {}
  /\ call' = [c \in Callers |-> Idle]
  /\ UNCHANGED <<rows, cooldown, hour, sinceRefusal>>

Next ==
  \/ \E c \in Callers :
       \/ \E w \in Windows : Start(c, w)
       \/ Skip(c)
       \/ Ask(c)
       \/ \E got \in SUBSET Hours : Answer(c, got)
       \/ Refused(c)
       \/ Broken(c)
       \/ Finish(c)
  \/ Tick
  \/ Restart

Spec == Init /\ [][Next]_vars

\* Time goes by.
FairSpec == Spec /\ WF_vars(Tick)

-----------------------------------------------------------------------------
(* Properties                                                              *)

\* In every window a process sends no more requests than the limit allows,
\* whichever callers they are for and however their calls interleave.
WithinBudget ==
  \A l \in Limits : Cardinality(Recent(l.window)) <= l.max

Sent == \E r \in requests' \ requests : r.age = 0

\* No request is sent within RefusedFor of a refusal: not by a call that was
\* under way, not for a caller that knows nothing of it, and not by a later
\* process.  The cooldown that a spent budget starts never shortens it.
QuietAfterRefusal == [][Sent => sinceRefusal = RefusedFor]_vars

\* A call that is answered, and for which every request was answered in full,
\* has a row for each hour of its window in each series, also when the hour
\* turned while it waited.
WholeUnlessFailed ==
  \A c \in Callers :
    LET j == call[c]
    IN  j.pc = "answered" /\ ~j.failed /\ ~j.short =>
          \A i \in DOMAIN Asks[c] : Window(j) \subseteq rows[Asks[c][i]]

\* Open-Meteo is never given up for good: calls that are turned away while a
\* cooldown runs do not keep it running.
CooldownEnds == []<>(cooldown = 0)
=============================================================================

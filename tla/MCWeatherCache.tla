--------------------------- MODULE MCWeatherCache ---------------------------
EXTENDS WeatherCache

\* The forecast of two solar arrays, and a calibration of one of them.
MCCallers == {"forecast", "calibration"}
MCSeries == {"east", "west"}
MCAsks == [c \in MCCallers |-> IF c = "forecast" THEN <<"east", "west">> ELSE <<"east">>]
MCWindows == {[from |-> 1, to |-> 2]}
MCLimits == {[window |-> 1, max |-> 2], [window |-> 2, max |-> 3]}
=============================================================================

-------------------------- MODULE TelemetryHistory --------------------------
(***************************************************************************)
(* The chart of past readings on DeviceDetailPage (useTelemetryHistory), from *)
(* the range the user picks to the query of the time series database.         *)
(*                                                                          *)
(* A request is sent when the page is opened and for each other range picked;  *)
(* nothing repeats it, cancels an earlier one or looks at which one answers.   *)
(* The answer holds the readings between the reading of the database and so    *)
(* far back as its range says.  The axis is drawn for the range picked by then,*)
(* in whole days of the calendar, and moves on with the day at each render.    *)
(*                                                                          *)
(* Readings stand for the span of time they come from; the four metrics, the   *)
(* windows they are averaged over and the labels are left out.                *)
(***************************************************************************)
EXTENDS Integers, Sequences, SequencesExt

CONSTANTS
  Day,          \* units of time in a day
  Duration,     \* bound: units of time in a behaviour
  MaxRequests,  \* bound: requests under way
  Nothing       \* no points, or a request the API has not read the database for

VARIABLES
  now,      \* the clock, the same everywhere
  range,    \* timeRange of the page
  fetches,  \* requests under way, in the order sent: range, and when the database was read
  points,   \* the range and the time of the points held, Nothing if there are none
  loading,
  happened  \* since a range was picked with no request under way: "overlap" of
            \* requests, "overtaken" ones

chartVars == <<now, range, fetches, points, loading, happened>>

Ranges == {"24J", "7H", "30H"}
Times  == 30 * Day .. 30 * Day + Duration

ASSUME DayAssumption ==
  /\ Day \in Nat \ {0} /\ Duration \in Nat /\ MaxRequests \in Nat \ {0}
  /\ Nothing \notin Times

ChartInit ==
  /\ now \in 30 * Day .. 31 * Day - 1 /\ now \in Times
  /\ range = "24J" /\ fetches = <<[range |-> range, at |-> Nothing]>>
  /\ points = Nothing /\ loading = TRUE /\ happened = {}

-----------------------------------------------------------------------------
(* Ranges: of the page, of the API, and of the axis.                        *)

\* Mutant of RangeMap: what the head of useTelemetryHistory.ts says of 30H.
RangeMapAsNoted(r) == CASE r = "24J" -> "24h" [] r = "7H" -> "7d" [] r = "30H" -> "7d"

\* RANGE_MAP of the adapters.
RangeMap(r) == CASE r = "24J" -> "24h" [] r = "7H" -> "7d" [] r = "30H" -> "30d"

\* resolveRange of telemetryService: an unknown key is an hour.
Span(key) ==
  CASE key = "15m" -> Day \div 96 [] key = "6h" -> Day \div 4 [] key = "24h" -> Day
    [] key = "7d" -> 7 * Day [] key = "30d" -> 30 * Day [] OTHER -> Day \div 24

DayStart == now - (now % Day)

\* The lower end of xDomain; the upper one is the end of the day.
AxisStart ==
  DayStart - (CASE range = "24J" -> 0 [] range = "7H" -> 6 [] range = "30H" -> 29) * Day

-----------------------------------------------------------------------------
(* The hook and the page.                                                   *)

\* fetchHistory, up to the request.
Fetch(r, before) ==
  /\ range' = r /\ loading' = TRUE
  /\ fetches' = Append(before, [range |-> r, at |-> Nothing])

\* Another range is picked; the points stay until an answer comes.
Pick(r) ==
  /\ r # range /\ Len(fetches) < MaxRequests
  /\ Fetch(r, fetches)
  /\ happened' = IF fetches = <<>> THEN {} ELSE happened \union {"overlap"}
  /\ UNCHANGED <<now, points>>

\* The page is left and opened again; answers on their way change nothing.
Reopen ==
  /\ Fetch("24J", <<>>)
  /\ points' = Nothing /\ happened' = {}
  /\ UNCHANGED now

\* The i-th request comes to an end, whichever way.
Settle(i) ==
  /\ fetches' = RemoveAt(fetches, i) /\ loading' = FALSE
  /\ happened' = IF i > 1 THEN happened \union {"overtaken"} ELSE happened
  /\ UNCHANGED <<now, range>>

\* The answer is adapted for the range its request was made for.
Answer(i) ==
  /\ fetches[i].at # Nothing
  /\ points' = fetches[i]
  /\ Settle(i)

\* Mutant of PointsAfterError: what was there is kept.
PointsAfterErrorKept == points

PointsAfterError == Nothing

Fail(i) == points' = PointsAfterError /\ Settle(i)

-----------------------------------------------------------------------------
(* The API and the database.                                                *)

\* getTelemetryHistory: the query starts so far back from the time it runs.
Query(i) ==
  /\ fetches[i].at = Nothing
  /\ fetches' = [fetches EXCEPT ![i].at = now]
  /\ UNCHANGED <<now, range, points, loading, happened>>

Tick ==
  /\ now + 1 \in Times /\ now' = now + 1
  /\ UNCHANGED <<range, fetches, points, loading, happened>>

ChartNext ==
  \/ \E r \in Ranges : Pick(r)
  \/ \E i \in DOMAIN fetches : Query(i) \/ Answer(i) \/ Fail(i)
  \/ Reopen \/ Tick

ChartSpec == ChartInit /\ [][ChartNext]_chartVars

-----------------------------------------------------------------------------
(* Properties.                                                              *)

ChartTypeOK ==
  /\ now \in Times /\ range \in Ranges /\ loading \in BOOLEAN
  /\ fetches \in Seq([range : Ranges, at : Times \union {Nothing}])
  /\ points \in [range : Ranges, at : Times] \union {Nothing}

\* When all requests are through, the chart holds the readings of the range that
\* is picked, if none overtook an earlier one; and without its spinner nothing is
\* on its way, if there never were two requests at a time (useTelemetryHistory.ts).
ChartFollowsRange ==
  /\ ChartTypeOK
  /\ fetches = <<>> /\ "overtaken" \notin happened /\ points # Nothing => points.range = range
  /\ ~loading /\ "overlap" \notin happened => fetches = <<>>

\* A chart whose requests did not overlap holds every reading from the start of
\* its axis to the time it was loaded, even when the page stays open into other
\* days: the spans of the API cover the calendar days of the axis
\* (DeviceDetailPage.tsx:262-293, adapters.ts:76, telemetryService.js:1-26).
AxisIsCovered ==
  ~loading /\ points # Nothing /\ "overlap" \notin happened =>
    points.at - Span(RangeMap(points.range)) <= AxisStart
=============================================================================

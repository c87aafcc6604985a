------------------------------- MODULE Series -------------------------------
(***************************************************************************)
(* The observation series: what upstream publishes, what a poll parses,     *)
(* which rows an insert keeps, and what each reader makes of the table      *)
(* (noaa.rs, nasa.rs, iss.rs, starlink.rs, poller.rs and db.rs).            *)
(*                                                                         *)
(* Every feed has a table of its own and no insert reads another's, so a    *)
(* behaviour follows one feed. A poll and the write it fires are one step:  *)
(* the writer keeps the order of one feed's batches, so a late write leaves *)
(* what an earlier poll would have, and a poll that fails, or whose batch   *)
(* the full channel drops, is one that is not taken.                        *)
(***************************************************************************)
EXTENDS Integers, FiniteSets, FiniteSetsExt

CONSTANTS
  Feeds,         \* the feeds a behaviour may follow
  Missing,       \* the column is NULL
  Offered,       \* how far back a payload goes, in steps of the clock
  MaxAge,        \* max_age_secs of SERIES_FRESHNESS
  ReportWindow,  \* the longest range of the reports
  Keep,          \* keep_days of RETENTION
  ChartRows,     \* LIMIT of the chart queries
  NeoWindow,     \* how long ago an approach may have been seen that is still shown
  MaxNow,        \* bound: steps of the clock
  MaxPublished   \* bound: records upstream publishes or revises

ASSUME SeriesAssumption ==
  /\ {Offered, MaxAge, ReportWindow, Keep, ChartRows, NeoWindow, MaxNow, MaxPublished} \subseteq Nat
  /\ MaxAge < ChartRows /\ MaxAge <= ReportWindow /\ ReportWindow <= Keep /\ Offered <= Keep
  /\ Offered < ChartRows /\ 1 < ChartRows /\ 0 < NeoWindow

VARIABLES
  feed,       \* the feed of this behaviour
  now,        \* the clock
  upstream,   \* the records of the feed's file
  rows,       \* the table
  published   \* how many records were published or revised

vars == <<feed, now, upstream, rows, published>>

MultiSource == {"solar_wind", "imf"}
NOAA == {"kp", "kp_3h", "xray", "dst", "alerts"} \cup MultiSource
Catalogues == {"neo", "exoplanet", "starlink"}       \* keyed on a name and not on a time
FetchedAtFeeds == {"apod", "neo", "epic", "exoplanet"}
Checked == {"kp", "kp_3h", "solar_wind", "xray", "imf", "dst", "iss"} \cup FetchedAtFeeds
Purged == {"iss", "kp", "solar_wind", "imf", "xray", "dst", "kp_3h"}

ASSUME FeedsAssumption == Feeds \subseteq NOAA \cup Catalogues \cup {"iss", "apod", "epic"}

Unnamed == 0            \* the record names no source
Values == {"low", "high"}

\* How a field may read: a number, a NaN (of NOAA's files), a null, or neither a number
\* nor a null, or not there at all. Two spacecraft are told apart without a second value.
Forms(f) ==
  CASE f \in MultiSource -> {"low", "nan", "bad"}
    [] f \in NOAA -> Values \cup {"nan", "bad"}
    [] OTHER -> Values \cup {"null", "bad"}

SourcesOf(f) ==
  CASE f \in MultiSource -> {Unnamed, 1, 2}
    [] f \in {"xray", "epic"} -> {1, 2}   \* the energy band and satellite, the image
    [] OTHER -> {1}

\* at: the time tag, date or name. val: the measurement. active: NOAA vouches for the
\* source; feeds without the flag have it set.
Records(f) ==
  {r \in [at : 0..MaxNow, src : SourcesOf(f), val : Forms(f),
          active : IF f \in MultiSource THEN BOOLEAN ELSE {TRUE}] :
     r.src = Unnamed => r.val = "low" /\ ~r.active}

Rows(f) ==
  [at : 0..MaxNow, src : SourcesOf(f) \ {Unnamed}, val : Values \cup {Missing},
   active : BOOLEAN, seen : 0..MaxNow]

TypeOK ==
  /\ feed \in Feeds /\ now \in 0..MaxNow
  /\ upstream \subseteq Records(feed) /\ rows \subseteq Rows(feed)
  /\ published \in 0..MaxPublished

Init ==
  /\ feed \in Feeds /\ now = 0
  /\ upstream = {} /\ rows = {} /\ published = 0

Key(r) == <<r.at, r.src>>
At(S) == {r.at : r \in S}

-----------------------------------------------------------------------------
(* Upstream *)

\* The part of the file that is still offered.
Window == {r \in upstream : feed \in Catalogues \/ r.at >= now - Offered}

Publish ==
  /\ published < MaxPublished
  /\ \E r \in Records(feed) :
       /\ r.at \in (IF feed \in Catalogues THEN 0..1 ELSE {t \in 0..now : t >= now - Offered})
       /\ r \notin upstream
       /\ upstream' = {q \in Window : Key(q) # Key(r)} \cup {r}
  /\ published' = published + 1
  /\ UNCHANGED <<feed, now, rows>>

\* A satellite decays, an approach or a planet is taken out of the list.
Withdraw ==
  /\ feed \in Catalogues /\ published < MaxPublished
  /\ \E r \in upstream : upstream' = upstream \ {r}
  /\ published' = published + 1
  /\ UNCHANGED <<feed, now, rows>>

-----------------------------------------------------------------------------
(* Parsing: the rows of a payload. A payload that is refused as a whole       *)
(* yields none, and so does an answer that says nothing has changed.          *)

Good(r) == r.val \in Values

AsRow(r) ==
  [at |-> r.at, src |-> r.src, val |-> IF Good(r) THEN r.val ELSE Missing,
   active |-> r.active, seen |-> IF feed \in FetchedAtFeeds THEN now ELSE 0]

AsRows(S) == {AsRow(r) : r \in S}

\* A NaN becomes a null, so that the rest of the file parses.
Readable == {[r EXCEPT !.val = IF @ = "nan" THEN "null" ELSE @] : r \in Window}

\* Kp, three hour Kp, X-ray and alerts: a record that does not parse is dropped alone.
RecordList == AsRows({r \in Readable : Good(r)})

\* A sample that is missing or no number is an absent one; the source is required.
SolarWindRows == IF Unnamed \in {r.src : r \in Readable} THEN {} ELSE AsRows(Readable)

\* A null is an absent sample, and a field that is gone or no number an error.
ImfRows ==
  IF \E r \in Readable : r.src = Unnamed \/ r.val = "bad" THEN {} ELSE AsRows(Readable)

DstRows == AsRows(Readable)

\* A triplet whose lines are not those of a TLE is skipped.
StarlinkRows == AsRows({r \in Window : Good(r)})

\* apod, neo, epic, exoplanet and iss: one bad field and the payload does not parse.
\* The orbit, the radius and the mass of a planet may be null.
TypedRows ==
  IF \A r \in Window : Good(r) \/ (feed = "exoplanet" /\ r.val = "null")
    THEN AsRows(Window)
    ELSE {}

Parsed ==
  CASE feed \in {"kp", "kp_3h", "xray", "alerts"} -> RecordList
    [] feed = "solar_wind" -> SolarWindRows
    [] feed = "imf" -> ImfRows
    [] feed = "dst" -> DstRows
    [] feed = "starlink" -> StarlinkRows
    [] OTHER -> TypedRows

-----------------------------------------------------------------------------
(* Inserts: the table after a batch                                          *)

Same(r, q) == Key(r) = Key(q)

Fresh(batch) == {r \in batch : \A q \in rows : ~Same(q, r)}

Newer(batch) == {r \in batch : \A q \in rows : q.at < r.at}

Upserted(batch) == {q \in rows : \A r \in batch : ~Same(r, q)} \cup batch

\* Every minute up to the newest stored one is filtered out before the upsert.
InsertKp(batch) == rows \cup Newer(batch)
InsertXray(batch) == rows \cup Newer(batch)

\* Mutant of InsertKp3h and InsertDst: the filter they once had.
OnlyNewer(batch) == rows \cup Newer(batch)

InsertKp3h(batch) == Upserted(batch)
InsertDst(batch) == Upserted(batch)

Replaces(r, q) == Same(r, q) /\ r.active /\ ~q.active

\* Mutant of InsertSolarWind and InsertImf: the newest word stands.
LastWordStands(batch) == Upserted(batch)

\* A reading is replaced only by one that NOAA vouches for, and only while it is not
\* vouched for itself.
InsertSolarWind(batch) ==
  {q \in rows : \A r \in batch : ~Replaces(r, q)}
    \cup {r \in batch : \A q \in rows : Same(r, q) => Replaces(r, q)}

InsertImf(batch) ==
  {q \in rows : \A r \in batch : ~Replaces(r, q)}
    \cup {r \in batch : \A q \in rows : Same(r, q) => Replaces(r, q)}

InsertAlerts(batch) == rows \cup Fresh(batch)
InsertIss(batch) == rows \cup Fresh(batch)

\* A known row is marked as seen again, and keeps what it says.
Touched(batch) ==
  {IF \E r \in batch : Same(r, q) THEN [q EXCEPT !.seen = now] ELSE q : q \in rows}
    \cup Fresh(batch)

InsertApod(batch) == Touched(batch)
InsertEpic(batch) == Touched(batch)
InsertNeo(batch) == Touched(batch)
InsertExoplanet(batch) == Touched(batch)

\* The table becomes the batch, unless the batch is empty.
InsertStarlink(batch) == IF batch = {} THEN rows ELSE batch

Inserted(batch) ==
  CASE feed = "kp" -> InsertKp(batch)
    [] feed = "xray" -> InsertXray(batch)
    [] feed = "kp_3h" -> InsertKp3h(batch)
    [] feed = "dst" -> InsertDst(batch)
    [] feed = "solar_wind" -> InsertSolarWind(batch)
    [] feed = "imf" -> InsertImf(batch)
    [] feed = "alerts" -> InsertAlerts(batch)
    [] feed = "iss" -> InsertIss(batch)
    [] feed = "apod" -> InsertApod(batch)
    [] feed = "epic" -> InsertEpic(batch)
    [] feed = "neo" -> InsertNeo(batch)
    [] feed = "exoplanet" -> InsertExoplanet(batch)
    [] feed = "starlink" -> InsertStarlink(batch)

Poll ==
  /\ rows' = Inserted(Parsed)
  /\ UNCHANGED <<feed, now, upstream, published>>

Purge ==
  /\ feed \in Purged
  /\ rows' = {r \in rows : r.at >= now - Keep}
  /\ UNCHANGED <<feed, now, upstream, published>>

Tick ==
  /\ now < MaxNow
  /\ now' = now + 1
  /\ UNCHANGED <<feed, upstream, rows, published>>

Next == Publish \/ Withdraw \/ Poll \/ Purge \/ Tick

Spec == Init /\ [][Next]_vars

\* poll_*: a feed is polled for ever, with retries, and the writer makes room.
FairSpec == Spec /\ WF_vars(Poll)

-----------------------------------------------------------------------------
(* Readers                                                                   *)

\* Mutant of Outranks: the sources in their order, vouched for or not.
ByNameOnly(r, q) == r.src < q.src

\* Of two rows for one minute the active one goes first, then the one of the first name.
Outranks(r, q) == (r.active /\ ~q.active) \/ (r.active = q.active /\ r.src < q.src)

\* One row per minute, for the feeds with more than one source.
OneRowPerMinute(S) ==
  IF feed \in MultiSource
    THEN {r \in S : ~\E q \in S : q.at = r.at /\ Outranks(q, r)}
    ELSE S

Displayed == OneRowPerMinute(rows)
Decided == OneRowPerMinute({r \in rows : r.active})

\* The rows with fewer than n later ones.
Newest(S, n) == {r \in S : Cardinality({q \in S : q.at > r.at}) < n}

Known(S) == {r \in S : r.val # Missing}

\* When the series was last observed: for the feeds of more than one source by an active
\* row, for NASA's by the poll that saw it; -1 for an empty table.
NewestObservation ==
  Max({-1} \cup {IF feed \in FetchedAtFeeds THEN r.seen ELSE r.at : r \in {q \in rows : q.active}})

SeriesIsCurrent == feed \in Checked /\ NewestObservation >= 0 /\ now - NewestObservation <= MaxAge

SeriesHealth ==
  IF NewestObservation < 0 THEN "unknown"
  ELSE IF now - NewestObservation > MaxAge THEN "degraded" ELSE "operational"

\* The charts of kp, kp_3h, solar_wind, xray, imf and dst.
Chart == IF SeriesIsCurrent THEN Newest(Displayed, ChartRows) ELSE {}

IssLatest == IF SeriesIsCurrent THEN Newest(rows, 1) ELSE {}
AlertsRecent == Newest(rows, ChartRows)

\* The picture of the newest date, and the images of the newest date.
NasaLatest == Newest(rows, 1)

\* The approaches some recent file named, whether or not the last one still does.
NeoRecent == {r \in rows : r.seen > now - NeoWindow}

\* What a signed in reader of the feed is shown.
Served ==
  CASE feed = "iss" -> IssLatest
    [] feed = "alerts" -> AlertsRecent
    [] feed \in {"apod", "epic"} -> NasaLatest
    [] feed = "neo" -> NeoRecent
    [] feed \in {"exoplanet", "starlink"} -> rows
    [] OTHER -> Chart

\* What anybody is shown: the tail of the Kp chart, and the newest wind speed of any age.
PublicKp == IF feed = "kp" /\ SeriesIsCurrent THEN Newest(rows, 1) ELSE {}
PublicSolarWind == IF feed = "solar_wind" THEN Newest(Known(Displayed), 1) ELSE {}

LatestKpRaw == Newest(rows, 1)
LatestSolarWindSpeedRaw == Newest(Known(Decided), 1)

\* Mutant of ReadingIsCurrent: the age is not asked, as before AUD-028.
OfAnyAge(r) == TRUE

ReadingIsCurrent(r) == now - r.at <= MaxAge

\* The readings the mail of the alerts quotes.
AlertLines ==
  {r \in CASE feed = "kp" -> LatestKpRaw
           [] feed = "solar_wind" -> LatestSolarWindSpeedRaw
           [] OTHER -> {} : ReadingIsCurrent(r)}

\* The model's input: the newest n periods, or an error.
RecentKp3h(n) ==
  IF feed = "kp_3h" /\ SeriesIsCurrent /\ Cardinality(rows) >= n THEN Newest(rows, n) ELSE {}

\* What a summary over the last w steps is computed from, and what an export lists.
ReportSummary(w) == {r \in Known(Decided) : r.at > now - w}
ReportCsv(w) == {r \in Displayed : r.at > now - w}

\* The averages of the report's charts.
RangeOf(w) == {r \in Known(Displayed) : r.at > now - w}

-----------------------------------------------------------------------------
(* Properties                                                                *)

\* What is mailed, what the model is fed and what the public Kp page shows is on the chart
\* at that moment, the status page calls the series operational, and the public wind speed
\* is no older than the one mailed: each makes a query of its own, over minutes with two
\* sources, with no vouched source and with no value.
ActedOnIsShown ==
  /\ \A r \in AlertLines \cup RecentKp3h(2) : r \in Chart /\ SeriesHealth = "operational"
  /\ PublicKp \subseteq Chart
  /\ \A a \in AlertLines, r \in PublicSolarWind : r.at >= a.at

\* A report is computed from rows that its export lists and its chart averages: the
\* summary takes the active rows of a minute and the export the best, and the best is
\* the active one.
ReportsMatchTheExport ==
  \A w \in 1..ReportWindow : ReportSummary(w) \subseteq ReportCsv(w) \cap RangeOf(w)

\* A reading of an active source is never lost to a later one, of whatever source, value
\* or flag, and leaves only with its age.
ActiveNeverDemoted ==
  [][\A r \in rows :
       feed \in MultiSource /\ r.active => r \in rows' \/ r.at < now - Keep]_vars

\* The records of the file that parse, unless one beside them makes the feed refuse it.
Deliverable ==
  {r \in Window : Good(r) /\ \A q \in Window :
     /\ q.src # Unnamed
     /\ feed \in {"imf", "exoplanet"} => q.val # "bad"
     /\ feed \in {"neo", "epic", "apod", "iss"} => Good(q)}

\* Readers are shown what upstream says, as far as the insert of the feed lets them: the
\* value for the series that are revised, a vouched reading for those with two sources,
\* the same satellites, and for the others the record or a newer one.
Agrees ==
  CASE feed \in {"kp_3h", "dst"} ->
         \A r \in Deliverable : \E q \in Served : Same(q, r) /\ q.val = r.val
    [] feed = "starlink" ->
         Deliverable # {} => Served = {AsRow(r) : r \in Deliverable}
    [] feed \in MultiSource ->
         \A r \in {d \in Deliverable : d.active} : \E q \in Served : q.at = r.at /\ q.active
    [] feed \in {"alerts", "neo", "exoplanet"} ->
         \A r \in Deliverable : \E q \in Served : Same(q, r)
    [] OTHER -> \A r \in Deliverable : \E q \in Served : q.at >= r.at

\* When upstream has stopped revising, readers come to see what it says and go on seeing
\* it, whatever was revised, withdrawn or unreadable before, and however polls, purges and
\* the clock fell in between.
Converges == <>[]Agrees

\* The comment in insert_xray_batch: a revision of a reading is stored. Refuted by the
\* filter on the newest time tag in front of the upsert.
RevisionsAreStored ==
  [][Poll /\ feed = "xray" => Parsed \subseteq rows']_vars
=============================================================================

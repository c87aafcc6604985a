-------------------------- MODULE ObservationProofs --------------------------
(***************************************************************************)
(* Proofs about the observation series and the forecast, for any feeds,     *)
(* windows, horizons and limits.                                            *)
(*                                                                         *)
(* Of a series: whatever was published, revised and polled, a table holds   *)
(* one row per time tag and source, none of them ahead of the clock. Of the *)
(* forecast: how old readings may be at each step they pass, from the read  *)
(* under the lock to the answer, the queue, the table and the cache.        *)
(***************************************************************************)
EXTENDS MCObservations, FiniteSetTheorems, SequenceTheorems, WellFoundedInduction, TLAPS

\* A finite set of numbers that is not empty has a greatest one, and Max is it.
LEMMA MaxOf ==
  ASSUME NEW S \in SUBSET Int, IsFiniteSet(S), S # {}
  PROVE  Max(S) \in S /\ \A x \in S : x <= Max(S)
<1> DEFINE Up(b) == {x \in S : b <= x}
           T == {Up(b) : b \in S}
<1>1. T \subseteq FiniteSubsetsOf(S) /\ T # {}
  <2>1. \A b \in S : Up(b) \subseteq S /\ IsFiniteSet(Up(b))
    BY FS_Subset
  <2>2. \A B \in T : B \in FiniteSubsetsOf(S)
    BY <2>1, Zenon DEF FiniteSubsetsOf
  <2>3. PICK b \in S : TRUE
    OBVIOUS
  <2>4. Up(b) \in T
    OBVIOUS
  <2>5. QED
    BY <2>2, <2>4
<1>2. IsWellFoundedOn(StrictSubsetOrdering(S), FiniteSubsetsOf(S))
  BY FS_StrictSubsetOrderingWellFounded
<1> HIDE DEF T
<1>3. PICK A \in T : \A B \in T : ~(<<B, A>> \in StrictSubsetOrdering(S))
  BY <1>1, <1>2, WFMin
<1>4. PICK b \in S : A = Up(b)
  BY DEF T
<1>5. ASSUME NEW y \in S, ~(y <= b) PROVE FALSE
  <2>1. \A x \in S : y <= x => b <= x
    BY <1>5
  <2>2. /\ A \subseteq S /\ Up(y) \subseteq S /\ Up(y) \subseteq A
        /\ b \in A /\ b \notin Up(y)
    <3>1. A \subseteq S /\ Up(y) \subseteq S
      BY <1>4
    <3>2. Up(y) \subseteq A
      BY <1>4, <2>1
    <3>3. b \in A
      BY <1>4
    <3>4. b \notin Up(y)
      BY <1>5
    <3>5. QED
      BY <3>1, <3>2, <3>3, <3>4
  <2>3. Up(y) \in T
    BY DEF T
  <2>4. <<Up(y), A>> \in StrictSubsetOrdering(S)
    BY <2>2 DEF StrictSubsetOrdering
  <2>5. QED
    BY <1>3, <2>3, <2>4
<1>6. \A y \in S : b >= y
  BY <1>5
<1>7. Max(S) \in S /\ \A y \in S : Max(S) >= y
  BY <1>6, Zenon DEF Max
<1>8. QED
  BY <1>7

LEMMA Constants ==
  /\ Offered \in Nat /\ MaxAge \in Nat /\ ReportWindow \in Nat /\ Keep \in Nat
  /\ ChartRows \in Nat /\ NeoWindow \in Nat /\ MaxNow \in Nat /\ MaxPublished \in Nat
  /\ MaxAge < ChartRows /\ 1 < ChartRows
BY SeriesAssumption

-----------------------------------------------------------------------------
(* The series *)

\* Rows as a table or a batch may hold them.
RowsFit(S) ==
  /\ S \subseteq Rows(feed)
  /\ \A q, r \in S : Same(q, r) => q = r
  /\ feed \notin Catalogues => \A r \in S : r.at <= now
  /\ feed \notin MultiSource => \A r \in S : r.active

FileFits ==
  /\ \A q, r \in upstream : Same(q, r) => q = r
  /\ feed \notin Catalogues => \A r \in upstream : r.at <= now

SeriesInv == TypeOK /\ FileFits /\ RowsFit(rows)

\* Records of the file, whose values may have been rewritten.
FromFile(S) ==
  /\ \A r \in S : \E q \in upstream : r.at = q.at /\ r.src = q.src /\ r.active = q.active
  /\ \A q, r \in S : Same(q, r) => q = r

LEMMA RowsFromFile ==
  ASSUME SeriesInv, NEW S, FromFile(S), \A r \in S : r.src # Unnamed
  PROVE  RowsFit(AsRows(S))
<1>1. ASSUME NEW r \in S
      PROVE  /\ AsRow(r) \in Rows(feed)
             /\ AsRow(r).at = r.at /\ AsRow(r).src = r.src
             /\ feed \notin Catalogues => AsRow(r).at <= now
             /\ feed \notin MultiSource => AsRow(r).active
  <2>1. PICK q \in upstream : r.at = q.at /\ r.src = q.src /\ r.active = q.active
    BY DEF FromFile
  <2>2. q \in Records(feed)
    BY DEF SeriesInv, TypeOK
  <2>3. /\ q.at \in 0..MaxNow /\ q.src \in SourcesOf(feed)
        /\ q.active \in IF feed \in MultiSource THEN BOOLEAN ELSE {TRUE}
    BY <2>2 DEF Records
  <2>4. now \in 0..MaxNow
    BY DEF SeriesInv, TypeOK
  <2>5. (IF Good(r) THEN r.val ELSE Missing) \in Values \cup {Missing}
    BY DEF Good
  <2>6. (IF feed \in FetchedAtFeeds THEN now ELSE 0) \in 0..MaxNow
    BY <2>4, Constants
  <2>7. feed \notin Catalogues => q.at <= now
    BY DEF SeriesInv, FileFits
  <2>8. AsRow(r) \in Rows(feed)
    BY <2>1, <2>3, <2>5, <2>6 DEF AsRow, Rows
  <2>9. AsRow(r).at = r.at /\ AsRow(r).src = r.src /\ AsRow(r).active = r.active
    BY DEF AsRow
  <2>10. QED
    BY <2>1, <2>3, <2>7, <2>8, <2>9
<1>2. ASSUME NEW x \in AsRows(S), NEW y \in AsRows(S), Same(x, y) PROVE x = y
  <2>1. PICK q \in S, r \in S : x = AsRow(q) /\ y = AsRow(r)
    BY DEF AsRows
  <2>2. Same(q, r)
    BY <1>1, <1>2, <2>1 DEF Same, Key
  <2>3. QED
    BY <2>1, <2>2 DEF FromFile
<1>3. QED
  BY <1>1, <1>2 DEF RowsFit, AsRows

LEMMA FileWindow == ASSUME SeriesInv PROVE FromFile(Window)
<1>1. Window \subseteq upstream
  BY DEF Window
<1>2. QED
  BY <1>1 DEF FromFile, SeriesInv, FileFits

LEMMA FileReadable == ASSUME SeriesInv PROVE FromFile(Readable)
<1> DEFINE Read(r) == [r EXCEPT !.val = IF @ = "nan" THEN "null" ELSE @]
<1>1. Window \subseteq upstream /\ Window \subseteq Records(feed)
  BY DEF Window, SeriesInv, TypeOK
<1>2. \A r \in Window : Read(r).at = r.at /\ Read(r).src = r.src /\ Read(r).active = r.active
  BY <1>1 DEF Records
<1>3. Readable = {Read(r) : r \in Window}
  BY DEF Readable
<1> HIDE DEF Read
<1>4. ASSUME NEW x \in Readable, NEW y \in Readable, Same(x, y) PROVE x = y
  <2>1. PICK q \in Window, r \in Window : x = Read(q) /\ y = Read(r)
    BY <1>3
  <2>2. Same(q, r)
    BY <1>2, <1>4, <2>1 DEF Same, Key
  <2>3. QED
    BY <1>1, <2>1, <2>2 DEF SeriesInv, FileFits
<1>5. QED
  BY <1>1, <1>2, <1>3, <1>4 DEF FromFile

LEMMA FileSubset == ASSUME NEW S, FromFile(S), NEW T, T \subseteq S PROVE FromFile(T)
BY DEF FromFile

\* Only the feeds of more than one source name none.
LEMMA SourcesNamed ==
  ASSUME SeriesInv, feed \notin MultiSource, NEW S, FromFile(S)
  PROVE  \A r \in S : r.src # Unnamed
<1>1. \A r \in upstream : r.src \in SourcesOf(feed)
  BY DEF SeriesInv, TypeOK, Records
<1>2. Unnamed \notin SourcesOf(feed)
  BY DEF SourcesOf, Unnamed
<1>3. QED
  BY <1>1, <1>2 DEF FromFile

LEMMA NoRowsFit == RowsFit({})
BY DEF RowsFit

LEMMA ParsedFits == ASSUME SeriesInv PROVE RowsFit(Parsed)
<1>1. FromFile(Readable) /\ FromFile(Window)
  BY FileReadable, FileWindow
<1>2. CASE feed \in {"kp", "kp_3h", "xray", "alerts"}
  <2>1. FromFile({r \in Readable : Good(r)}) /\ feed \notin MultiSource
    BY <1>1, <1>2, FileSubset DEF MultiSource
  <2>2. RowsFit(RecordList)
    BY <2>1, SourcesNamed, RowsFromFile DEF RecordList
  <2>3. QED
    BY <1>2, <2>2 DEF Parsed
<1>3. CASE feed = "solar_wind"
  <2>1. RowsFit(SolarWindRows)
    BY <1>1, RowsFromFile, NoRowsFit DEF SolarWindRows
  <2>2. QED
    BY <1>3, <2>1 DEF Parsed
<1>4. CASE feed = "imf"
  <2>1. RowsFit(ImfRows)
    BY <1>1, RowsFromFile, NoRowsFit DEF ImfRows
  <2>2. QED
    BY <1>4, <2>1 DEF Parsed
<1>5. CASE feed = "dst"
  <2>1. RowsFit(DstRows)
    BY <1>1, <1>5, SourcesNamed, RowsFromFile DEF DstRows, MultiSource
  <2>2. QED
    BY <1>5, <2>1 DEF Parsed
<1>6. CASE feed = "starlink"
  <2>1. FromFile({r \in Window : Good(r)}) /\ feed \notin MultiSource
    BY <1>1, <1>6, FileSubset DEF MultiSource
  <2>2. RowsFit(StarlinkRows)
    BY <2>1, SourcesNamed, RowsFromFile DEF StarlinkRows
  <2>3. QED
    BY <1>6, <2>2 DEF Parsed
<1>7. CASE feed \notin {"kp", "kp_3h", "xray", "alerts", "solar_wind", "imf", "dst", "starlink"}
  <2>1. RowsFit(TypedRows)
    BY <1>1, <1>7, SourcesNamed, RowsFromFile, NoRowsFit DEF TypedRows, MultiSource
  <2>2. QED
    BY <1>7, <2>1 DEF Parsed
<1>8. QED
  BY <1>2, <1>3, <1>4, <1>5, <1>6, <1>7

\* Every insert keeps one row per key.
LEMMA InsertsFit ==
  ASSUME RowsFit(rows), NEW B, RowsFit(B), now \in 0..MaxNow
  PROVE  /\ RowsFit(rows \cup Newer(B))
         /\ RowsFit(rows \cup Fresh(B))
         /\ RowsFit(Upserted(B))
         /\ RowsFit({q \in rows : \A r \in B : ~Replaces(r, q)}
                      \cup {r \in B : \A q \in rows : Same(r, q) => Replaces(r, q)})
         /\ RowsFit(Touched(B))
<1>1. \A q, r : Same(q, r) <=> Same(r, q)
  BY DEF Same
<1>2. ASSUME NEW C, C \subseteq rows \cup B,
             \A q \in C \cap rows, r \in C \cap B : Same(q, r) => q = r
      PROVE  RowsFit(C)
  <2>1. \A q, r \in C : Same(q, r) => q = r
    BY <1>1, <1>2 DEF RowsFit
  <2>2. QED
    BY <1>2, <2>1 DEF RowsFit
<1>3. \A q, r : Same(q, r) => q.at = r.at /\ q.src = r.src
  BY DEF Same, Key
<1>4. RowsFit(rows \cup Fresh(B))
  <2>1. \A q \in (rows \cup Fresh(B)) \cap rows, r \in (rows \cup Fresh(B)) \cap B : Same(q, r) => q = r
    BY DEF Fresh, RowsFit
  <2>2. QED
    BY <1>2, <2>1 DEF Fresh
<1>5. RowsFit(rows \cup Newer(B))
  <2>1. \A r \in Newer(B), q \in rows : ~Same(q, r)
    <3> SUFFICES ASSUME NEW r \in Newer(B), NEW q \in rows, Same(q, r) PROVE FALSE
      OBVIOUS
    <3>1. q.at < r.at /\ q.at = r.at
      BY <1>3 DEF Newer
    <3>2. q.at \in Nat
      BY DEF RowsFit, Rows
    <3>3. QED
      BY <3>1, <3>2
  <2>2. \A q \in (rows \cup Newer(B)) \cap rows, r \in (rows \cup Newer(B)) \cap B : Same(q, r) => q = r
    BY <2>1 DEF Newer, RowsFit
  <2>3. QED
    BY <1>2, <2>2 DEF Newer
<1>6. RowsFit(Upserted(B))
  <2>1. \A q \in Upserted(B) \cap rows, r \in Upserted(B) \cap B : Same(q, r) => q = r
    BY <1>1 DEF Upserted, RowsFit
  <2>2. QED
    BY <1>2, <2>1 DEF Upserted
<1>7. RowsFit({q \in rows : \A r \in B : ~Replaces(r, q)}
                \cup {r \in B : \A q \in rows : Same(r, q) => Replaces(r, q)})
  <2> DEFINE C == {q \in rows : \A r \in B : ~Replaces(r, q)}
                    \cup {r \in B : \A q \in rows : Same(r, q) => Replaces(r, q)}
  <2>1. ASSUME NEW q \in C \cap rows, NEW r \in C \cap B, Same(q, r) PROVE q = r
    <3>1. CASE \A s \in B : ~Replaces(s, q)
      <4>1. ~Replaces(r, q)
        BY <3>1
      <4>2. r \in rows
        BY <1>1, <2>1, <4>1
      <4>3. QED
        BY <2>1, <4>2 DEF RowsFit
    <3>2. CASE q \in B
      BY <2>1, <3>2 DEF RowsFit
    <3>3. QED
      BY <3>1, <3>2
  <2>2. C \subseteq rows \cup B
    OBVIOUS
  <2> HIDE DEF C
  <2>3. RowsFit(C)
    BY <1>2, <2>1, <2>2
  <2>4. QED
    BY <2>3 DEF C
<1>8. RowsFit(Touched(B))
  <2> DEFINE Seen(q) == IF \E r \in B : Same(r, q) THEN [q EXCEPT !.seen = now] ELSE q
  <2>1. ASSUME NEW q \in rows
        PROVE  /\ Seen(q) \in Rows(feed)
               /\ Seen(q).at = q.at /\ Seen(q).src = q.src /\ Seen(q).active = q.active
    <3>1. q \in Rows(feed)
      BY DEF RowsFit
    <3>2. QED
      BY <3>1 DEF Rows
  <2>2. Touched(B) = {Seen(q) : q \in rows} \cup Fresh(B)
    BY DEF Touched
  <2> HIDE DEF Seen
  <2>3. ASSUME NEW x \in Touched(B)
        PROVE  /\ x \in Rows(feed)
               /\ feed \notin Catalogues => x.at <= now
               /\ feed \notin MultiSource => x.active
    <3>1. CASE x \in Fresh(B)
      BY <3>1 DEF Fresh, RowsFit
    <3>2. CASE x \in {Seen(q) : q \in rows}
      BY <2>1, <3>2 DEF RowsFit
    <3>3. QED
      BY <2>2, <3>1, <3>2
  <2>4. ASSUME NEW x \in Touched(B), NEW y \in Touched(B), Same(x, y) PROVE x = y
    <3>1. ASSUME NEW q \in rows, NEW r \in Fresh(B), Same(Seen(q), r) \/ Same(r, Seen(q)) PROVE FALSE
      <4>1. Same(q, r)
        BY <1>1, <2>1, <3>1 DEF Same, Key
      <4>2. QED
        BY <4>1 DEF Fresh
    <3>2. ASSUME NEW q \in rows, NEW r \in rows, Same(Seen(q), Seen(r)) PROVE q = r
      <4>1. Same(q, r)
        BY <2>1, <3>2 DEF Same, Key
      <4>2. QED
        BY <4>1 DEF RowsFit
    <3>3. ASSUME NEW q \in Fresh(B), NEW r \in Fresh(B), Same(q, r) PROVE q = r
      BY <3>3 DEF Fresh, RowsFit
    <3>4. QED
      BY <2>2, <2>4, <3>1, <3>2, <3>3
  <2>5. QED
    BY <2>3, <2>4 DEF RowsFit
<1>9. QED
  BY <1>4, <1>5, <1>6, <1>7, <1>8

\* A poll's batch is inserted the way of its feed.
LEMMA InsertedFits == ASSUME SeriesInv, NEW B, RowsFit(B) PROVE RowsFit(Inserted(B))
<1>1. RowsFit(rows) /\ now \in 0..MaxNow /\ feed \in Feeds
  BY DEF SeriesInv, TypeOK
<1>2. /\ RowsFit(InsertKp(B)) /\ RowsFit(InsertXray(B)) /\ RowsFit(InsertAlerts(B))
      /\ RowsFit(InsertIss(B)) /\ RowsFit(InsertKp3h(B)) /\ RowsFit(InsertDst(B))
  BY <1>1, InsertsFit DEF InsertKp, InsertXray, InsertAlerts, InsertIss, InsertKp3h, InsertDst
<1>3. /\ RowsFit(InsertSolarWind(B)) /\ RowsFit(InsertImf(B))
  BY <1>1, InsertsFit DEF InsertSolarWind, InsertImf
<1>4. /\ RowsFit(InsertApod(B)) /\ RowsFit(InsertEpic(B)) /\ RowsFit(InsertNeo(B))
      /\ RowsFit(InsertExoplanet(B))
  BY <1>1, InsertsFit DEF InsertApod, InsertEpic, InsertNeo, InsertExoplanet
<1>5. RowsFit(InsertStarlink(B))
  BY <1>1 DEF InsertStarlink
<1>6. feed \in {"kp", "xray", "kp_3h", "dst", "solar_wind", "imf", "alerts", "iss", "apod", "epic",
                "neo", "exoplanet", "starlink"}
  BY <1>1, FeedsAssumption DEF NOAA, Catalogues, MultiSource
<1> HIDE DEF RowsFit
<1>7. CASE feed \in {"kp", "xray", "kp_3h", "dst"}
  BY <1>2, <1>7 DEF Inserted
<1>8. CASE feed \in {"solar_wind", "imf"}
  BY <1>3, <1>8 DEF Inserted
<1>9. CASE feed \in {"alerts", "iss"}
  BY <1>2, <1>9 DEF Inserted
<1>10. CASE feed \in {"apod", "epic", "neo", "exoplanet"}
  BY <1>4, <1>10 DEF Inserted
<1>11. CASE feed = "starlink"
  BY <1>5, <1>11 DEF Inserted
<1>12. QED
  BY <1>6, <1>7, <1>8, <1>9, <1>10, <1>11

LEMMA SeriesInit == Init => SeriesInv
BY Constants DEF Init, SeriesInv, TypeOK, FileFits, RowsFit

LEMMA SeriesStep == SeriesInv /\ [Next]_vars => SeriesInv'
<1> SUFFICES ASSUME SeriesInv, [Next]_vars PROVE SeriesInv'
  OBVIOUS
<1> USE Constants
<1>1. /\ feed \in Feeds /\ now \in 0..MaxNow /\ upstream \subseteq Records(feed)
      /\ rows \subseteq Rows(feed) /\ published \in 0..MaxPublished /\ FileFits /\ RowsFit(rows)
  BY DEF SeriesInv, TypeOK
<1>2. CASE Publish
  <2>1. PICK r \in Records(feed) :
          /\ r.at \in (IF feed \in Catalogues THEN 0..1 ELSE {t \in 0..now : t >= now - Offered})
          /\ upstream' = {q \in Window : Key(q) # Key(r)} \cup {r}
    BY <1>2 DEF Publish
  <2>2. UNCHANGED <<feed, now, rows>> /\ published' \in 0..MaxPublished
    BY <1>1, <1>2 DEF Publish
  <2>3. Window \subseteq upstream
    BY DEF Window
  <2>4. FileFits'
    <3>1. \A p, q \in upstream' : Same(p, q) => p = q
      BY <1>1, <2>1, <2>3 DEF FileFits, Same
    <3>2. feed \notin Catalogues => \A q \in upstream' : q.at <= now
      BY <1>1, <2>1, <2>3 DEF FileFits
    <3>3. QED
      BY <2>2, <3>1, <3>2 DEF FileFits
  <2>5. upstream' \subseteq Records(feed)
    BY <1>1, <2>1, <2>3
  <2>6. RowsFit(rows)'
    BY <1>1, <2>2 DEF RowsFit
  <2>7. QED
    BY <1>1, <2>2, <2>4, <2>5, <2>6 DEF SeriesInv, TypeOK
<1>3. CASE Withdraw
  <2>1. upstream' \subseteq upstream /\ UNCHANGED <<feed, now, rows>> /\ published' \in 0..MaxPublished
    BY <1>1, <1>3 DEF Withdraw
  <2>2. FileFits' /\ RowsFit(rows)'
    BY <1>1, <2>1 DEF FileFits, RowsFit
  <2>3. QED
    BY <1>1, <2>1, <2>2 DEF SeriesInv, TypeOK
<1>4. CASE Poll
  <2>1. rows' = Inserted(Parsed) /\ UNCHANGED <<feed, now, upstream, published>>
    BY <1>4 DEF Poll
  <2>2. RowsFit(Inserted(Parsed))
    BY ParsedFits, InsertedFits
  <2>3. RowsFit(rows)' /\ rows' \subseteq Rows(feed)
    BY <2>1, <2>2 DEF RowsFit
  <2>4. FileFits'
    BY <1>1, <2>1 DEF FileFits
  <2>5. QED
    BY <1>1, <2>1, <2>3, <2>4 DEF SeriesInv, TypeOK
<1>5. CASE Purge
  <2>1. rows' \subseteq rows /\ UNCHANGED <<feed, now, upstream, published>>
    BY <1>5 DEF Purge
  <2>2. FileFits' /\ RowsFit(rows)'
    BY <1>1, <2>1 DEF FileFits, RowsFit
  <2>3. QED
    BY <1>1, <2>1, <2>2 DEF SeriesInv, TypeOK
<1>6. CASE Tick
  <2>1. now' = now + 1 /\ now' \in 0..MaxNow /\ UNCHANGED <<feed, upstream, rows, published>>
    BY <1>1, <1>6 DEF Tick
  <2>2. /\ \A r \in rows : r.at \in 0..MaxNow
        /\ \A r \in upstream : r.at \in 0..MaxNow
    <3>1. \A r \in Records(feed) : r.at \in 0..MaxNow
      BY DEF Records
    <3>2. \A r \in Rows(feed) : r.at \in 0..MaxNow
      BY DEF Rows
    <3>3. QED
      BY <1>1, <3>1, <3>2
  <2>3. RowsFit(rows)'
    BY <1>1, <2>1, <2>2 DEF RowsFit
  <2>4. FileFits'
    BY <1>1, <2>1, <2>2 DEF FileFits
  <2>5. QED
    BY <1>1, <2>1, <2>3, <2>4 DEF SeriesInv, TypeOK
<1>7. CASE UNCHANGED vars
  BY <1>1, <1>7 DEF vars, SeriesInv, TypeOK, FileFits, RowsFit
<1>8. QED
  BY <1>2, <1>3, <1>4, <1>5, <1>6, <1>7 DEF Next

LEMMA SeriesInvariant == Spec => []SeriesInv
<1>1. Init => SeriesInv
  BY SeriesInit
<1>2. SeriesInv /\ [Next]_vars => SeriesInv'
  BY SeriesStep
<1>3. QED
  BY <1>1, <1>2, PTL DEF Spec

\* What is parsed and inserted are rows, for every feed and every form a field may take.
THEOREM SeriesTypes == Spec => []TypeOK
<1>1. SeriesInv => TypeOK
  BY DEF SeriesInv
<1>2. QED
  BY <1>1, SeriesInvariant, PTL

\* No insert of the two feeds with more than one source takes an active reading away.
THEOREM ActiveIsNeverDemoted == Spec => ActiveNeverDemoted
<1> DEFINE Kept == \A r \in rows :
             feed \in MultiSource /\ r.active => r \in rows' \/ r.at < now - Keep
<1>1. SeriesInv /\ [Next]_vars => [Kept]_vars
  <2> SUFFICES ASSUME SeriesInv, Next, NEW r \in rows, feed \in MultiSource, r.active
               PROVE  r \in rows' \/ r.at < now - Keep
    BY DEF vars
  <2>1. CASE Poll
    <3>1. feed = "solar_wind" \/ feed = "imf"
      BY DEF MultiSource
    <3>2. r \in InsertSolarWind(Parsed) /\ r \in InsertImf(Parsed)
      BY DEF InsertSolarWind, InsertImf, Replaces
    <3>3. r \in Inserted(Parsed)
      BY <3>1, <3>2 DEF Inserted
    <3>4. QED
      BY <2>1, <3>3 DEF Poll
  <2>2. CASE Purge
    <3>1. r.at \in Nat /\ now \in Nat
      BY Constants DEF SeriesInv, TypeOK, Rows
    <3>2. QED
      BY <2>2, <3>1, Constants DEF Purge
  <2>3. CASE Publish \/ Withdraw \/ Tick
    BY <2>3 DEF Publish, Withdraw, Tick
  <2>4. QED
    BY <2>1, <2>2, <2>3 DEF Next
<1>2. QED
  BY <1>1, SeriesInvariant, PTL DEF Spec, ActiveNeverDemoted

\* A row that is decided by is the one of its minute that is displayed.
LEMMA DecidedIsDisplayed == Decided \subseteq Displayed
BY DEF Decided, Displayed, OneRowPerMinute, Outranks

\* The summary of a report is computed from rows that are exported and charted.
THEOREM ReportsDoMatch == Spec => []ReportsMatchTheExport
<1>1. ReportsMatchTheExport
  BY DecidedIsDisplayed DEF ReportsMatchTheExport, ReportSummary, ReportCsv, RangeOf, Known
<1>2. QED
  BY <1>1, PTL

-----------------------------------------------------------------------------
(* What the readers of a series make of its table *)

LEMMA RowsFinite == ASSUME SeriesInv PROVE IsFiniteSet(rows)
<1> DEFINE T == (0..MaxNow) \X (0..2)
           f == [r \in rows |-> <<r.at, r.src>>]
<1>1. IsFiniteSet(T)
  <2>1. \A b \in Nat : IsFiniteSet(0..b)
    BY FS_Interval
  <2>2. IsFiniteSet(0..MaxNow) /\ IsFiniteSet(0..2)
    BY <2>1, Constants
  <2>3. QED
    BY <2>2, FS_Product
<1>2. SourcesOf(feed) \subseteq 0..2
  BY DEF SourcesOf, Unnamed
<1>3. \A r \in rows : r.at \in 0..MaxNow /\ r.src \in 0..2
  BY <1>2 DEF SeriesInv, TypeOK, Rows
<1>4. f \in [rows -> T]
  BY <1>3
<1>5. \A q, r \in rows : f[q] = f[r] => q = r
  BY DEF SeriesInv, RowsFit, Same, Key
<1> HIDE DEF f, T
<1>6. f \in Injection(rows, T)
  BY <1>4, <1>5 DEF Injection, IsInjective
<1>7. QED
  BY <1>1, <1>6, FS_Injection

\* The newest observation is no older than any active row.
LEMMA NewestObserved ==
  ASSUME SeriesInv
  PROVE  /\ NewestObservation \in Int
         /\ feed \notin FetchedAtFeeds => \A r \in rows : r.active => r.at <= NewestObservation
<1> DEFINE Seen == {IF feed \in FetchedAtFeeds THEN r.seen ELSE r.at : r \in {q \in rows : q.active}}
           S == {-1} \cup Seen
<1>1. \A r \in rows : r.at \in 0..MaxNow /\ r.seen \in 0..MaxNow
  BY DEF SeriesInv, TypeOK, Rows
<1>2. S \subseteq (-1)..MaxNow
  BY <1>1, Constants
<1>3. IsFiniteSet(S) /\ S \in SUBSET Int /\ S # {}
  <2>1. IsFiniteSet((-1)..MaxNow)
    BY Constants, FS_Interval
  <2>2. IsFiniteSet(S)
    BY <1>2, <2>1, FS_Subset
  <2>3. QED
    BY <1>2, <2>2
<1>4. feed \notin FetchedAtFeeds => \A r \in rows : r.active => r.at \in S
  OBVIOUS
<1>5. NewestObservation = Max(S)
  BY DEF NewestObservation
<1> HIDE DEF S
<1>6. Max(S) \in Int /\ \A x \in S : x <= Max(S)
  BY <1>3, MaxOf
<1>7. QED
  BY <1>4, <1>5, <1>6

\* A table with an active row that is young enough is current, and shown as such.
LEMMA CurrentByRow ==
  ASSUME SeriesInv, feed \in Checked \ FetchedAtFeeds,
         NEW r \in rows, r.active, ReadingIsCurrent(r)
  PROVE  SeriesIsCurrent
<1>1. r.at \in Nat /\ now \in Nat
  BY Constants DEF SeriesInv, TypeOK, Rows
<1>2. NewestObservation \in Int /\ r.at <= NewestObservation
  BY NewestObserved
<1>3. QED
  BY <1>1, <1>2, Constants DEF SeriesIsCurrent, ReadingIsCurrent

LEMMA CurrentIsOperational == ASSUME SeriesInv, SeriesIsCurrent PROVE SeriesHealth = "operational"
<1>1. NewestObservation \in Int /\ now \in Int
  BY NewestObserved, Constants DEF SeriesInv, TypeOK
<1>2. QED
  BY <1>1, Constants DEF SeriesIsCurrent, SeriesHealth

\* One row per minute is displayed of a feed with more than one source.
LEMMA OneIsDisplayed ==
  ASSUME SeriesInv, feed \in MultiSource, NEW q \in Displayed, NEW r \in Displayed, q.at = r.at
  PROVE  q = r
<1>1. q \in rows /\ r \in rows /\ ~Outranks(q, r) /\ ~Outranks(r, q)
  BY DEF Displayed, OneRowPerMinute
<1>2. q.src \in {0, 1, 2} /\ r.src \in {0, 1, 2} /\ q.active \in BOOLEAN /\ r.active \in BOOLEAN
  BY <1>1 DEF SeriesInv, TypeOK, Rows, SourcesOf, Unnamed
<1>3. q.active = r.active /\ q.src = r.src
  BY <1>1, <1>2 DEF Outranks
<1>4. QED
  BY <1>1, <1>3 DEF SeriesInv, RowsFit, Same, Key

\* So no more rows follow a current one than there are minutes since.
LEMMA FewAreLater ==
  ASSUME SeriesInv, feed = "solar_wind", NEW r \in Displayed, ReadingIsCurrent(r)
  PROVE  Cardinality({q \in Displayed : q.at > r.at}) < ChartRows
<1> DEFINE S == {q \in Displayed : q.at > r.at}
           T == r.at + 1..now
           f == [q \in S |-> q.at]
<1>1. Displayed \subseteq rows /\ feed \in MultiSource /\ feed \notin Catalogues
  BY DEF Displayed, OneRowPerMinute, MultiSource, Catalogues
<1>2. \A q \in Displayed : q.at \in Nat /\ q.at <= now
  BY <1>1, Constants DEF SeriesInv, TypeOK, RowsFit, Rows
<1>3. r.at \in Nat /\ now \in Nat /\ now - r.at <= MaxAge
  BY <1>1, <1>2, Constants DEF SeriesInv, TypeOK, ReadingIsCurrent
<1>4. IsFiniteSet(T) /\ Cardinality(T) <= MaxAge /\ Cardinality(T) \in Nat
  <2>1. r.at + 1 \in Int /\ now \in Int
    BY <1>3
  <2>2. IsFiniteSet(T) /\ Cardinality(T) = (IF r.at + 1 > now THEN 0 ELSE now - (r.at + 1) + 1)
    BY <2>1, FS_Interval
  <2>3. QED
    BY <1>3, <2>2, Constants
<1>5. f \in [S -> T]
  BY <1>2, <1>3
<1>6. \A p, q \in S : f[p] = f[q] => p = q
  BY <1>1, OneIsDisplayed
<1> HIDE DEF S, T, f
<1>7. f \in Injection(S, T)
  BY <1>5, <1>6 DEF Injection, IsInjective
<1>8. IsFiniteSet(S) /\ Cardinality(S) <= Cardinality(T)
  BY <1>4, <1>7, FS_Injection
<1>9. Cardinality(S) < ChartRows
  BY <1>4, <1>8, FS_CardinalityType, Constants
<1>10. QED
  BY <1>9 DEF S

\* The newest of a finite set of rows has none that is later.
LEMMA NoneIsLater ==
  ASSUME NEW S, IsFiniteSet(S), NEW r \in Newest(S, 1), NEW q \in S
  PROVE  ~(q.at > r.at)
<1> DEFINE T == {p \in S : p.at > r.at}
<1>1. IsFiniteSet(T)
  BY FS_Subset
<1>2. Cardinality(T) < 1
  BY DEF Newest
<1>3. T = {}
  BY <1>1, <1>2, FS_CardinalityType, FS_EmptySet
<1>4. QED
  BY <1>3

\* What is acted on is on the chart at that moment, whichever query read it.
THEOREM ActedOnIsAlwaysShown == Spec => []ActedOnIsShown
<1>1. SeriesInv => ActedOnIsShown
  <2> SUFFICES ASSUME SeriesInv PROVE ActedOnIsShown
    OBVIOUS
  <2>1. IsFiniteSet(rows)
    BY RowsFinite
  <2>2. feed \notin MultiSource => Displayed = rows
    BY DEF Displayed, OneRowPerMinute
  <2>3. ASSUME NEW n \in 1..2, NEW r \in Newest(rows, n) PROVE r \in Newest(rows, ChartRows)
    <3>1. r \in rows /\ Cardinality({q \in rows : q.at > r.at}) < n
      BY DEF Newest
    <3>2. Cardinality({q \in rows : q.at > r.at}) \in Nat
      BY <2>1, FS_Subset, FS_CardinalityType
    <3>3. Cardinality({q \in rows : q.at > r.at}) < ChartRows
      BY <3>1, <3>2, Constants
    <3>4. QED
      BY <3>1, <3>3 DEF Newest
  <2>4. CASE feed = "kp"
    <3>1. feed \in Checked \ FetchedAtFeeds /\ feed \notin MultiSource /\ Displayed = rows
      BY <2>2, <2>4 DEF Checked, FetchedAtFeeds, MultiSource
    <3>2. ASSUME NEW r \in AlertLines PROVE r \in Chart /\ SeriesHealth = "operational"
      <4>1. r \in Newest(rows, 1) /\ ReadingIsCurrent(r) /\ r \in rows
        BY <2>4 DEF AlertLines, LatestKpRaw, Newest
      <4>2. r.active
        BY <3>1, <4>1 DEF SeriesInv, RowsFit
      <4>3. SeriesIsCurrent
        BY <3>1, <4>1, <4>2, CurrentByRow
      <4>4. QED
        BY <2>3, <3>1, <4>1, <4>3, CurrentIsOperational DEF Chart
    <3>3. PublicKp \subseteq Chart
      BY <2>3, <3>1 DEF PublicKp, Chart
    <3>4. RecentKp3h(2) = {} /\ PublicSolarWind = {}
      BY <2>4 DEF RecentKp3h, PublicSolarWind
    <3>5. QED
      BY <3>2, <3>3, <3>4 DEF ActedOnIsShown
  <2>5. CASE feed = "kp_3h"
    <3>1. AlertLines = {} /\ PublicKp = {}
      BY <2>5 DEF AlertLines, PublicKp
    <3>2. Displayed = rows
      BY <2>2, <2>5 DEF MultiSource
    <3>3. ASSUME NEW r \in RecentKp3h(2) PROVE r \in Chart /\ SeriesHealth = "operational"
      <4>1. SeriesIsCurrent /\ r \in Newest(rows, 2)
        BY DEF RecentKp3h
      <4>2. r \in Newest(Displayed, ChartRows)
        BY <2>3, <3>2, <4>1
      <4>3. QED
        BY <4>1, <4>2, CurrentIsOperational DEF Chart
    <3>4. QED
      BY <3>1, <3>3 DEF ActedOnIsShown
  <2>6. CASE feed = "solar_wind"
    <3>1. feed \in Checked \ FetchedAtFeeds /\ feed \in MultiSource
      BY <2>6 DEF Checked, FetchedAtFeeds, MultiSource
    <3>2. PublicKp = {} /\ RecentKp3h(2) = {}
      BY <2>6 DEF PublicKp, RecentKp3h
    <3>3. ASSUME NEW r \in AlertLines
          PROVE  /\ r \in rows /\ r.active /\ r \in Known(Displayed) /\ ReadingIsCurrent(r)
      <4>1. r \in Newest(Known(Decided), 1) /\ ReadingIsCurrent(r)
        BY <2>6 DEF AlertLines, LatestSolarWindSpeedRaw
      <4>2. r \in Decided /\ r \in Known(Decided)
        BY <4>1 DEF Newest, Known
      <4>3. r \in rows /\ r.active
        BY <3>1, <4>2 DEF Decided, OneRowPerMinute
      <4>4. QED
        BY <4>1, <4>2, <4>3, DecidedIsDisplayed DEF Known
    <3>4. ASSUME NEW r \in AlertLines PROVE r \in Chart /\ SeriesHealth = "operational"
      <4>1. SeriesIsCurrent
        BY <3>1, <3>3, CurrentByRow
      <4>2. r \in Displayed
        BY <3>3 DEF Known
      <4>3. r \in Newest(Displayed, ChartRows)
        BY <2>6, <3>3, <4>2, FewAreLater DEF Newest
      <4>4. QED
        BY <4>1, <4>3, CurrentIsOperational DEF Chart
    <3>5. ASSUME NEW a \in AlertLines, NEW r \in PublicSolarWind PROVE r.at >= a.at
      <4>1. r \in Newest(Known(Displayed), 1) /\ r \in rows
        BY <2>6 DEF PublicSolarWind, Newest, Known, Displayed, OneRowPerMinute
      <4>2. IsFiniteSet(Known(Displayed))
        BY <2>1, FS_Subset DEF Known, Displayed, OneRowPerMinute
      <4>3. a \in Known(Displayed) /\ a \in rows
        BY <3>3
      <4>4. ~(a.at > r.at)
        BY <4>1, <4>2, <4>3, NoneIsLater
      <4>5. a.at \in Nat /\ r.at \in Nat
        BY <4>1, <4>3 DEF SeriesInv, TypeOK, Rows
      <4>6. QED
        BY <4>4, <4>5
    <3>6. QED
      BY <3>2, <3>4, <3>5 DEF ActedOnIsShown
  <2>7. CASE feed \notin {"kp", "kp_3h", "solar_wind"}
    BY <2>7 DEF ActedOnIsShown, AlertLines, RecentKp3h, PublicKp
  <2>8. QED
    BY <2>4, <2>5, <2>6, <2>7
<1>2. QED
  BY <1>1, SeriesInvariant, PTL

-----------------------------------------------------------------------------
(* The forecast: how old readings are where they are held *)

Wait(t) == IF t = Poller THEN PollerWait ELSE RequestWait

\* The longest wait there is.
Patience == IF RequestWait <= PollerWait THEN PollerWait ELSE RequestWait

\* A task that asks has read its readings when they were current, and does not wait long.
AskersOK ==
  \A t \in F!Tasks : task[t].at = "asking" =>
    /\ task[t].obs <= task[t].since /\ task[t].since <= now
    /\ task[t].since - task[t].obs <= ForecastAge
    /\ now - task[t].since <= Wait(t)

\* What was answered from a window that is as long as the checkpoint wants.
FitAnswer(c) ==
  /\ c.said.model <= c.said.given
  /\ c.at - c.said.obs <= ForecastAge + Patience

AnswersOK ==
  /\ \A i \in DOMAIN queue : FitAnswer(queue[i])
  /\ \A i \in issues : FitAnswer(i)

EntryOK ==
  entry # Nothing =>
    /\ entry.stamp <= now
    /\ entry.obs # Nothing => entry.stamp - entry.obs <= ForecastAge + RequestWait

ForecastTypes ==
  /\ now \in 0..ForecastMaxNow /\ newest \in 0..now /\ wants \in Lengths
  /\ well \in BOOLEAN /\ upsets \in 0..MaxUpsets
  /\ task \in [F!Tasks -> {F!Idle} \cup [at : {"sized"}, n : Lengths]
        \cup [at : {"asking"}, n : Lengths, obs : 0..ForecastMaxNow, since : 0..ForecastMaxNow]]
  /\ entry \in {Nothing} \cup [stamp : 0..ForecastMaxNow, obs : 0..ForecastMaxNow \cup {Nothing}]
  /\ queue \in Seq([at : 0..ForecastMaxNow, said : F!Payloads]) /\ Len(queue) <= QueueCap
  /\ issues \subseteq [at : 0..ForecastMaxNow, h : Horizons, said : F!Payloads]

ForecastInv == ForecastTypes /\ AskersOK /\ AnswersOK /\ EntryOK

LEMMA ForecastNumbers ==
  /\ ForecastAge \in Nat /\ Ttl \in Nat /\ RequestWait \in Nat /\ PollerWait \in Nat
  /\ QueueCap \in Nat /\ ForecastMaxNow \in Nat /\ MaxUpsets \in Nat
  /\ Lengths \subseteq Nat /\ Lengths # {} /\ IsFiniteSet(Lengths) /\ Poller \notin Requests
<1>1. F!IsFiniteSet(Lengths) => IsFiniteSet(Lengths)
  BY DEF F!IsFiniteSet, IsFiniteSet
<1>2. QED
  BY <1>1, ForecastConstants DEF F!ForecastAssumption

\* The least of the input lengths is one of them.
LEMMA LeastLength == F!Min(Lengths) \in Lengths
<1> DEFINE S == {-x : x \in Lengths}
           g == [x \in Lengths |-> -x]
<1>1. S \in SUBSET Int /\ S # {} /\ \A x \in S : -x \in Lengths /\ x \in Int
  <2>1. \A x \in Lengths : x \in Nat /\ -x \in Int /\ -(-x) = x
    BY ForecastNumbers
  <2>2. PICK x \in Lengths : TRUE
    BY ForecastNumbers
  <2>3. \A y \in S : -y \in Lengths /\ y \in Int
    BY <2>1
  <2>4. S # {}
    BY <2>2
  <2>5. QED
    BY <2>3, <2>4
<1>2. IsFiniteSet(S)
  <2>1. g \in Surjection(Lengths, S)
    BY DEF Surjection
  <2>2. QED
    BY <2>1, ForecastNumbers, FS_Surjection
<1>3. \A x \in Lengths : -x \in S /\ x \in Int
  BY ForecastNumbers
<1> HIDE DEF S
<1>4. PICK m \in S : \A x \in S : x <= m
  BY <1>1, <1>2, MaxOf
<1>5. -m \in Lengths /\ \A x \in Lengths : -m <= x
  BY <1>1, <1>3, <1>4
<1>6. QED
  BY <1>5, Zenon DEF F!Min

LEMMA ForecastInit == F!Init => ForecastInv
<1> SUFFICES ASSUME F!Init PROVE ForecastInv
  OBVIOUS
<1> USE ForecastNumbers, LeastLength
<1>1. /\ now = 0 /\ newest = 0 /\ well = TRUE /\ wants \in Lengths /\ upsets = 0
      /\ entry = Nothing /\ queue = <<>> /\ issues = {}
      /\ task = [t \in F!Tasks |-> F!Idle]
  BY DEF F!Init
<1>2. task \in [F!Tasks -> {F!Idle} \cup [at : {"sized"}, n : Lengths]
        \cup [at : {"asking"}, n : Lengths, obs : 0..ForecastMaxNow, since : 0..ForecastMaxNow]]
  BY <1>1
<1>3. queue \in Seq([at : 0..ForecastMaxNow, said : F!Payloads]) /\ Len(queue) = 0 /\ DOMAIN queue = {}
  BY <1>1
<1>4. ForecastTypes
  BY <1>1, <1>2, <1>3 DEF ForecastTypes
<1>5. \A t \in F!Tasks : task[t].at # "asking"
  BY <1>1 DEF F!Idle
<1>6. AskersOK /\ AnswersOK /\ EntryOK
  BY <1>1, <1>3, <1>5 DEF AskersOK, AnswersOK, EntryOK
<1>7. QED
  BY <1>4, <1>6 DEF ForecastInv

\* A task that goes on to where it asks nothing; nothing is told by it yet.
LEMMA GoesQuietly ==
  ASSUME ForecastInv, NEW t \in F!Tasks, NEW w \in {F!Idle} \cup [at : {"sized"}, n : Lengths],
         F!Goes(t, w), UNCHANGED <<now, newest, well, wants, upsets>>
  PROVE  /\ task' \in [F!Tasks -> {F!Idle} \cup [at : {"sized"}, n : Lengths]
           \cup [at : {"asking"}, n : Lengths, obs : 0..ForecastMaxNow, since : 0..ForecastMaxNow]]
         /\ AskersOK'
<1>1. task' = [task EXCEPT ![t] = w] /\ w.at # "asking"
  BY DEF F!Goes, F!Idle
<1>2. \A u \in F!Tasks : task'[u] = IF u = t THEN w ELSE task[u]
  BY <1>1 DEF ForecastInv, ForecastTypes
<1>3. AskersOK'
  BY <1>1, <1>2 DEF ForecastInv, AskersOK
<1>4. task' \in [F!Tasks -> {F!Idle} \cup [at : {"sized"}, n : Lengths]
        \cup [at : {"asking"}, n : Lengths, obs : 0..ForecastMaxNow, since : 0..ForecastMaxNow]]
  BY <1>1 DEF ForecastInv, ForecastTypes
<1>5. QED
  BY <1>3, <1>4

\* An answer that comes is fit, and so is the queue it is sent down.
LEMMA AnswerIsFit ==
  ASSUME ForecastInv, NEW t \in F!Tasks, task[t].at = "asking"
  PROVE  /\ task[t].obs \in 0..ForecastMaxNow /\ task[t].n \in Lengths
         /\ now - task[t].obs <= ForecastAge + Wait(t)
         /\ F!Predicts(task[t].n) =>
              /\ F!Fire(F!Said(t)) \in Seq([at : 0..ForecastMaxNow, said : F!Payloads])
              /\ Len(F!Fire(F!Said(t))) <= QueueCap
              /\ \A i \in DOMAIN F!Fire(F!Said(t)) : FitAnswer(F!Fire(F!Said(t))[i])
<1> USE ForecastNumbers
<1>1. task[t] \in [at : {"asking"}, n : Lengths, obs : 0..ForecastMaxNow, since : 0..ForecastMaxNow]
  BY DEF ForecastInv, ForecastTypes, F!Idle
<1>2. task[t].obs \in 0..ForecastMaxNow /\ task[t].n \in Lengths /\ task[t].since \in 0..ForecastMaxNow
  BY <1>1
<1>3. now \in Nat /\ now \in 0..ForecastMaxNow /\ wants \in Lengths
  BY DEF ForecastInv, ForecastTypes
<1>4. Wait(t) \in Nat /\ Wait(t) <= Patience /\ Patience \in Nat
  BY DEF Wait, Patience
<1>5. now - task[t].obs <= ForecastAge + Wait(t)
  BY <1>2, <1>3, <1>4 DEF ForecastInv, AskersOK
<1>6. ASSUME F!Predicts(task[t].n)
      PROVE  /\ F!Fire(F!Said(t)) \in Seq([at : 0..ForecastMaxNow, said : F!Payloads])
             /\ Len(F!Fire(F!Said(t))) <= QueueCap
             /\ \A i \in DOMAIN F!Fire(F!Said(t)) : FitAnswer(F!Fire(F!Said(t))[i])
  <2> DEFINE c == [at |-> now, said |-> F!Said(t)]
  <2>1. F!Said(t) \in F!Payloads
    BY <1>2, <1>3 DEF F!Said, F!Payloads
  <2>2. c \in [at : 0..ForecastMaxNow, said : F!Payloads]
    BY <1>3, <2>1
  <2>3. wants <= task[t].n
    BY <1>2, <1>3, <1>6 DEF F!Predicts
  <2>4. FitAnswer(c)
    BY <1>2, <1>3, <1>4, <1>5, <2>3 DEF FitAnswer, F!Said
  <2>5. F!Fire(F!Said(t)) = IF Len(queue) < QueueCap THEN Append(queue, c) ELSE queue
    BY DEF F!Fire
  <2> HIDE DEF c
  <2>6. queue \in Seq([at : 0..ForecastMaxNow, said : F!Payloads]) /\ Len(queue) <= QueueCap
        /\ Len(queue) \in Nat /\ \A i \in DOMAIN queue : FitAnswer(queue[i])
    BY DEF ForecastInv, ForecastTypes, AnswersOK
  <2>7. Append(queue, c) \in Seq([at : 0..ForecastMaxNow, said : F!Payloads])
        /\ Len(Append(queue, c)) = Len(queue) + 1
    BY <2>2, <2>6
  <2>8. \A i \in DOMAIN Append(queue, c) : Append(queue, c)[i] = c \/ (i \in DOMAIN queue /\ Append(queue, c)[i] = queue[i])
    BY <2>2, <2>6
  <2>9. CASE Len(queue) < QueueCap
    <3>1. F!Fire(F!Said(t)) = Append(queue, c)
      BY <2>5, <2>9
    <3>2. \A i \in DOMAIN Append(queue, c) : FitAnswer(Append(queue, c)[i])
      BY <2>4, <2>6, <2>8
    <3>3. QED
      BY <2>6, <2>7, <2>9, <3>1, <3>2
  <2>10. CASE ~(Len(queue) < QueueCap)
    BY <2>5, <2>6, <2>10
  <2>11. QED
    BY <2>9, <2>10
<1>7. QED
  BY <1>2, <1>5, <1>6

LEMMA ForecastStep == ForecastInv /\ [F!Next]_(F!vars) => ForecastInv'
<1> SUFFICES ASSUME ForecastInv, [F!Next]_(F!vars) PROVE ForecastInv'
  OBVIOUS
<1> USE ForecastNumbers
<1> DEFINE TaskStates == {F!Idle} \cup [at : {"sized"}, n : Lengths]
             \cup [at : {"asking"}, n : Lengths, obs : 0..ForecastMaxNow, since : 0..ForecastMaxNow]
<1>1. /\ ForecastTypes /\ AskersOK /\ AnswersOK /\ EntryOK
      /\ now \in 0..ForecastMaxNow /\ now \in Nat /\ newest \in 0..now /\ wants \in Lengths
      /\ task \in [F!Tasks -> TaskStates]
      /\ Poller \in F!Tasks /\ Requests \subseteq F!Tasks
  BY DEF ForecastInv, ForecastTypes, F!Tasks
\* What is left alone keeps its shape.
<1>2. UNCHANGED <<now, queue, issues>> => AnswersOK'
  BY <1>1 DEF AnswersOK, FitAnswer
<1>3. UNCHANGED <<now, entry>> => EntryOK'
  BY <1>1 DEF EntryOK
<1>4. UNCHANGED <<now, task>> => AskersOK'
  BY <1>1 DEF AskersOK
<1>5. ASSUME NEW t \in F!Tasks, NEW w \in {F!Idle} \cup [at : {"sized"}, n : Lengths], F!Goes(t, w),
             UNCHANGED <<now, newest, well, wants, upsets, entry, queue, issues>>
      PROVE  ForecastInv'
  <2>1. task' \in [F!Tasks -> TaskStates] /\ AskersOK'
    BY <1>5, GoesQuietly
  <2>2. ForecastTypes'
    BY <1>1, <1>5, <2>1 DEF ForecastTypes
  <2>3. QED
    BY <1>2, <1>3, <1>5, <2>1, <2>2 DEF ForecastInv
<1>6. ASSUME NEW r \in Requests, F!Miss(r) PROVE ForecastInv'
  BY <1>1, <1>5, <1>6 DEF F!Miss
<1>7. ASSUME F!PollSized PROVE ForecastInv'
  BY <1>1, <1>5, <1>7 DEF F!PollSized
<1>8. ASSUME F!PollGivesUp PROVE ForecastInv'
  BY <1>1, <1>5, <1>8 DEF F!PollGivesUp
<1>9. ASSUME NEW t \in F!Tasks, F!ReadSeries(t) PROVE ForecastInv'
  <2>1. /\ UNCHANGED <<now, newest, have, well, wants, upsets, entry, queue, issues>>
        /\ task[t].at = "sized" /\ task[t].n \in Lengths
    BY <1>1, <1>9 DEF F!ReadSeries, F!Idle
  <2>2. CASE ~F!RecentKp3h(task[t].n)
    <3>1. F!Goes(t, F!Idle)
      BY <1>9, <2>2 DEF F!ReadSeries
    <3>2. QED
      BY <1>5, <2>1, <3>1
  <2>3. CASE F!RecentKp3h(task[t].n)
    <3> DEFINE w == [at |-> "asking", n |-> task[t].n, obs |-> newest, since |-> now]
    <3>1. task' = [task EXCEPT ![t] = w]
      BY <1>9, <2>3 DEF F!ReadSeries, F!Goes
    <3>2. w \in TaskStates /\ w.obs = newest /\ w.since = now
      BY <1>1, <2>1
    <3>3. now - newest <= ForecastAge
      BY <2>3 DEF F!RecentKp3h
    <3> HIDE DEF w
    <3>4. \A u \in F!Tasks : task'[u] = IF u = t THEN w ELSE task[u]
      BY <1>1, <3>1
    <3>5. Wait(t) \in Nat
      BY DEF Wait
    <3>6. AskersOK'
      <4> SUFFICES ASSUME NEW u \in F!Tasks, task'[u].at = "asking"
                   PROVE  /\ task'[u].obs <= task'[u].since /\ task'[u].since <= now
                          /\ task'[u].since - task'[u].obs <= ForecastAge
                          /\ now - task'[u].since <= Wait(u)
        BY <2>1 DEF AskersOK, Wait
      <4>1. CASE u = t
        BY <1>1, <3>2, <3>3, <3>4, <3>5, <4>1
      <4>2. CASE u # t
        BY <1>1, <3>4, <4>2 DEF AskersOK
      <4>3. QED
        BY <4>1, <4>2
    <3>7. task' \in [F!Tasks -> TaskStates]
      BY <1>1, <3>1, <3>2
    <3>8. ForecastTypes'
      BY <1>1, <2>1, <3>7 DEF ForecastTypes
    <3>9. QED
      BY <1>2, <1>3, <2>1, <3>6, <3>8 DEF ForecastInv
  <2>4. QED
    BY <2>2, <2>3
<1>10. ASSUME NEW t \in F!Tasks, task[t].at = "asking", F!Predicts(task[t].n), F!Goes(t, F!Idle),
              queue' = F!Fire(F!Said(t)), UNCHANGED <<now, newest, well, wants, upsets, issues>>
       PROVE  /\ AnswersOK' /\ AskersOK' /\ task' \in [F!Tasks -> TaskStates]
              /\ queue' \in Seq([at : 0..ForecastMaxNow, said : F!Payloads]) /\ Len(queue') <= QueueCap
  <2>1. task' \in [F!Tasks -> TaskStates] /\ AskersOK'
    BY <1>10, GoesQuietly
  <2>2. /\ queue' \in Seq([at : 0..ForecastMaxNow, said : F!Payloads]) /\ Len(queue') <= QueueCap
        /\ \A i \in DOMAIN queue' : FitAnswer(queue'[i])
    BY <1>10, AnswerIsFit
  <2>3. AnswersOK'
    BY <1>1, <1>10, <2>2 DEF AnswersOK, FitAnswer
  <2>4. QED
    BY <2>1, <2>2, <2>3
<1>11. ASSUME F!PollAnswered PROVE ForecastInv'
  <2>1. /\ task[Poller].at = "asking" /\ F!Predicts(task[Poller].n) /\ F!Goes(Poller, F!Idle)
        /\ queue' = F!Fire(F!Said(Poller)) /\ UNCHANGED <<now, newest, well, wants, upsets, issues, entry>>
    BY <1>11 DEF F!PollAnswered
  <2>2. /\ AnswersOK' /\ AskersOK' /\ task' \in [F!Tasks -> TaskStates]
        /\ queue' \in Seq([at : 0..ForecastMaxNow, said : F!Payloads]) /\ Len(queue') <= QueueCap
    BY <1>1, <1>10, <2>1
  <2>3. ForecastTypes'
    BY <1>1, <2>1, <2>2 DEF ForecastTypes
  <2>4. QED
    BY <1>3, <2>1, <2>2, <2>3 DEF ForecastInv
\* An answer puts an entry in the cache that is as old as its readings.
<1>12. ASSUME NEW r \in Requests, task[r].at = "asking", now' = now,
              entry' = [stamp |-> now, obs |-> task[r].obs]
       PROVE  /\ EntryOK'
              /\ entry' \in [stamp : 0..ForecastMaxNow, obs : 0..ForecastMaxNow \cup {Nothing}]
  <2>1. task[r].obs \in 0..ForecastMaxNow /\ now - task[r].obs <= ForecastAge + Wait(r)
    BY <1>1, <1>12, AnswerIsFit
  <2>2. Wait(r) = RequestWait
    BY DEF Wait
  <2>3. entry'.stamp = now /\ entry'.obs = task[r].obs
    BY <1>12
  <2>4. QED
    BY <1>1, <1>12, <2>1, <2>2, <2>3 DEF EntryOK
<1>13. ASSUME NEW r \in Requests, F!Answered(r) PROVE ForecastInv'
  <2>1. /\ task[r].at = "asking" /\ F!Predicts(task[r].n) /\ F!Goes(r, F!Idle)
        /\ queue' = F!Fire(F!Said(r)) /\ UNCHANGED <<now, newest, well, wants, upsets, issues>>
        /\ entry' = [stamp |-> now, obs |-> task[r].obs] /\ r \in F!Tasks
    BY <1>1, <1>13 DEF F!Answered
  <2>2. /\ AnswersOK' /\ AskersOK' /\ task' \in [F!Tasks -> TaskStates]
        /\ queue' \in Seq([at : 0..ForecastMaxNow, said : F!Payloads]) /\ Len(queue') <= QueueCap
    BY <1>10, <2>1
  <2>3. EntryOK' /\ entry' \in [stamp : 0..ForecastMaxNow, obs : 0..ForecastMaxNow \cup {Nothing}]
    BY <1>12, <2>1
  <2>4. ForecastTypes'
    BY <1>1, <2>1, <2>2, <2>3 DEF ForecastTypes
  <2>5. QED
    BY <2>2, <2>3, <2>4 DEF ForecastInv
<1>14. ASSUME NEW r \in Requests, F!AnsweredInPart(r) PROVE ForecastInv'
  <2>1. /\ task[r].at = "asking" /\ F!Goes(r, F!Idle) /\ r \in F!Tasks
        /\ UNCHANGED <<now, newest, well, wants, upsets, queue, issues>>
        /\ entry' = [stamp |-> now, obs |-> task[r].obs]
    BY <1>1, <1>14 DEF F!AnsweredInPart
  <2>2. AskersOK' /\ task' \in [F!Tasks -> TaskStates]
    BY <2>1, GoesQuietly
  <2>3. EntryOK' /\ entry' \in [stamp : 0..ForecastMaxNow, obs : 0..ForecastMaxNow \cup {Nothing}]
    BY <1>12, <2>1
  <2>4. ForecastTypes'
    BY <1>1, <2>1, <2>2, <2>3 DEF ForecastTypes
  <2>5. QED
    BY <1>2, <2>1, <2>2, <2>3, <2>4 DEF ForecastInv
<1>15. ASSUME NEW r \in Requests, F!FallsBack(r) PROVE ForecastInv'
  <2>1. /\ F!Goes(r, F!Idle) /\ r \in F!Tasks
        /\ UNCHANGED <<now, newest, well, wants, upsets, queue, issues>>
        /\ entry' = entry \/ entry' = [stamp |-> now, obs |-> Nothing]
    BY <1>1, <1>15 DEF F!FallsBack
  <2>2. AskersOK' /\ task' \in [F!Tasks -> TaskStates]
    BY <2>1, GoesQuietly
  <2>3. EntryOK' /\ entry' \in {Nothing} \cup [stamp : 0..ForecastMaxNow, obs : 0..ForecastMaxNow \cup {Nothing}]
    <3>1. CASE entry' = entry
      BY <1>1, <1>3, <2>1, <3>1 DEF ForecastTypes
    <3>2. CASE entry' = [stamp |-> now, obs |-> Nothing]
      <4>1. entry'.stamp = now /\ entry'.obs = Nothing
        BY <3>2
      <4>2. QED
        BY <1>1, <2>1, <3>2, <4>1 DEF EntryOK
    <3>3. QED
      BY <2>1, <3>1, <3>2
  <2>4. ForecastTypes'
    BY <1>1, <2>1, <2>2, <2>3 DEF ForecastTypes
  <2>5. QED
    BY <1>2, <2>1, <2>2, <2>3, <2>4 DEF ForecastInv
<1>16. ASSUME F!Commit PROVE ForecastInv'
  <2>1. /\ queue # <<>> /\ issues' = F!RowsOf(Head(queue)) /\ queue' = Tail(queue)
        /\ UNCHANGED <<now, newest, well, wants, upsets, task, entry>>
    BY <1>16 DEF F!Commit
  <2>2. queue \in Seq([at : 0..ForecastMaxNow, said : F!Payloads]) /\ Len(queue) <= QueueCap
        /\ \A i \in DOMAIN queue : FitAnswer(queue[i])
    BY <1>1 DEF ForecastTypes, AnswersOK
  <2>3. /\ Head(queue) \in [at : 0..ForecastMaxNow, said : F!Payloads] /\ Head(queue) = queue[1]
        /\ 1 \in DOMAIN queue
        /\ Tail(queue) \in Seq([at : 0..ForecastMaxNow, said : F!Payloads])
        /\ Len(Tail(queue)) <= QueueCap
    <3> HIDE DEF TaskStates
    <3>1. QueueCap \in Nat /\ Len(queue) \in Nat \ {0} /\ DOMAIN queue = 1..Len(queue)
      BY <2>1, <2>2, ForecastNumbers
    <3>2. /\ Head(queue) \in [at : 0..ForecastMaxNow, said : F!Payloads] /\ Head(queue) = queue[1]
          /\ Tail(queue) \in Seq([at : 0..ForecastMaxNow, said : F!Payloads])
          /\ Len(Tail(queue)) = Len(queue) - 1
      <4> DEFINE C == [at : 0..ForecastMaxNow, said : F!Payloads]
      <4>1. queue \in Seq(C) /\ queue # <<>>
        BY <2>1, <2>2
      <4> HIDE DEF C
      <4>2. Head(queue) \in C /\ Tail(queue) \in Seq(C) /\ Len(Tail(queue)) = Len(queue) - 1
        BY <4>1, HeadTailProperties
      <4>3. Head(queue) = queue[1]
        BY <4>1
      <4>4. QED
        BY <4>2, <4>3 DEF C
    <3>3. QED
      BY <2>2, <3>1, <3>2
  <2>4. \A i \in DOMAIN Tail(queue) : i + 1 \in DOMAIN queue /\ Tail(queue)[i] = queue[i + 1]
    BY <2>1, <2>2
  <2>5. \A i \in F!RowsOf(Head(queue)) :
          /\ i \in [at : 0..ForecastMaxNow, h : Horizons, said : F!Payloads]
          /\ i.at = Head(queue).at /\ i.said = Head(queue).said
    BY <2>3 DEF F!RowsOf
  <2>6. AnswersOK'
    <3>1. \A i \in DOMAIN queue' : FitAnswer(queue'[i])
      BY <2>1, <2>2, <2>4
    <3>2. FitAnswer(Head(queue))
      BY <2>2, <2>3
    <3>3. \A i \in issues' : FitAnswer(i)
      BY <2>1, <2>5, <3>2 DEF FitAnswer
    <3>4. QED
      BY <3>1, <3>3 DEF AnswersOK, FitAnswer
  <2>7. issues' \subseteq [at : 0..ForecastMaxNow, h : Horizons, said : F!Payloads]
    BY <2>1, <2>5
  <2>8. ForecastTypes'
    BY <1>1, <2>1, <2>3, <2>7 DEF ForecastTypes
  <2>9. QED
    BY <1>3, <1>4, <2>1, <2>6, <2>8 DEF ForecastInv
<1>17. ASSUME F!Tick PROVE ForecastInv'
  <2>1. /\ now' = now + 1 /\ now' \in 0..ForecastMaxNow
        /\ UNCHANGED <<newest, well, wants, upsets, task, entry, queue, issues>>
        /\ \A t \in F!Tasks : task[t].at = "asking" =>
             now - task[t].since < (IF t = Poller THEN PollerWait ELSE RequestWait)
    BY <1>1, <1>17 DEF F!Tick
  <2>2. AskersOK'
    <3> SUFFICES ASSUME NEW t \in F!Tasks, task[t].at = "asking"
                 PROVE  /\ task[t].obs <= task[t].since /\ task[t].since <= now'
                        /\ task[t].since - task[t].obs <= ForecastAge
                        /\ now' - task[t].since <= Wait(t)
      BY <2>1 DEF AskersOK, Wait
    <3>1. task[t].since \in 0..ForecastMaxNow
      BY <1>1 DEF F!Idle
    <3>2. /\ task[t].obs <= task[t].since /\ task[t].since <= now
          /\ task[t].since - task[t].obs <= ForecastAge /\ now - task[t].since < Wait(t)
      BY <1>1, <2>1 DEF AskersOK, Wait
    <3>3. Wait(t) \in Nat
      BY DEF Wait
    <3>4. QED
      BY <1>1, <2>1, <3>1, <3>2, <3>3
  <2>3. AnswersOK'
    BY <1>1, <2>1 DEF AnswersOK, FitAnswer
  <2>4. EntryOK'
    BY <1>1, <2>1 DEF EntryOK, ForecastTypes
  <2>5. ForecastTypes'
    BY <1>1, <2>1 DEF ForecastTypes
  <2>6. QED
    BY <2>2, <2>3, <2>4, <2>5 DEF ForecastInv
<1>18. ASSUME F!Observe PROVE ForecastInv'
  <2>1. newest' = now /\ UNCHANGED <<now, well, wants, upsets, task, entry, queue, issues>>
    BY <1>18 DEF F!Observe
  <2>2. ForecastTypes'
    BY <1>1, <2>1 DEF ForecastTypes
  <2>3. QED
    BY <1>2, <1>3, <1>4, <2>1, <2>2 DEF ForecastInv
<1>19. ASSUME F!SidecarTurns \/ F!Retrain PROVE ForecastInv'
  <2>1. /\ UNCHANGED <<now, newest, task, entry, queue, issues>>
        /\ wants' \in Lengths /\ well' \in BOOLEAN /\ upsets' \in 0..MaxUpsets
    <3>1. wants \in Lengths /\ well \in BOOLEAN /\ upsets \in 0..MaxUpsets /\ MaxUpsets \in Nat
      BY <1>1 DEF ForecastTypes
    <3>2. CASE F!SidecarTurns
      BY <3>1, <3>2 DEF F!SidecarTurns
    <3>3. CASE F!Retrain
      <4>1. wants' \in Lengths /\ upsets < MaxUpsets /\ upsets' = upsets + 1
            /\ UNCHANGED <<now, newest, well, task, entry, queue, issues>>
        BY <3>3 DEF F!Retrain
      <4>2. QED
        BY <3>1, <4>1
    <3>4. QED
      BY <1>19, <3>2, <3>3
  <2>2. ForecastTypes'
    BY <1>1, <2>1 DEF ForecastTypes
  <2>3. QED
    BY <1>2, <1>3, <1>4, <2>1, <2>2 DEF ForecastInv
<1>20. ASSUME F!Restart PROVE ForecastInv'
  <2>1. /\ task' = [t \in F!Tasks |-> F!Idle] /\ entry' = Nothing /\ queue' = <<>>
        /\ upsets' \in 0..MaxUpsets /\ UNCHANGED <<now, newest, well, wants, issues>>
    BY <1>1, <1>20 DEF F!Restart, ForecastTypes
  <2>2. task' \in [F!Tasks -> TaskStates]
    BY <2>1
  <2>3. /\ queue' \in Seq([at : 0..ForecastMaxNow, said : F!Payloads]) /\ Len(queue') <= QueueCap
        /\ DOMAIN queue' = {}
    BY <2>1
  <2>4. ForecastTypes'
    BY <1>1, <2>1, <2>2, <2>3 DEF ForecastTypes
  <2>5. AskersOK'
    BY <2>1 DEF AskersOK, F!Idle
  <2>6. AnswersOK' /\ EntryOK'
    BY <1>1, <2>1, <2>3 DEF AnswersOK, EntryOK, FitAnswer
  <2>7. QED
    BY <2>4, <2>5, <2>6 DEF ForecastInv
<1>21. ASSUME UNCHANGED F!vars PROVE ForecastInv'
  <2>1. UNCHANGED <<now, newest, well, wants, upsets, task, entry, queue, issues>>
    BY <1>21 DEF F!vars
  <2>2. ForecastTypes'
    BY <1>1, <2>1 DEF ForecastTypes
  <2>3. QED
    BY <1>2, <1>3, <1>4, <2>1, <2>2 DEF ForecastInv
<1>22. ASSUME NEW r \in Requests, F!Hit(r) PROVE ForecastInv'
  BY <1>21, <1>22 DEF F!Hit
<1>23. QED
  BY <1>6, <1>7, <1>8, <1>9, <1>11, <1>13, <1>14, <1>15, <1>16, <1>17, <1>18, <1>19, <1>20, <1>21,
     <1>22 DEF F!Next

LEMMA ForecastInvariant == F!Spec => []ForecastInv
<1>1. F!Init => ForecastInv
  BY ForecastInit
<1>2. ForecastInv /\ [F!Next]_(F!vars) => ForecastInv'
  BY ForecastStep
<1>3. QED
  BY <1>1, <1>2, PTL DEF F!Spec

\* The longest of the two waits, as the property has it.
LEMMA LongestWait == F!Max({RequestWait, PollerWait}) = Patience
<1> DEFINE S == {RequestWait, PollerWait}
<1>1. Patience \in S /\ \A y \in S : Patience >= y
  BY ForecastNumbers DEF Patience
<1>2. S \subseteq Nat
  BY ForecastNumbers
<1>3. F!Max(S) = CHOOSE x \in S : \A y \in S : x >= y
  BY DEF F!Max
<1> HIDE DEF S
<1>4. F!Max(S) \in S /\ \A y \in S : F!Max(S) >= y
  BY <1>1, <1>3, Zenon
<1>5. F!Max(S) >= Patience /\ Patience >= F!Max(S) /\ F!Max(S) \in Nat /\ Patience \in Nat
  BY <1>1, <1>2, <1>4
<1>6. QED
  BY <1>5 DEF S

\* What is stored was predicted from a long enough window of readings that were current.
THEOREM InputsAreFit == F!Spec => []InputsWereFit
<1>1. ForecastInv => InputsWereFit
  <2> SUFFICES ASSUME ForecastInv, NEW i \in issues
               PROVE  /\ i.said.given >= i.said.model
                      /\ i.at - i.said.obs <= ForecastAge + Patience
    BY LongestWait DEF InputsWereFit, F!InputsWereFit
  <2>1. FitAnswer(i)
    BY DEF ForecastInv, AnswersOK
  <2>2. i.said \in F!Payloads
    BY DEF ForecastInv, ForecastTypes
  <2>3. i.said.given \in Nat /\ i.said.model \in Nat
    BY <2>2, ForecastNumbers DEF F!Payloads
  <2>4. QED
    BY <2>1, <2>3 DEF FitAnswer
<1>2. QED
  BY <1>1, ForecastInvariant, PTL

\* However the fetches of several requests overlap, no answer is served that comes from
\* readings older than the limit, the wait and the life of an entry allow.
THEOREM ServedAgeIsBounded == F!Spec => []ServedAge
<1>1. ForecastInv => ServedAge
  <2> SUFFICES ASSUME ForecastInv PROVE F!ServedAge
    BY DEF ServedAge
  <2>1. ASSUME NEW r \in Requests, task[r].at = "asking"
        PROVE  now - task[r].obs <= ForecastAge + RequestWait
    <3>1. r \in F!Tasks /\ Wait(r) = RequestWait
      BY ForecastNumbers DEF F!Tasks, Wait
    <3>2. QED
      BY <2>1, <3>1, AnswerIsFit
  <2>2. ASSUME entry # Nothing, entry.obs # Nothing, now - entry.stamp < Ttl
        PROVE  now - entry.obs < ForecastAge + RequestWait + Ttl
    <3>1. entry.stamp \in Nat /\ entry.obs \in Nat /\ now \in Nat
      BY <2>2, ForecastNumbers DEF ForecastInv, ForecastTypes
    <3>2. entry.stamp - entry.obs <= ForecastAge + RequestWait
      BY <2>2 DEF ForecastInv, EntryOK
    <3>3. QED
      BY <2>2, <3>1, <3>2, ForecastNumbers
  <2>3. QED
    BY <2>1, <2>2 DEF F!ServedAge
<1>2. QED
  BY <1>1, ForecastInvariant, PTL

=============================================================================

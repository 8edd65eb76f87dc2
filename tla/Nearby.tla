------------------------------- MODULE Nearby -------------------------------
(***************************************************************************)
(* WorkersService: workers report where they are (updateGps, and gps:update*)
(* of the gateway) and customers ask who is near (getNearby).  Positions   *)
(* are members of one GEO set in redis-geo.  getNearby answers from a cache*)
(* in the process, keyed by a cell of about 111 m, and fills it after an   *)
(* awaited search, so that searches of one cell overlap.  The module is    *)
(* one API process and redis-geo; reports may come through any process.    *)
(*                                                                         *)
(* The clock matters here: now counts units of CACHE_TTL_MS / Ttl.  A      *)
(* search that is not answered is rejected after its retries: none lasts   *)
(* longer than SearchMax.                                                  *)
(***************************************************************************)
EXTENDS Integers, FiniteSets

CONSTANTS
  Workers,
  Places,        \* where workers and customers can be
  Cells,         \* the grid that toFixed(3) makes of the places
  CellOf,        \* CellOf[x]: the cell of place x
  Reach,         \* Reach[x]: the places within 5 km of place x
  Reports,       \* GPS reports that may be under way at once
  Queries,       \* GET /workers/nearby requests that may be under way at once
  Count,         \* workers that a search returns at most (20)
  Ttl,           \* CACHE_TTL_MS
  CacheMax,      \* entries above which an insertion evicts (5000)
  SearchMax,     \* bound on the duration of a search
  MaxTime,       \* bound on the clock
  None           \* no place, no entry, no worker

ASSUME NearbyAssumption ==
  /\ None \notin Places \cup Workers
  /\ IsFiniteSet(Workers) /\ IsFiniteSet(Cells)
  /\ CellOf \in [Places -> Cells]
  /\ Reach \in [Places -> SUBSET Places]
  /\ Count \in Nat /\ Ttl \in Nat \ {0} /\ CacheMax \in Nat
  /\ SearchMax \in Nat /\ MaxTime \in Nat

VARIABLES
  now,
  geo,      \* geo[w]: the place of member w of workers:geo:active, or None
  alive,    \* the workers with a key worker:gps:ttl:<w>
  moved,    \* moved[w]: when geo[w] last changed (history)
  cache,    \* nearbyCache: an entry or None for each cell
  report,   \* report[g]: the worker whose SETEX is still to come, or None
  query     \* query[q]: control point and place of query q, when it was asked
            \* (and then: answered), and its result

geoVars == <<geo, alive, moved>>
vars == <<now, geoVars, cache, report, query>>

Time == 0..MaxTime

\* How old the truth behind an answer may be.
Lag == Ttl + SearchMax

NoQuery(at) == [at |-> at, place |-> None, since |-> 0, data |-> {}]

Entry == [data : SUBSET Workers, ts : Time]

TypeOK ==
  /\ now \in Time
  /\ geo \in [Workers -> Places \cup {None}]
  /\ alive \in SUBSET Workers
  /\ moved \in [Workers -> (0 - Lag)..MaxTime]
  /\ cache \in [Cells -> Entry \cup {None}]
  /\ report \in [Reports -> Workers \cup {None}]
  /\ query \in [Queries -> [at : {"idle", "search", "store", "answered", "error"},
                            place : Places \cup {None}, since : Time,
                            data : SUBSET Workers]]

\* redis-geo holds what the seed scripts have loaded.
Init ==
  /\ now = 0
  /\ geo \in [Workers -> Places \cup {None}]
  /\ alive = {}
  /\ moved = [w \in Workers |-> 0 - Lag]
  /\ cache = [c \in Cells |-> None]
  /\ report = [g \in Reports |-> None]
  /\ query = [q \in Queries |-> NoQuery("idle")]
-----------------------------------------------------------------------------
(* updateGps *)

\* GEOADD workers:geo:active moves the member, or adds it.
Located(w, x) ==
  /\ geo' = [geo EXCEPT ![w] = x]
  /\ moved' = [moved EXCEPT ![w] = IF geo[w] = x THEN @ ELSE now]

\* The first command of the pipeline.
GeoAdd(g) ==
  /\ report[g] = None
  /\ \E w \in Workers, x \in Places :
       /\ Located(w, x)
       /\ report' = [report EXCEPT ![g] = w]
  /\ UNCHANGED <<now, alive, cache, query>>

\* The second: SETEX worker:gps:ttl:<w>.
SetAlive(g) ==
  /\ report[g] # None
  /\ alive' = alive \cup {report[g]}
  /\ report' = [report EXCEPT ![g] = None]
  /\ UNCHANGED <<now, geo, moved, cache, query>>

\* The connection breaks and the SETEX is not done.  exec() resolves all the same,
\* and the worker is told ok.
PipelineBreaks(g) ==
  /\ report[g] # None
  /\ report' = [report EXCEPT ![g] = None]
  /\ UNCHANGED <<now, geoVars, cache, query>>

\* gps:update of the gateway sets no key.
HandleGpsUpdate ==
  /\ \E w \in Workers, x \in Places : Located(w, x)
  /\ UNCHANGED <<now, alive, cache, report, query>>

\* The 45 seconds of the key are over.  Nothing reads the key, and the member
\* of the GEO set stays.
AliveExpires(w) ==
  /\ w \in alive
  /\ alive' = alive \ {w}
  /\ UNCHANGED <<now, geo, moved, cache, report, query>>

\* redis-geo restarts: it persists nothing.
GeoLost ==
  /\ \E w \in Workers : geo[w] # None
  /\ geo' = [w \in Workers |-> None]
  /\ alive' = {}
  /\ moved' = [w \in Workers |-> now]
  /\ UNCHANGED <<now, cache, report, query>>
-----------------------------------------------------------------------------
(* getNearby *)

Fresh(e) == e # None /\ now - e.ts < Ttl

\* Mutant of Ask: a hit keeps the entry young.
AskRefreshing(q) ==
  /\ query[q].at \in {"idle", "answered", "error"}
  /\ \E x \in Places :
       LET c == CellOf[x]
       IN  /\ query' = [query EXCEPT ![q] =
                IF Fresh(cache[c])
                THEN [at |-> "answered", place |-> x, since |-> now, data |-> cache[c].data]
                ELSE [at |-> "search", place |-> x, since |-> now, data |-> {}]]
           /\ cache' = IF Fresh(cache[c]) THEN [cache EXCEPT ![c].ts = now] ELSE cache
  /\ UNCHANGED <<now, geoVars, report>>

\* The customer asks, and finds an entry or has to search.
Ask(q) ==
  /\ query[q].at \in {"idle", "answered", "error"}
  /\ \E x \in Places :
       LET cached == cache[CellOf[x]]
       IN  query' = [query EXCEPT ![q] =
             IF Fresh(cached)
             THEN [at |-> "answered", place |-> x, since |-> now, data |-> cached.data]
             ELSE [at |-> "search", place |-> x, since |-> now, data |-> {}]]
  /\ UNCHANGED <<now, geoVars, cache, report>>

InReach(x) == {w \in Workers : geo[w] \in Reach[x]}

\* Mutant of Results: the search returns the places.
ResultPlaces(x) == {{geo[w] : w \in InReach(x)}}

\* GEOSEARCH ... BYRADIUS 5 km ASC COUNT 20: distances are left out, so any Count
\* of the workers in reach may be the nearest.
Results(x) ==
  IF Cardinality(InReach(x)) <= Count THEN {InReach(x)}
  ELSE {S \in SUBSET InReach(x) : Cardinality(S) = Count}

\* redis-geo executes the search; its answer is on its way.
Search(q) ==
  /\ query[q].at = "search"
  /\ \E found \in Results(query[q].place) :
       query' = [query EXCEPT ![q].at = "store", ![q].data = found]
  /\ UNCHANGED <<now, geoVars, cache, report>>

SearchFails(q) ==
  /\ query[q].at \in {"search", "store"}
  /\ query' = [query EXCEPT ![q] = NoQuery("error")]
  /\ UNCHANGED <<now, geoVars, cache, report>>

Size(m) == Cardinality({c \in Cells : m[c] # None})

\* Entries older than the TTL go, once there are more than CacheMax.
Evict(m) ==
  IF Size(m) <= CacheMax THEN m
  ELSE [c \in Cells |-> IF m[c] # None /\ m[c].ts < now - Ttl THEN None ELSE m[c]]

\* Mutant of Store: it makes room before it inserts.
StoreLast(q) ==
  /\ query[q].at = "store"
  /\ cache' = [Evict(cache) EXCEPT ![CellOf[query[q].place]] =
                 [data |-> query[q].data, ts |-> now]]
  /\ query' = [query EXCEPT ![q].at = "answered", ![q].since = now]
  /\ UNCHANGED <<now, geoVars, report>>

\* The answer arrives: the entry counts its age from here.
Store(q) ==
  /\ query[q].at = "store"
  /\ cache' = Evict([cache EXCEPT ![CellOf[query[q].place]] =
                       [data |-> query[q].data, ts |-> now]])
  /\ query' = [query EXCEPT ![q].at = "answered", ![q].since = now]
  /\ UNCHANGED <<now, geoVars, report>>

\* The process is replaced: its cache is empty and its queries are gone.
Die ==
  /\ \E c \in Cells : cache[c] # None
  /\ cache' = [c \in Cells |-> None]
  /\ query' = [q \in Queries |->
                 IF query[q].at \in {"search", "store"}
                 THEN NoQuery("error") ELSE query[q]]
  /\ UNCHANGED <<now, geoVars, report>>

\* Time passes, but not beyond what a search may last.
Tick ==
  /\ now < MaxTime
  /\ \A q \in Queries :
       query[q].at \in {"search", "store"} => now < query[q].since + SearchMax
  /\ now' = now + 1
  /\ UNCHANGED <<geoVars, cache, report, query>>
-----------------------------------------------------------------------------
UpdateGps(g) == GeoAdd(g) \/ SetAlive(g) \/ PipelineBreaks(g)

GetNearby(q) == Ask(q) \/ Search(q) \/ SearchFails(q) \/ Store(q)

Next ==
  \/ \E g \in Reports : UpdateGps(g)
  \/ HandleGpsUpdate
  \/ \E q \in Queries : GetNearby(q)
  \/ \E w \in Workers : AliveExpires(w)
  \/ GeoLost
  \/ Die
  \/ Tick

Spec == Init /\ [][Next]_vars
-----------------------------------------------------------------------------
(* Correctness *)

\* A result of a search at place x is right about worker w.
Agrees(data, x, w) ==
  /\ w \in data => geo[w] \in Reach[x]
  /\ geo[w] \in Reach[x] => w \in data \/ Cardinality(data) = Count

(***************************************************************************)
(* A worker who has stood still for CACHE_TTL_MS and the duration of a     *)
(* search is found by every query whose cell he is near, and by none that  *)
(* he is far from, whatever searches overlap, in whatever order their      *)
(* answers are stored, and whoever of the cell asked first.                *)
(***************************************************************************)
StandingWorkersAreFound ==
  \A q \in Queries : query[q].at = "answered" =>
    \E x \in Places :
      /\ CellOf[x] = CellOf[query[q].place]
      /\ \A w \in Workers :
           moved[w] + Lag <= query[q].since => Agrees(query[q].data, x, w)

(***************************************************************************)
(* "Evict entries older than CACHE_TTL_MS to prevent unbounded growth"     *)
(* (workers.service.ts): above CacheMax entries the cache holds only what  *)
(* one TTL has brought, so that it is as large as the traffic of a TTL.    *)
(***************************************************************************)
CacheBounded ==
  Size(cache) > CacheMax =>
    \A c, d \in Cells : cache[c] # None /\ cache[d] # None =>
      cache[d].ts - cache[c].ts <= Ttl
=============================================================================

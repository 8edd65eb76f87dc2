---------------------------- MODULE NearbyProofs ----------------------------
(***************************************************************************)
(* Why a cached search is never further from the truth than Lag.  A result *)
(* is right about every worker who has not moved since the search began;   *)
(* the invariant carries that fact from the query that searches to the     *)
(* entry that it stores, and from the entry to the queries that hit it.    *)
(***************************************************************************)
EXTENDS Nearby, FiniteSetTheorems, TLAPS

\* The result of a search at x is right about those who last moved before t.
RightSince(data, x, t) ==
  \A w \in Workers : moved[w] < t => Agrees(data, x, w)

SearchesAreRight ==
  \A q \in Queries :
    /\ query[q].since <= now
    /\ query[q].at \in {"search", "store"} =>
         query[q].place \in Places /\ now <= query[q].since + SearchMax
    /\ query[q].at = "store" =>
         RightSince(query[q].data, query[q].place, query[q].since)

\* An entry is right for some place of its cell.
EntriesAreRight ==
  \A c \in Cells : cache[c] # None =>
    /\ cache[c].ts <= now
    /\ \E x \in Places :
         CellOf[x] = c /\ RightSince(cache[c].data, x, cache[c].ts - SearchMax)

AnswersAreRight ==
  \A q \in Queries : query[q].at = "answered" =>
    /\ query[q].place \in Places
    /\ \E x \in Places :
         /\ CellOf[x] = CellOf[query[q].place]
         /\ RightSince(query[q].data, x, query[q].since - Lag + 1)

IInv == TypeOK /\ SearchesAreRight /\ EntriesAreRight /\ AnswersAreRight
-----------------------------------------------------------------------------
(* Results and moves *)

\* What the assumptions say of the constants.
LEMMA Constants ==
  /\ Lag \in Int /\ Lag = Ttl + SearchMax /\ Lag >= 1
  /\ Ttl \in Int /\ Ttl >= 1
  /\ SearchMax \in Int /\ SearchMax >= 0
  /\ MaxTime \in Int /\ MaxTime >= 0
  /\ Time \subseteq Int
  /\ (0 - Lag)..MaxTime \subseteq Int
BY NearbyAssumption DEF Lag, Time

(* A result that is right since t is right since any earlier time.             *)
LEMMA RightEarlier ==
  ASSUME TypeOK, NEW data, NEW x, NEW t \in Int, NEW u \in Int, u <= t,
         RightSince(data, x, t)
  PROVE  RightSince(data, x, u)
<1> SUFFICES ASSUME NEW w \in Workers, moved[w] < u PROVE Agrees(data, x, w)
  BY DEF RightSince
<1>1. moved[w] \in Int
  BY Constants DEF TypeOK
<1>2. moved[w] < t
  BY <1>1
<1> QED
  BY <1>2 DEF RightSince

\* Some workers move and the others stay; nothing else happens to the positions.
WorkersMove ==
  \A w \in Workers :
    \/ geo'[w] = geo[w] /\ moved'[w] = moved[w]
    \/ moved'[w] = now

(* Whoever moves is no longer a worker that the result is about.               *)
LEMMA RightAfterMove ==
  ASSUME TypeOK, WorkersMove, NEW data, NEW x, NEW t \in Int, t <= now,
         RightSince(data, x, t)
  PROVE  RightSince(data, x, t)'
<1> SUFFICES ASSUME NEW w \in Workers, moved'[w] < t PROVE Agrees(data, x, w)'
  BY DEF RightSince
<1>1. now \in Int
  BY Constants DEF TypeOK
<1>2. geo'[w] = geo[w] /\ moved'[w] = moved[w]
  BY <1>1 DEF WorkersMove
<1>3. Agrees(data, x, w)
  BY <1>2 DEF RightSince
<1> QED
  BY <1>2, <1>3 DEF Agrees

(* A step that moves workers and touches neither cache, query nor clock.       *)
LEMMA MoveKeeps ==
  ASSUME IInv, TypeOK', WorkersMove, UNCHANGED <<now, cache, query>>
  PROVE  IInv'
<1>0. now \in Int /\ \A q \in Queries : query[q].since \in Int
  BY Constants DEF IInv, TypeOK
<1>1. SearchesAreRight'
  <2> SUFFICES ASSUME NEW q \in Queries, query[q].at = "store"
               PROVE  RightSince(query[q].data, query[q].place, query[q].since)'
    BY DEF IInv, SearchesAreRight
  <2>1. /\ RightSince(query[q].data, query[q].place, query[q].since)
        /\ query[q].since <= now
    BY DEF IInv, SearchesAreRight
  <2>2. RightSince(query[q].data, query[q].place, query[q].since)'
    BY <1>0, <2>1, RightAfterMove DEF IInv, RightSince, Agrees
  <2> QED
    BY <2>2
<1>2. EntriesAreRight'
  <2> SUFFICES ASSUME NEW c \in Cells, cache[c] # None
               PROVE  \E x \in Places : CellOf[x] = c
                        /\ RightSince(cache[c].data, x, cache[c].ts - SearchMax)'
    BY DEF IInv, EntriesAreRight
  <2>1. cache[c] \in Entry /\ cache[c].ts \in Int /\ cache[c].ts <= now
    BY Constants DEF IInv, TypeOK, EntriesAreRight, Entry
  <2>2. PICK x \in Places : CellOf[x] = c
               /\ RightSince(cache[c].data, x, cache[c].ts - SearchMax)
    BY DEF IInv, EntriesAreRight
  <2>3. cache[c].ts - SearchMax \in Int /\ cache[c].ts - SearchMax <= now
    BY <1>0, <2>1, Constants
  <2>4. RightSince(cache[c].data, x, cache[c].ts - SearchMax)'
    BY <2>2, <2>3, RightAfterMove DEF IInv, RightSince, Agrees
  <2> QED
    BY <2>2, <2>4
<1>3. AnswersAreRight'
  <2> SUFFICES ASSUME NEW q \in Queries, query[q].at = "answered"
               PROVE  \E x \in Places : CellOf[x] = CellOf[query[q].place]
                        /\ RightSince(query[q].data, x, query[q].since - Lag + 1)'
    BY DEF IInv, AnswersAreRight
  <2>2. PICK x \in Places : CellOf[x] = CellOf[query[q].place]
               /\ RightSince(query[q].data, x, query[q].since - Lag + 1)
    BY DEF IInv, AnswersAreRight
  <2>3. query[q].since - Lag + 1 \in Int /\ query[q].since - Lag + 1 <= now
    BY <1>0, Constants DEF IInv, SearchesAreRight
  <2>4. PICK t \in Int : t = query[q].since - Lag + 1 /\ t <= now
    BY <2>3
  <2>5. RightSince(query[q].data, x, t)'
    BY <2>2, <2>4, RightAfterMove DEF IInv, RightSince, Agrees
  <2>6. t = query'[q].since - Lag' + 1
    BY <2>4 DEF Lag
  <2> QED
    BY <2>2, <2>5, <2>6
<1> QED
  BY <1>1, <1>2, <1>3 DEF IInv
-----------------------------------------------------------------------------
(* The steps *)

(* A report puts a worker where he is.                                         *)
LEMMA LocatedMoves ==
  ASSUME TypeOK, NEW w \in Workers, NEW x \in Places, Located(w, x)
  PROVE  /\ WorkersMove
         /\ geo' \in [Workers -> Places \cup {None}]
         /\ moved' \in [Workers -> (0 - Lag)..MaxTime]
<1>1. now \in (0 - Lag)..MaxTime
  BY Constants DEF TypeOK, Time
<1>2. moved' = [moved EXCEPT ![w] = IF geo[w] = x THEN moved[w] ELSE now]
  BY DEF Located
<1>3. WorkersMove
  BY <1>2 DEF TypeOK, Located, WorkersMove
<1>4. moved' \in [Workers -> (0 - Lag)..MaxTime]
  BY <1>1, <1>2 DEF TypeOK
<1>5. geo' \in [Workers -> Places \cup {None}]
  BY DEF TypeOK, Located
<1> QED
  BY <1>3, <1>4, <1>5

\* A restart of redis-geo moves nobody.
LEMMA GeoLostMoves ==
  ASSUME TypeOK, GeoLost
  PROVE  WorkersMove /\ moved' \in [Workers -> (0 - Lag)..MaxTime]
<1>1. now \in (0 - Lag)..MaxTime
  BY Constants DEF TypeOK, Time
<1> QED
  BY <1>1 DEF GeoLost, WorkersMove

(* What a search returns is right about every worker, at that moment.          *)
LEMMA ResultsAgree ==
  ASSUME NEW x, NEW found \in Results(x)
  PROVE  found \subseteq Workers /\ \A w \in Workers : Agrees(found, x, w)
<1>1. CASE found = InReach(x)
  BY <1>1 DEF InReach, Agrees
<1>2. CASE found \in SUBSET InReach(x) /\ Cardinality(found) = Count
  BY <1>2 DEF InReach, Agrees
<1> QED
  BY <1>1, <1>2 DEF Results

(* Evicting only removes entries.                                              *)
LEMMA EvictRemoves ==
  ASSUME NEW m \in [Cells -> Entry \cup {None}]
  PROVE  /\ Evict(m) \in [Cells -> Entry \cup {None}]
         /\ \A c \in Cells : Evict(m)[c] \in {m[c], None}
BY DEF Evict

(* The entry that an answer makes, as one function of the cells.               *)
LEMMA StoreEntries ==
  ASSUME TypeOK, NEW q \in Queries, query[q].at = "store", query[q].place \in Places, Store(q)
  PROVE  /\ cache' \in [Cells -> Entry \cup {None}]
         /\ \A c \in Cells :
              \/ cache'[c] \in {cache[c], None}
              \/ /\ c = CellOf[query[q].place]
                 /\ cache'[c] = [data |-> query[q].data, ts |-> now]
<1> DEFINE e == [data |-> query[q].data, ts |-> now]
           m == [cache EXCEPT ![CellOf[query[q].place]] = e]
<1>1. e \in Entry
  BY DEF TypeOK, Entry
<1>2. m \in [Cells -> Entry \cup {None}]
  BY <1>1 DEF TypeOK
<1>3. cache' = Evict(m)
  BY DEF Store
<1>4. \A c \in Cells : m[c] = cache[c] \/ (c = CellOf[query[q].place] /\ m[c] = e)
  BY DEF TypeOK
<1> HIDE DEF e, m
<1>5. cache' \in [Cells -> Entry \cup {None}] /\ \A c \in Cells : cache'[c] \in {m[c], None}
  BY <1>2, <1>3, EvictRemoves
<1>6. \A c \in Cells : \/ cache'[c] \in {cache[c], None}
                       \/ c = CellOf[query[q].place] /\ cache'[c] = e
  BY <1>4, <1>5
<1> QED
  BY <1>5, <1>6 DEF e

(* Every variable keeps its type.                                              *)
LEMMA TypeStep == IInv /\ [Next]_vars => TypeOK'
<1> SUFFICES ASSUME IInv, [Next]_vars PROVE TypeOK'
  OBVIOUS
<1>0. TypeOK /\ now \in Time
  BY DEF IInv, TypeOK
<1>1. ASSUME NEW g \in Reports, GeoAdd(g) PROVE TypeOK'
  <2>1. PICK w \in Workers, x \in Places : Located(w, x) /\ report' = [report EXCEPT ![g] = w]
    BY <1>1 DEF GeoAdd
  <2>2. /\ geo' \in [Workers -> Places \cup {None}]
        /\ moved' \in [Workers -> (0 - Lag)..MaxTime]
    BY <1>0, <2>1, LocatedMoves
  <2> QED
    BY <1>0, <1>1, <2>1, <2>2 DEF TypeOK, GeoAdd, Time, Lag
<1>2. ASSUME NEW g \in Reports, SetAlive(g) \/ PipelineBreaks(g) PROVE TypeOK'
  BY <1>0, <1>2 DEF TypeOK, SetAlive, PipelineBreaks, geoVars, Time, Lag
<1>3. ASSUME HandleGpsUpdate PROVE TypeOK'
  <2>1. PICK w \in Workers, x \in Places : Located(w, x)
    BY <1>3 DEF HandleGpsUpdate
  <2>2. /\ geo' \in [Workers -> Places \cup {None}]
        /\ moved' \in [Workers -> (0 - Lag)..MaxTime]
    BY <1>0, <2>1, LocatedMoves
  <2> QED
    BY <1>0, <1>3, <2>2 DEF TypeOK, HandleGpsUpdate, Time, Lag
<1>4. ASSUME NEW q \in Queries, Ask(q) PROVE TypeOK'
  <2>1. PICK x \in Places : query' = [query EXCEPT ![q] =
           IF Fresh(cache[CellOf[x]])
           THEN [at |-> "answered", place |-> x, since |-> now,
                 data |-> cache[CellOf[x]].data]
           ELSE [at |-> "search", place |-> x, since |-> now, data |-> {}]]
    BY <1>4 DEF Ask
  <2>2. CellOf[x] \in Cells
    BY NearbyAssumption
  <2>3. Fresh(cache[CellOf[x]]) => cache[CellOf[x]].data \in SUBSET Workers
    BY <1>0, <2>2 DEF TypeOK, Fresh, Entry
  <2>4. query' \in [Queries -> [at : {"idle", "search", "store", "answered", "error"},
                                place : Places \cup {None}, since : Time,
                                data : SUBSET Workers]]
    BY <1>0, <2>1, <2>3 DEF TypeOK
  <2> QED
    BY <1>0, <1>4, <2>4 DEF TypeOK, Ask, geoVars, Entry, Time, Lag
<1>5. ASSUME NEW q \in Queries, Search(q) PROVE TypeOK'
  <2>1. PICK found \in Results(query[q].place) :
          query' = [query EXCEPT ![q].at = "store", ![q].data = found]
    BY <1>5 DEF Search
  <2>2. found \subseteq Workers
    BY ResultsAgree
  <2>4. query' \in [Queries -> [at : {"idle", "search", "store", "answered", "error"},
                                place : Places \cup {None}, since : Time,
                                data : SUBSET Workers]]
    BY <1>0, <2>1, <2>2 DEF TypeOK
  <2> QED
    BY <1>0, <1>5, <2>4 DEF TypeOK, Search, geoVars, Entry, Time, Lag
<1>6. ASSUME NEW q \in Queries, SearchFails(q) PROVE TypeOK'
  <2>1. 0 \in Time
    BY Constants DEF Time
  <2> QED
    BY <1>0, <1>6, <2>1 DEF TypeOK, SearchFails, NoQuery, geoVars, Entry, Time, Lag
<1>7. ASSUME NEW q \in Queries, Store(q) PROVE TypeOK'
  <2>1. cache' \in [Cells -> Entry \cup {None}]
    BY <1>0, <1>7, StoreEntries DEF Store, IInv, SearchesAreRight
  <2>2. query' \in [Queries -> [at : {"idle", "search", "store", "answered", "error"},
                                place : Places \cup {None}, since : Time,
                                data : SUBSET Workers]]
    BY <1>0, <1>7 DEF TypeOK, Store
  <2> QED
    BY <1>0, <1>7, <2>1, <2>2 DEF TypeOK, Store, geoVars, Entry, Time, Lag
<1>8. ASSUME NEW w \in Workers, AliveExpires(w) PROVE TypeOK'
  BY <1>0, <1>8 DEF TypeOK, AliveExpires, Time, Lag
<1>9. ASSUME GeoLost PROVE TypeOK'
  BY <1>0, <1>9, GeoLostMoves DEF TypeOK, GeoLost, Time, Lag
<1>10. ASSUME Die PROVE TypeOK'
  <2>1. 0 \in Time
    BY Constants DEF Time
  <2> QED
    BY <1>0, <1>10, <2>1 DEF TypeOK, Die, NoQuery, geoVars, Entry, Time, Lag
<1>11. ASSUME Tick PROVE TypeOK'
  <2>1. now + 1 \in Time
    BY <1>0, <1>11, Constants DEF Tick, Time
  <2> QED
    BY <1>0, <1>11, <2>1 DEF TypeOK, Tick, geoVars, Entry, Time, Lag
<1>12. CASE UNCHANGED vars
  BY <1>0, <1>12 DEF TypeOK, vars, geoVars, Entry, Time, Lag
<1> QED
  BY <1>1, <1>2, <1>3, <1>4, <1>5, <1>6, <1>7, <1>8, <1>9, <1>10, <1>11, <1>12
  DEF Next, UpdateGps, GetNearby

(* At first nobody has moved, nothing is cached and nobody asks.               *)
LEMMA InitInv == Init => IInv
<1> SUFFICES ASSUME Init PROVE IInv
  OBVIOUS
<1>1. 0 \in Time /\ 0 - Lag \in (0 - Lag)..MaxTime
  BY Constants DEF Time
<1>2. TypeOK
  BY <1>1 DEF Init, TypeOK, NoQuery
<1> QED
  BY <1>2 DEF Init, IInv, NoQuery, SearchesAreRight, EntriesAreRight, AnswersAreRight

(* A query that touches only itself leaves the others as right as they were.   *)
LEMMA OthersKeep ==
  ASSUME IInv, UNCHANGED <<now, geoVars>>,
         NEW q \in Queries, \A p \in Queries \ {q} : query'[p] = query[p]
  PROVE  \A p \in Queries \ {q} :
           /\ query'[p].since <= now'
           /\ query'[p].at \in {"search", "store"} =>
                query'[p].place \in Places /\ now' <= query'[p].since + SearchMax
           /\ query'[p].at = "store" =>
                RightSince(query[p].data, query[p].place, query[p].since)'
           /\ query'[p].at = "answered" =>
                /\ query'[p].place \in Places
                /\ \E x \in Places :
                     /\ CellOf[x] = CellOf[query'[p].place]
                     /\ RightSince(query[p].data, x, query[p].since - Lag + 1)'
<1> TAKE p \in Queries \ {q}
<1>1. query'[p] = query[p] /\ p \in Queries
  OBVIOUS
<1>2. \A data, x, t : RightSince(data, x, t)' <=> RightSince(data, x, t)
  BY DEF RightSince, Agrees, geoVars
<1> QED
  BY <1>1, <1>2 DEF IInv, SearchesAreRight, AnswersAreRight, RightSince, Agrees, geoVars, Lag

\* An answer from the cache is no older than the TTL allows.
LEMMA AskKeeps == ASSUME IInv, TypeOK', NEW q \in Queries, Ask(q) PROVE IInv'
<1>0. TypeOK /\ now \in Int /\ now \in Time
  BY Constants DEF IInv, TypeOK
<1>1. PICK x \in Places : query' = [query EXCEPT ![q] =
         IF Fresh(cache[CellOf[x]])
         THEN [at |-> "answered", place |-> x, since |-> now,
               data |-> cache[CellOf[x]].data]
         ELSE [at |-> "search", place |-> x, since |-> now, data |-> {}]]
  BY DEF Ask
<1>2. UNCHANGED <<now, geoVars>> /\ cache' = cache
  BY DEF Ask
<1>3. \A p \in Queries \ {q} : query'[p] = query[p]
  BY <1>0, <1>1 DEF TypeOK
<1>4. /\ query'[q].since = now' /\ query'[q].place = x
      /\ query'[q].at \in {"search", "answered"}
  BY <1>0, <1>1, <1>2 DEF TypeOK
<1>5. SearchesAreRight'
  BY <1>0, <1>2, <1>3, <1>4, OthersKeep, Constants DEF SearchesAreRight
<1>6. EntriesAreRight'
  BY <1>2 DEF IInv, EntriesAreRight, RightSince, Agrees, geoVars
<1>7. ASSUME query'[q].at = "answered"
      PROVE  \E y \in Places :
               /\ CellOf[y] = CellOf[query'[q].place]
               /\ RightSince(query[q].data, y, query[q].since - Lag + 1)'
  <2> DEFINE c == CellOf[x]
  <2>1. Fresh(cache[c]) /\ query'[q].data = cache[c].data
    BY <1>0, <1>1, <1>7 DEF TypeOK
  <2>2. c \in Cells
    BY NearbyAssumption
  <2>3. cache[c] \in Entry /\ cache[c].ts \in Int /\ now - cache[c].ts < Ttl
    BY <1>0, <2>1, <2>2, Constants DEF TypeOK, Fresh, Entry
  <2>4. PICK y \in Places : CellOf[y] = c /\ RightSince(cache[c].data, y, cache[c].ts - SearchMax)
    BY <2>1, <2>2 DEF IInv, EntriesAreRight, Fresh
  <2>5. /\ now - Lag + 1 \in Int /\ cache[c].ts - SearchMax \in Int
        /\ now - Lag + 1 <= cache[c].ts - SearchMax
    BY <1>0, <2>3, Constants
  <2>6. RightSince(cache[c].data, y, now - Lag + 1)
    BY <1>0, <2>4, <2>5, RightEarlier
  <2> QED
    BY <1>2, <1>4, <2>1, <2>4, <2>6 DEF RightSince, Agrees, geoVars, Lag
<1>8. AnswersAreRight'
  BY <1>2, <1>3, <1>4, <1>7, OthersKeep DEF AnswersAreRight
<1> QED
  BY <1>5, <1>6, <1>8 DEF IInv

\* A search finds who stands in reach.
LEMMA SearchKeeps == ASSUME IInv, TypeOK', NEW q \in Queries, Search(q) PROVE IInv'
<1>0. TypeOK /\ now \in Int
  BY Constants DEF IInv, TypeOK
<1>1. PICK found \in Results(query[q].place) :
        query' = [query EXCEPT ![q].at = "store", ![q].data = found]
  BY DEF Search
<1>2. UNCHANGED <<now, geoVars>> /\ cache' = cache /\ query[q].at = "search"
  BY DEF Search
<1>3. \A p \in Queries \ {q} : query'[p] = query[p]
  BY <1>0, <1>1 DEF TypeOK
<1>4. /\ query'[q].since = query[q].since /\ query'[q].place = query[q].place
      /\ query'[q].at = "store" /\ query'[q].data = found
  BY <1>0, <1>1 DEF TypeOK
<1>5. \A w \in Workers : Agrees(found, query[q].place, w)
  BY ResultsAgree
<1>6. RightSince(query[q].data, query[q].place, query[q].since)'
  BY <1>2, <1>4, <1>5 DEF RightSince, Agrees, geoVars
<1>7. /\ query[q].since <= now /\ query[q].place \in Places
      /\ now <= query[q].since + SearchMax
  BY <1>2 DEF IInv, SearchesAreRight
<1>8. SearchesAreRight'
  BY <1>2, <1>3, <1>4, <1>6, <1>7, OthersKeep DEF SearchesAreRight
<1>9. EntriesAreRight'
  BY <1>2 DEF IInv, EntriesAreRight, RightSince, Agrees, geoVars
<1>10. AnswersAreRight'
  BY <1>2, <1>3, <1>4, OthersKeep DEF AnswersAreRight
<1> QED
  BY <1>8, <1>9, <1>10 DEF IInv

\* What is stored is as old as its search.
LEMMA StoreKeeps == ASSUME IInv, TypeOK', NEW q \in Queries, Store(q) PROVE IInv'
<1>0. TypeOK /\ now \in Int
  BY Constants DEF IInv, TypeOK
<1>1. query' = [query EXCEPT ![q].at = "answered", ![q].since = now]
  BY DEF Store
<1>2. UNCHANGED <<now, geoVars>> /\ query[q].at = "store"
  BY DEF Store
<1>3. \A p \in Queries \ {q} : query'[p] = query[p]
  BY <1>0, <1>1 DEF TypeOK
<1>4. /\ query'[q].since = now' /\ query'[q].place = query[q].place
      /\ query'[q].at = "answered" /\ query'[q].data = query[q].data
  BY <1>0, <1>1, <1>2 DEF TypeOK
<1>5. /\ query[q].since <= now /\ query[q].place \in Places
      /\ now <= query[q].since + SearchMax /\ query[q].since \in Int
      /\ RightSince(query[q].data, query[q].place, query[q].since)
  BY <1>0, <1>2, Constants DEF IInv, TypeOK, SearchesAreRight
<1>6. \A data, x, t : RightSince(data, x, t)' <=> RightSince(data, x, t)
  BY <1>2 DEF RightSince, Agrees, geoVars
<1>7. RightSince(query[q].data, query[q].place, now - SearchMax)
  BY <1>0, <1>5, RightEarlier, Constants
<1>8. RightSince(query[q].data, query[q].place, now - Lag + 1)
  BY <1>0, <1>5, RightEarlier, Constants
<1>9. SearchesAreRight'
  BY <1>0, <1>2, <1>3, <1>4, OthersKeep DEF SearchesAreRight
<1>10. EntriesAreRight'
  <2> SUFFICES ASSUME NEW c \in Cells, cache'[c] # None
               PROVE  /\ cache'[c].ts <= now
                      /\ \E x \in Places : CellOf[x] = c
                           /\ RightSince(cache'[c].data, x, cache'[c].ts - SearchMax)
    BY <1>2 DEF EntriesAreRight, RightSince, Agrees, geoVars
  <2>1. \/ cache'[c] = cache[c]
        \/ /\ c = CellOf[query[q].place]
           /\ cache'[c] = [data |-> query[q].data, ts |-> now]
    BY <1>0, <1>2, <1>5, StoreEntries
  <2>2. CASE cache'[c] = cache[c]
    BY <2>2 DEF IInv, EntriesAreRight
  <2>3. CASE c = CellOf[query[q].place] /\ cache'[c] = [data |-> query[q].data, ts |-> now]
    BY <1>0, <1>5, <1>7, <2>3
  <2> QED
    BY <2>1, <2>2, <2>3
<1>11. RightSince(query[q].data, query[q].place, query[q].since - Lag + 1)'
  BY <1>2, <1>4, <1>8 DEF RightSince, Agrees, geoVars, Lag
<1>12. AnswersAreRight'
  BY <1>2, <1>3, <1>4, <1>5, <1>11, OthersKeep DEF AnswersAreRight, RightSince, Agrees, geoVars, Lag
<1> QED
  BY <1>9, <1>10, <1>12 DEF IInv

(* Searches that are given up, and entries that are lost, say nothing wrong.   *)
LEMMA LossKeeps ==
  ASSUME IInv, TypeOK', UNCHANGED <<now, geoVars>>,
         \A c \in Cells : cache'[c] \in {cache[c], None},
         \A q \in Queries : query'[q] \in {query[q], NoQuery("error")}
  PROVE  IInv'
<1>1. \A data, x, t : RightSince(data, x, t)' <=> RightSince(data, x, t)
  BY DEF RightSince, Agrees, geoVars
<1>2. now \in Int /\ now >= 0
  BY Constants DEF IInv, TypeOK, Time
<1>3. SearchesAreRight'
  <2> SUFFICES ASSUME NEW q \in Queries
               PROVE  /\ query'[q].since <= now
                      /\ query'[q].at \in {"search", "store"} =>
                           query'[q].place \in Places /\ now <= query'[q].since + SearchMax
                      /\ query'[q].at = "store" =>
                           RightSince(query'[q].data, query'[q].place, query'[q].since)
    BY DEF SearchesAreRight, RightSince, Agrees, geoVars
  <2>1. CASE query'[q] = query[q]
    BY <2>1 DEF IInv, SearchesAreRight
  <2>2. CASE query'[q] = NoQuery("error")
    BY <1>2, <2>2 DEF NoQuery
  <2> QED
    BY <2>1, <2>2
<1>4. EntriesAreRight'
  <2> SUFFICES ASSUME NEW c \in Cells, cache'[c] # None
               PROVE  /\ cache'[c].ts <= now
                      /\ \E x \in Places : CellOf[x] = c
                           /\ RightSince(cache'[c].data, x, cache'[c].ts - SearchMax)
    BY DEF EntriesAreRight, RightSince, Agrees, geoVars
  <2> QED
    BY DEF IInv, EntriesAreRight
<1>5. AnswersAreRight'
  <2> SUFFICES ASSUME NEW q \in Queries, query'[q].at = "answered"
               PROVE  /\ query'[q].place \in Places
                      /\ \E x \in Places :
                           /\ CellOf[x] = CellOf[query'[q].place]
                           /\ RightSince(query'[q].data, x, query'[q].since - Lag + 1)
    BY DEF AnswersAreRight, RightSince, Agrees, geoVars, Lag
  <2>1. query'[q] = query[q]
    BY DEF NoQuery
  <2> QED
    BY <2>1 DEF IInv, AnswersAreRight
<1> QED
  BY <1>3, <1>4, <1>5 DEF IInv

(* No search outlasts SearchMax, because time does not pass beyond it.         *)
LEMMA TickKeeps == ASSUME IInv, TypeOK', Tick PROVE IInv'
<1>0. now \in Int /\ now' = now + 1 /\ UNCHANGED <<geoVars, cache, query>>
  BY Constants DEF IInv, TypeOK, Tick
<1>1. \A data, x, t : RightSince(data, x, t)' <=> RightSince(data, x, t)
  BY <1>0 DEF RightSince, Agrees, geoVars
<1>2. SearchesAreRight'
  <2> SUFFICES ASSUME NEW q \in Queries
               PROVE  /\ query[q].since <= now + 1
                      /\ query[q].at \in {"search", "store"} =>
                           query[q].place \in Places /\ now + 1 <= query[q].since + SearchMax
                      /\ query[q].at = "store" =>
                           RightSince(query[q].data, query[q].place, query[q].since)
    BY <1>0 DEF SearchesAreRight, RightSince, Agrees, geoVars
  <2>1. query[q].since \in Int
    BY Constants DEF IInv, TypeOK
  <2>2. query[q].at \in {"search", "store"} => now < query[q].since + SearchMax
    BY DEF Tick
  <2> QED
    BY <1>0, <2>1, <2>2, Constants DEF IInv, SearchesAreRight
<1>3. EntriesAreRight'
  <2> SUFFICES ASSUME NEW c \in Cells, cache[c] # None
               PROVE  /\ cache[c].ts <= now + 1
                      /\ \E x \in Places : CellOf[x] = c
                           /\ RightSince(cache[c].data, x, cache[c].ts - SearchMax)
    BY <1>0 DEF EntriesAreRight, RightSince, Agrees, geoVars
  <2>1. cache[c].ts \in Int
    BY Constants DEF IInv, TypeOK, Entry
  <2> QED
    BY <1>0, <2>1 DEF IInv, EntriesAreRight
<1>4. AnswersAreRight'
  BY <1>0 DEF IInv, AnswersAreRight, RightSince, Agrees, geoVars, Lag
<1> QED
  BY <1>2, <1>3, <1>4 DEF IInv

\* Every step keeps the invariant.
LEMMA InvStep == IInv /\ [Next]_vars => IInv'
<1> SUFFICES ASSUME IInv, [Next]_vars PROVE IInv'
  OBVIOUS
<1>0. TypeOK /\ TypeOK'
  BY TypeStep DEF IInv
<1>1. ASSUME NEW g \in Reports, GeoAdd(g) PROVE IInv'
  BY <1>0, <1>1, LocatedMoves, MoveKeeps DEF GeoAdd
<1>2. ASSUME NEW g \in Reports, SetAlive(g) \/ PipelineBreaks(g) PROVE IInv'
  <2>1. WorkersMove /\ UNCHANGED <<now, cache, query>>
    BY <1>2 DEF SetAlive, PipelineBreaks, geoVars, WorkersMove
  <2> QED
    BY <1>0, <2>1, MoveKeeps
<1>3. ASSUME HandleGpsUpdate PROVE IInv'
  BY <1>0, <1>3, LocatedMoves, MoveKeeps DEF HandleGpsUpdate
<1>4. ASSUME NEW q \in Queries, Ask(q) PROVE IInv'
  BY <1>0, <1>4, AskKeeps
<1>5. ASSUME NEW q \in Queries, Search(q) PROVE IInv'
  BY <1>0, <1>5, SearchKeeps
<1>6. ASSUME NEW q \in Queries, SearchFails(q) PROVE IInv'
  <2>1. \A p \in Queries : query'[p] \in {query[p], NoQuery("error")}
    BY <1>0, <1>6 DEF TypeOK, SearchFails
  <2> QED
    BY <1>0, <1>6, <2>1, LossKeeps DEF SearchFails
<1>7. ASSUME NEW q \in Queries, Store(q) PROVE IInv'
  BY <1>0, <1>7, StoreKeeps
<1>8. ASSUME NEW w \in Workers, AliveExpires(w) PROVE IInv'
  <2>1. WorkersMove /\ UNCHANGED <<now, cache, query>>
    BY <1>8 DEF AliveExpires, WorkersMove
  <2> QED
    BY <1>0, <2>1, MoveKeeps
<1>9. ASSUME GeoLost PROVE IInv'
  BY <1>0, <1>9, GeoLostMoves, MoveKeeps DEF GeoLost
<1>10. ASSUME Die PROVE IInv'
  <2>1. \A p \in Queries : query'[p] \in {query[p], NoQuery("error")}
    BY <1>0, <1>10 DEF TypeOK, Die
  <2>2. \A c \in Cells : cache'[c] \in {cache[c], None}
    BY <1>10 DEF Die
  <2> QED
    BY <1>0, <1>10, <2>1, <2>2, LossKeeps DEF Die
<1>11. ASSUME Tick PROVE IInv'
  BY <1>0, <1>11, TickKeeps
<1>12. CASE UNCHANGED vars
  <2>1. WorkersMove /\ UNCHANGED <<now, cache, query>>
    BY <1>12 DEF vars, geoVars, WorkersMove
  <2> QED
    BY <1>0, <2>1, MoveKeeps
<1> QED
  BY <1>1, <1>2, <1>3, <1>4, <1>5, <1>6, <1>7, <1>8, <1>9, <1>10, <1>11, <1>12
  DEF Next, UpdateGps, GetNearby

(* The inductive invariant holds throughout.                                   *)
THEOREM Invariance == Spec => []IInv
<1> QED
  BY InitInv, InvStep, PTL DEF Spec

(* Every variable keeps its type, whatever the grid and the number of queries. *)
THEOREM TypeCorrect == Spec => []TypeOK
<1>1. IInv => TypeOK
  BY DEF IInv
<1> QED
  BY <1>1, Invariance, PTL

(* A worker who stands still for a TTL and a search is found by every query of *)
(* a cell he is near, for any grid, any TTL and any overlap of searches.       *)
THEOREM StandingAreFound == Spec => []StandingWorkersAreFound
<1>1. IInv => StandingWorkersAreFound
  <2> SUFFICES ASSUME IInv, NEW q \in Queries, query[q].at = "answered"
               PROVE  \E x \in Places :
                        /\ CellOf[x] = CellOf[query[q].place]
                        /\ \A w \in Workers : moved[w] + Lag <= query[q].since =>
                             Agrees(query[q].data, x, w)
    BY DEF StandingWorkersAreFound
  <2>1. PICK x \in Places :
          /\ CellOf[x] = CellOf[query[q].place]
          /\ RightSince(query[q].data, x, query[q].since - Lag + 1)
    BY DEF IInv, AnswersAreRight
  <2>2. query[q].since \in Int /\ \A w \in Workers : moved[w] \in Int
    BY Constants DEF IInv, TypeOK
  <2>3. \A w \in Workers : moved[w] + Lag <= query[q].since =>
                             moved[w] < query[q].since - Lag + 1
    BY <2>2, Constants
  <2> QED
    BY <2>1, <2>3 DEF RightSince
<1> QED
  BY <1>1, Invariance, PTL
-----------------------------------------------------------------------------
(* The size of the cache *)

\* The size of a cache is a number.
LEMMA SizeType == ASSUME NEW m PROVE Size(m) \in Nat
<1>1. IsFiniteSet({c \in Cells : m[c] # None})
  BY NearbyAssumption, FS_Subset
<1> QED
  BY <1>1, FS_CardinalityType DEF Size

(* Above CacheMax, an insertion leaves only what the last TTL has brought.     *)
LEMMA BoundedStep == IInv /\ IInv' /\ CacheBounded /\ [Next]_vars => CacheBounded'
<1> SUFFICES ASSUME IInv, IInv', CacheBounded, [Next]_vars PROVE CacheBounded'
  OBVIOUS
<1>1. CASE UNCHANGED cache
  BY <1>1 DEF CacheBounded, Size
<1>2. ASSUME Die PROVE CacheBounded'
  BY <1>2 DEF CacheBounded, Die
<1>3. ASSUME NEW q \in Queries, Store(q) PROVE CacheBounded'
  <2> DEFINE m == [cache EXCEPT ![CellOf[query[q].place]] =
                     [data |-> query[q].data, ts |-> now]]
  <2>1. cache' = Evict(m) /\ now' = now /\ now \in Int
    BY <1>3, Constants DEF Store, IInv, TypeOK
  <2> HIDE DEF m
  <2>2. CASE Size(m) <= CacheMax
    <3>1. cache' = m
      BY <2>1, <2>2 DEF Evict
    <3>2. ~(Size(m) > CacheMax)
      <4>1. Size(m) \in Int
        BY SizeType
      <4> QED
        BY <2>2, <4>1, NearbyAssumption
    <3> QED
      BY <3>1, <3>2 DEF CacheBounded, Size
  <2>3. CASE ~(Size(m) <= CacheMax)
    <3> SUFFICES ASSUME NEW c \in Cells, NEW d \in Cells, cache'[c] # None, cache'[d] # None
                 PROVE  cache'[d].ts - cache'[c].ts <= Ttl
      BY DEF CacheBounded
    <3>1. /\ cache'[c].ts \in Int /\ cache'[d].ts \in Int
          /\ cache'[d].ts <= now
      BY <2>1, Constants DEF IInv, TypeOK, EntriesAreRight, Entry
    <3>2. cache' = [b \in Cells |-> IF m[b] # None /\ m[b].ts < now - Ttl
                                    THEN None ELSE m[b]]
      BY <2>1, <2>3 DEF Evict
    <3>3. ~(cache'[c].ts < now - Ttl)
      BY <3>2
    <3> QED
      BY <2>1, <3>1, <3>3, Constants
  <2> QED
    BY <2>2, <2>3
<1> QED
  BY <1>1, <1>2, <1>3 DEF Next, vars, UpdateGps, GetNearby, GeoAdd, SetAlive, PipelineBreaks,
     HandleGpsUpdate, Ask, Search, SearchFails, AliveExpires, GeoLost, Tick

(* The cache holds more than CacheMax entries only of one TTL's traffic.       *)
THEOREM CacheIsBounded == Spec => []CacheBounded
<1>1. Init => CacheBounded
  BY DEF Init, CacheBounded
<1> QED
  BY <1>1, Invariance, BoundedStep, PTL DEF Spec
=============================================================================

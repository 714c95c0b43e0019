----------------------------- MODULE LocalData -----------------------------
(***************************************************************************)
(* What the server keeps in its SQLite file beside the resources           *)
(* (internal/repository/node_cache.go, health_history.go,                  *)
(* operation_events.go, local_sqlite.go): the nodes that subscriptions and *)
(* imports bring, the health checks of nodes, and the operation events.    *)
(* Every action is one critical section of the store, but for a health     *)
(* check, which finds its node in one and records its result in another.   *)
(* A client that reads events asks for one page after the other.           *)
(*                                                                         *)
(* Times are stored as text (RFC3339Nano) and compared as text.  A time is *)
(* a second and the digits of its fraction without trailing zeros, as the  *)
(* text has it.  Left out: what events say but for their severity.         *)
(***************************************************************************)
EXTENDS Integers, Sequences, FiniteSets

CONSTANTS
    Keys,          \* dedup keys of nodes: type, server, port and tag
    Tags, TagOf,   \* their tags
    Subscriptions, \* their ids
    NodeSets,      \* ids of node sets
    ManagedSet,    \* the node set of each subscription
    Contents,      \* what else a node holds
    Clients,       \* handlers of health checks
    CheckTypes,    \* what users give as the type of a check
    Times,         \* the moments at which something happens, in their order
    Limits,        \* page sizes and numbers of samples users ask for
    Queries,       \* what clients that read events ask for
    None,
    MaxIds,        \* bound on samples, and on events
    MaxResets      \* bound on resets of the file

Severities == {"info", "error"}
\* Who lists nodes: node_cache_sources.source_type and source_id.
Sources == [type : {"subscription"}, id : Subscriptions]
             \cup [type : {"import", "manual"}, id : NodeSets]
Moments == {Times[i] : i \in 1..Len(Times)}

ASSUME SetsOfSubscriptions == ManagedSet \in [Subscriptions -> NodeSets]
ASSUME TagsOfKeys == TagOf \in [Keys -> Tags]
ASSUME TimesAreTimes == Moments \subseteq [sec : Nat, frac : Seq(0..9)]
ASSUME SomeTime == Len(Times) \in Nat \ {0}
ASSUME BoundsAreNat == {MaxIds, MaxResets} \cup Limits \subseteq Nat

Node == [content : Contents, at : Moments]
Check == [node : Keys, type : CheckTypes, at : Moments]
\* None asks for nothing.
Query == [severity : Severities \cup {None}, since : Moments \cup {None},
          until : Moments \cup {None}, limit : Limits]
ASSUME QueriesAreQueries == Queries \subseteq Query
ASSUME NoneIsNothing == None \notin Node \cup Check \cup Moments \cup Severities \cup Query

VARIABLES
    now,           \* the position in Times that the clock shows
    nodes,         \* node_cache_nodes: what is known of each key
    sources,       \* node_cache_sources: which source lists which node
    samples,       \* health_check_samples
    events,        \* operation_events
    lastSample, lastEvent,   \* the last ids given
    check,         \* the health check of each handler: its node, type and start
    reader,        \* a client that reads events page by page
    resets,
    given          \* history: the keys of the last nodes a source brought

NoReader == [query |-> None, next |-> 0, more |-> FALSE, begun |-> {}, before |-> {},
             page |-> {}, again |-> 0]

vars == <<now, nodes, sources, samples, events, lastSample, lastEvent, check, reader, resets, given>>

Init ==
    /\ now = 1
    /\ nodes = [k \in Keys |-> None]
    /\ sources = {}
    /\ samples = {}
    /\ events = {}
    /\ lastSample = 0
    /\ lastEvent = 0
    /\ check = [c \in Clients |-> None]
    /\ reader = NoReader
    /\ resets = 0
    /\ given = [s \in Sources |-> {}]

-----------------------------------------------------------------------------
(* Time as text *)

\* The i-th character of the fraction.  Z follows the last digit, and sorts behind the
\* digits and the point.
Char(t, i) == IF i <= Len(t.frac) THEN t.frac[i] ELSE 10

TextOrder ==
    [p \in Moments \X Moments |->
       LET s == p[1]
           t == p[2]
       IN \/ s.sec < t.sec
          \/ /\ s.sec = t.sec
             /\ \E i \in 1..(Len(s.frac) + 1) :
                  /\ Char(s, i) < Char(t, i)
                  /\ \A j \in 1..(i - 1) : Char(s, j) = Char(t, j)]
TextBefore(s, t) == TextOrder[<<s, t>>]

\* ORDER BY checked_at DESC, id DESC, and the rank of a row in it.
Above(x, y) == TextBefore(y.at, x.at) \/ (x.at = y.at /\ x.id > y.id)

\* Mutant: the order of the ids.
RankMutant(x, rows) == Cardinality({y \in rows : y.id > x.id}) + 1

Rank(x, rows) == Cardinality({y \in rows : Above(y, x)}) + 1

\* queryLimit: nothing asked for is the default, and there is a maximum.
QueryLimit(limit, default, max) ==
    IF limit = 0 THEN default ELSE IF limit > max THEN max ELSE limit

-----------------------------------------------------------------------------
(* The cache of nodes *)

\* Mutant: nodes that the source no longer lists stay listed.
UpsertMutant(s, list) ==
    /\ sources' = sources \cup {<<s, k>> : k \in DOMAIN list}
    /\ \E t \in {Times[i] : i \in 1..now} :
         nodes' = [k \in Keys |-> IF k \in DOMAIN list
                                  THEN [content |-> list[k], at |-> t] ELSE nodes[k]]
    /\ given' = [given EXCEPT ![s] = DOMAIN list]
    /\ UNCHANGED <<now, samples, events, lastSample, lastEvent, check, reader, resets>>

\* UpsertNodeCache, one transaction: what the source listed is forgotten, nodes of one
\* key are one node, with what was stored last.  The time is when the caller had the
\* nodes.  Rows of nodes are never deleted.
UpsertNodeCache(s, list) ==
    /\ sources' = {x \in sources : x[1] # s} \cup {<<s, k>> : k \in DOMAIN list}
    /\ \E t \in {Times[i] : i \in 1..now} :
         nodes' = [k \in Keys |-> IF k \in DOMAIN list
                                  THEN [content |-> list[k], at |-> t] ELSE nodes[k]]
    /\ given' = [given EXCEPT ![s] = DOMAIN list]
    /\ UNCHANGED <<now, samples, events, lastSample, lastEvent, check, reader, resets>>

\* QueryNodeCache for one subscription, and for one node set: the rows of a source have the
\* id of its subscription, if it is one, and that of its node set.
NodeSetOf(s) == IF s.type = "subscription" THEN ManagedSet[s.id] ELSE s.id
ListedBy(S) == {k \in Keys : nodes[k] # None /\ \E s \in S : <<s, k>> \in sources}
NodesOfSubscription(id) == ListedBy({s \in Sources : s.type = "subscription" /\ s.id = id})
NodesOfSet(id) == ListedBy({s \in Sources : NodeSetOf(s) = id})

\* FindNodeCacheNodeByTag: of the nodes with the tag one that was updated last; which of
\* several is a matter of their ids.
FoundByTag(tag) ==
    LET has == {k \in Keys : nodes[k] # None /\ TagOf[k] = tag}
    IN {k \in has : \A m \in has : ~TextBefore(nodes[k].at, nodes[m].at)}

-----------------------------------------------------------------------------
(* Health checks *)

\* The node is found, and then dialled for up to 30 seconds.
StartCheck(c, tag, type) ==
    /\ check[c] = None
    /\ \E k \in FoundByTag(tag) :
         check' = [check EXCEPT ![c] = [node |-> k, type |-> type, at |-> Times[now]]]
    /\ UNCHANGED <<now, nodes, sources, samples, events, lastSample, lastEvent, reader, resets, given>>

\* RecordHealthCheckSample, with the time at which the check started.
RecordSample(c) ==
    /\ check[c] # None
    /\ lastSample < MaxIds
    /\ lastSample' = lastSample + 1
    /\ \E ok \in BOOLEAN :
         samples' = samples \cup {[id |-> lastSample', node |-> check[c].node,
                                   type |-> check[c].type, at |-> check[c].at, ok |-> ok]}
    /\ check' = [check EXCEPT ![c] = None]
    /\ UNCHANGED <<now, nodes, sources, events, lastEvent, reader, resets, given>>

\* Those of one node, of one type or of all.
SamplesOf(k, type) == {x \in samples : x.node = k /\ type \in {None, x.type}}

\* LatestHealthCheckSamples: the first of each node and type.
Latest(k, type) == CHOOSE x \in SamplesOf(k, type) : Rank(x, SamplesOf(k, type)) = 1

\* HealthCheckTrend: the counts are over all samples, the list has its limit.
Trend(k, type, limit) ==
    LET all == SamplesOf(k, type)
        good == Cardinality({x \in all : x.ok})
    IN [samples |-> {x \in all : Rank(x, all) <= QueryLimit(limit, 2, 3)},
        total |-> Cardinality(all), success |-> good, failure |-> Cardinality(all) - good]

\* CleanupHealthHistory: samples before a time, then all but the first few of each node
\* and type; None and 0 ask for neither.
Cleanup(before, max) ==
    /\ LET rest == {x \in samples : before = None \/ ~TextBefore(x.at, before)}
       IN samples' = {x \in rest :
            max = 0 \/ Rank(x, {y \in rest : y.node = x.node /\ y.type = x.type}) <= max}
    /\ UNCHANGED <<now, nodes, sources, events, lastSample, lastEvent, check, reader, resets, given>>

-----------------------------------------------------------------------------
(* Operation events *)

RecordEvent(severity) ==
    /\ lastEvent < MaxIds
    /\ lastEvent' = lastEvent + 1
    /\ events' = events \cup {[id |-> lastEvent', at |-> Times[now], severity |-> severity]}
    /\ UNCHANGED <<now, nodes, sources, samples, lastSample, check, reader, resets, given>>

\* operationEventWhere.
Matching(query) ==
    {e \in events : /\ query.severity # None => e.severity = query.severity
                    /\ query.since # None => ~TextBefore(e.at, query.since)
                    /\ query.until # None => ~TextBefore(query.until, e.at)}

\* Mutant: a page goes on behind the limit, whatever was on the page before.
EventPageMutant(rows, offset, limit) ==
    LET size == QueryLimit(limit, 2, 3)
    IN [rows |-> {e \in rows : Rank(e, rows) \in (offset + 1)..(offset + size)},
        next |-> offset + size + 1, more |-> offset + size < Cardinality(rows)]

\* QueryOperationEvents.
EventPage(rows, offset, limit) ==
    LET page == {e \in rows :
                   Rank(e, rows) \in (offset + 1)..(offset + QueryLimit(limit, 2, 3))}
        next == offset + Cardinality(page)
    IN [rows |-> page, next |-> next, more |-> next < Cardinality(rows)]

\* A client asks for the first page and, while there is more, for the one at nextOffset.
\* History: begun, the events when it began; before, those on the pages before the last
\* one; again, how many rows it was shown once more.
ReadPage(query, offset, begun, seen, again) ==
    /\ LET p == EventPage(Matching(query), offset, query.limit)
       IN reader' = [query |-> query, next |-> p.next, more |-> p.more, begun |-> begun,
                     before |-> seen, page |-> p.rows,
                     again |-> again + Cardinality(p.rows \cap seen)]
    /\ UNCHANGED <<now, nodes, sources, samples, events, lastSample, lastEvent, check,
                   resets, given>>
ReadFirst(query) == ReadPage(query, 0, events, {}, 0)
ReadNext ==
    /\ reader.more
    /\ ReadPage(reader.query, reader.next, reader.begun, reader.before \cup reader.page,
                reader.again)

-----------------------------------------------------------------------------
(* The file and the clock *)

Tick ==
    /\ now < Len(Times)
    /\ now' = now + 1
    /\ UNCHANGED <<nodes, sources, samples, events, lastSample, lastEvent, check, reader, resets, given>>

\* openLocalSQLite in a new server process.
Reopen ==
    /\ check' = [c \in Clients |-> None]
    /\ UNCHANGED <<now, nodes, sources, samples, events, lastSample, lastEvent, reader, resets, given>>

\* A file that is found corrupt is deleted with its logs, and made again; with it go all
\* tables, those of the resources and of the indexes too.  That it happened is noted in a
\* table that nothing reads.  Clients begin again.
Reset ==
    /\ resets < MaxResets
    /\ resets' = resets + 1
    /\ check' = [c \in Clients |-> None]
    /\ reader' = NoReader
    /\ nodes' = [k \in Keys |-> None]
    /\ sources' = {}
    /\ samples' = {}
    /\ events' = {}
    /\ lastSample' = 0 /\ lastEvent' = 0
    /\ given' = [s \in Sources |-> {}]
    /\ UNCHANGED now

Next ==
    \/ \E s \in Sources, ks \in SUBSET Keys : \E list \in [ks -> Contents] :
         UpsertNodeCache(s, list)
    \/ \E c \in Clients :
         RecordSample(c) \/ \E tag \in Tags, type \in CheckTypes : StartCheck(c, tag, type)
    \/ \E before \in Moments \cup {None}, max \in Limits : Cleanup(before, max)
    \/ \E severity \in Severities : RecordEvent(severity)
    \/ ReadNext \/ \E query \in Queries : ReadFirst(query)
    \/ Tick \/ Reopen \/ Reset

Spec == Init /\ [][Next]_vars

-----------------------------------------------------------------------------
(* Properties *)

\* Rows are what they should be; a sample is of a node that is in the cache, and its id
\* was given once.
TypeOK ==
    /\ now \in 1..Len(Times)
    /\ nodes \in [Keys -> {None} \cup Node]
    /\ sources \subseteq Sources \X Keys
    /\ samples \subseteq [id : 1..lastSample, node : {k \in Keys : nodes[k] # None},
                          type : CheckTypes, at : Moments, ok : BOOLEAN]
    /\ \A x, y \in samples : x.id = y.id => x = y
    /\ events \subseteq [id : 1..lastEvent, at : Moments, severity : Severities]
    /\ check \in [Clients -> {None} \cup Check]
    /\ reader \in [query : Queries \cup {None}, next : Nat, more : BOOLEAN, begun : SUBSET events,
                   before : SUBSET events, page : SUBSET events, again : Nat]
    /\ lastSample \in 0..MaxIds /\ lastEvent \in 0..MaxIds /\ resets \in 0..MaxResets
    /\ given \in [Sources -> SUBSET Keys]

\* A subscription lists the nodes it brought last, no others and all of them, although
\* nodes are shared with other sources.  A node set lists those that each of its sources
\* brought last: its subscription or import, and edits by hand, which bring all that the
\* set holds then; so what an edit takes away stays listed while the import lists it.
SourceListsItsNodes ==
    /\ \A id \in Subscriptions :
         NodesOfSubscription(id) = given[[type |-> "subscription", id |-> id]]
    /\ \A id \in NodeSets :
         NodesOfSet(id) = UNION {given[s] : s \in {t \in Sources : NodeSetOf(t) = id}}

\* The check shown as the latest of its node and type started in the last second in which
\* one of them did, in whatever order checks ended; and it is in the trend of that type.
LatestIsNewest ==
    \A k \in Keys, type \in CheckTypes : SamplesOf(k, type) # {} =>
      /\ \A x \in SamplesOf(k, type) : x.at.sec <= Latest(k, type).at.sec
      /\ \A limit \in Limits : Latest(k, type) \in Trend(k, type, limit).samples

\* Whatever cleanup is asked for, of the samples of one node and type an older one never
\* outlives one that is newer by its second.
CleanupKeepsNewest ==
    [][resets' = resets =>
         \A x \in samples \ samples', y \in samples' \cap samples :
           x.node = y.node /\ x.type = y.type => x.at.sec <= y.at.sec]_vars

\* A client that follows nextOffset, while events are recorded between its pages: when it
\* has the last page, it has seen every event that was there when it began and that it
\* asks for, exact to the second of its time limits, and of these none for the first time
\* after one of an earlier second.  It is shown an event again at most once for each event
\* that was recorded since and that it asks for.
EventPagesComplete ==
    reader.query # None =>
      LET query == reader.query
          asked(e) == query.severity \in {None, e.severity}
          seen == reader.before \cup reader.page
      IN /\ ~reader.more => \A e \in reader.begun :
              /\ asked(e)
              /\ query.since # None => e.at.sec > query.since.sec
              /\ query.until # None => e.at.sec < query.until.sec
              => e \in seen
         /\ \A e \in seen :
              /\ asked(e)
              /\ query.since # None => e.at.sec >= query.since.sec
              /\ query.until # None => e.at.sec <= query.until.sec
         /\ \A e \in (reader.page \ reader.before) \cap reader.begun, f \in reader.before :
              e.at.sec <= f.at.sec
         /\ reader.again <= Cardinality(Matching(query) \ reader.begun)
=============================================================================

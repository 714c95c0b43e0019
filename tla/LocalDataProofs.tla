--------------------------- MODULE LocalDataProofs ---------------------------
(***************************************************************************)
(* Proofs about LocalData, for all keys, sources, check types, times,      *)
(* queries, limits and numbers of rows: the types of the tables; a source  *)
(* lists the nodes it brought last; and, from the order in which the texts *)
(* of times compare and the places it gives to rows, what clean-ups keep,  *)
(* which check is the latest, and what a client sees that reads events     *)
(* page by page while others are recorded.                                 *)
(***************************************************************************)
EXTENDS LocalData, FiniteSetTheorems, WellFoundedInduction, TLAPS

\* A node that is listed is stored, and what is listed is what the source brought.
Listed ==
    /\ \A x \in sources : nodes[x[2]] # None
    /\ \A s \in Sources, k \in Keys : <<s, k>> \in sources <=> k \in given[s]
\* A handler checks a node that is stored.
Checked == \A c \in Clients : check[c] # None => nodes[check[c].node] # None

IInv == TypeOK /\ IsFiniteSet(events) /\ Listed /\ Checked

\* Storing nodes of a source: the others keep theirs, and no node is lost.
LEMMA UpsertKeeps ==
  ASSUME IInv, NEW s \in Sources, NEW ks \in SUBSET Keys, NEW list \in [ks -> Contents],
         UpsertNodeCache(s, list)
  PROVE  IInv'
<1>1. DOMAIN list = ks
  OBVIOUS
<1>2. PICK t \in Moments :
        nodes' = [k \in Keys |-> IF k \in ks THEN [content |-> list[k], at |-> t] ELSE nodes[k]]
  <2>1. PICK t \in {Times[i] : i \in 1..now} :
          nodes' = [k \in Keys |-> IF k \in DOMAIN list
                                   THEN [content |-> list[k], at |-> t] ELSE nodes[k]]
    BY Zenon DEF UpsertNodeCache
  <2>2. t \in Moments
    BY SomeTime DEF Moments, IInv, TypeOK
  <2> QED
    BY <1>1, <2>1, <2>2
<1>3. \A k \in ks : [content |-> list[k], at |-> t] \in Node
  BY DEF Node
<1>4. \A k \in Keys : nodes[k] # None => nodes'[k] # None
  BY <1>2, <1>3, NoneIsNothing
<1>5. /\ sources' = {x \in sources : x[1] # s} \cup {<<s, k>> : k \in ks}
      /\ given' = [given EXCEPT ![s] = ks]
      /\ UNCHANGED <<now, samples, events, lastSample, lastEvent, check, reader, resets>>
  BY <1>1 DEF UpsertNodeCache
<1>6. TypeOK'
  <2>1. nodes' \in [Keys -> {None} \cup Node]
    BY <1>2, <1>3 DEF IInv, TypeOK
  <2>2. {k \in Keys : nodes[k] # None} \subseteq {k \in Keys : nodes'[k] # None}
    BY <1>4
  <2>3. samples' \subseteq [id : 1..lastSample', node : {k \in Keys : nodes'[k] # None},
                            type : CheckTypes, at : Moments, ok : BOOLEAN]
    BY <1>5, <2>2 DEF IInv, TypeOK
  <2> QED
    BY <1>5, <2>1, <2>3 DEF IInv, TypeOK
<1>7. Listed'
  <2>1. \A x \in sources' : nodes'[x[2]] # None
    <3>1. \A x \in sources : x[2] \in Keys
      BY DEF IInv, TypeOK
    <3>2. \A k \in ks : nodes'[k] # None
      BY <1>2, <1>3, NoneIsNothing
    <3> QED
      BY <1>4, <1>5, <3>1, <3>2 DEF IInv, Listed
  <2>2. \A r \in Sources, k \in Keys : <<r, k>> \in sources' <=> k \in given'[r]
    BY <1>5 DEF IInv, TypeOK, Listed
  <2> QED
    BY <2>1, <2>2 DEF Listed
<1>8. Checked'
  BY <1>4, <1>5 DEF IInv, TypeOK, Checked, Check
<1>9. IsFiniteSet(events')
  BY <1>5 DEF IInv
<1> QED
  BY <1>6, <1>7, <1>8, <1>9 DEF IInv

\* Asking for a page: what the client then has are numbers and events.
LEMMA ReadPageType ==
  ASSUME TypeOK, IsFiniteSet(events), NEW query \in Queries \cup {None}, NEW offset \in Nat,
         NEW begun \in SUBSET events, NEW seen \in SUBSET events, NEW again \in Nat,
         ReadPage(query, offset, begun, seen, again)
  PROVE  TypeOK'
<1> DEFINE p == EventPage(Matching(query), offset, query.limit)
<1>1. p.rows \subseteq events
  BY DEF EventPage, Matching
<1>2. Cardinality(p.rows) \in Nat /\ Cardinality(p.rows \cap seen) \in Nat
  BY <1>1, FS_Subset, FS_CardinalityType
<1>3. p.next = offset + Cardinality(p.rows) /\ p.more \in BOOLEAN
  BY DEF EventPage
<1>4. reader' = [query |-> query, next |-> p.next, more |-> p.more, begun |-> begun,
                 before |-> seen, page |-> p.rows, again |-> again + Cardinality(p.rows \cap seen)]
  BY DEF ReadPage
<1>5. UNCHANGED <<now, nodes, sources, samples, events, lastSample, lastEvent, check,
                  resets, given>>
  BY DEF ReadPage
<1> HIDE DEF p
<1>6. /\ p.next \in Nat
      /\ again + Cardinality(p.rows \cap seen) \in Nat
  BY <1>2, <1>3
<1>7. reader' \in [query : Queries \cup {None}, next : Nat, more : BOOLEAN, begun : SUBSET events,
                   before : SUBSET events, page : SUBSET events, again : Nat]
  BY <1>1, <1>3, <1>4, <1>6
<1> QED
  BY <1>5, <1>7 DEF TypeOK

\* Every step keeps the invariant: one step per action.
LEMMA IInvNext == IInv /\ [Next]_vars => IInv'
<1> SUFFICES ASSUME IInv, [Next]_vars PROVE IInv'
  OBVIOUS
<1>0. MaxIds \in Nat /\ MaxResets \in Nat
  BY BoundsAreNat
<1> USE DEF IInv, TypeOK
<1>1. ASSUME NEW s \in Sources, NEW ks \in SUBSET Keys, NEW list \in [ks -> Contents],
             UpsertNodeCache(s, list)
      PROVE IInv'
  BY <1>1, UpsertKeeps
<1>2. ASSUME NEW c \in Clients, NEW tag \in Tags, NEW type \in CheckTypes,
             StartCheck(c, tag, type)
      PROVE IInv'
  <2>1. PICK k \in Keys : nodes[k] # None
          /\ check' = [check EXCEPT ![c] = [node |-> k, type |-> type, at |-> Times[now]]]
    BY <1>2 DEF StartCheck, FoundByTag
  <2>2. [node |-> k, type |-> type, at |-> Times[now]] \in Check
    BY DEF Check, Moments
  <2> QED
    BY <1>2, <2>1, <2>2 DEF StartCheck, Listed, Checked
<1>3. ASSUME NEW c \in Clients, RecordSample(c) PROVE IInv'
  <2>1. check[c] \in Check /\ nodes[check[c].node] # None
    BY <1>3 DEF RecordSample, Checked
  <2>2. PICK ok \in BOOLEAN :
          samples' = samples \cup {[id |-> lastSample + 1, node |-> check[c].node,
                                    type |-> check[c].type, at |-> check[c].at, ok |-> ok]}
    BY <1>3 DEF RecordSample
  <2>3. lastSample + 1 \in 0..MaxIds /\ lastSample' = lastSample + 1
    BY <1>3, BoundsAreNat DEF RecordSample
  <2>4. \A x \in samples : x.id # lastSample + 1
    OBVIOUS
  <2> DEFINE new == [id |-> lastSample + 1, node |-> check[c].node, type |-> check[c].type,
                     at |-> check[c].at, ok |-> ok]
             Rows(n) == [id : 1..n, node : {k \in Keys : nodes[k] # None},
                         type : CheckTypes, at : Moments, ok : BOOLEAN]
  <2>5. new \in Rows(lastSample + 1)
    BY <2>1, <2>3 DEF Check
  <2>6. Rows(lastSample) \subseteq Rows(lastSample + 1)
    BY <2>3
  <2>7. samples' \subseteq Rows(lastSample + 1)
    BY <2>2, <2>5, <2>6
  <2>8. \A x, y \in samples' : x.id = y.id => x = y
    BY <2>2, <2>4
  <2>9. /\ UNCHANGED <<now, nodes, sources, events, lastEvent, reader, resets, given>>
        /\ check' = [check EXCEPT ![c] = None]
    BY <1>3 DEF RecordSample
  <2> HIDE DEF new
  <2>10. TypeOK'
    BY <2>3, <2>7, <2>8, <2>9
  <2> QED
    BY <2>9, <2>10 DEF Listed, Checked
<1>4. ASSUME NEW before, NEW max, Cleanup(before, max) PROVE IInv'
  <2>1. samples' \subseteq samples
    BY <1>4 DEF Cleanup
  <2> QED
    BY <1>4, <2>1 DEF Cleanup, Listed, Checked
<1>5. ASSUME NEW severity \in Severities, RecordEvent(severity) PROVE IInv'
  <2>1. Times[now] \in Moments
    BY DEF Moments
  <2>2. lastEvent + 1 \in 0..MaxIds
    <3>1. lastEvent \in 0..MaxIds /\ lastEvent < MaxIds
      BY <1>5 DEF RecordEvent
    <3> QED
      BY <1>0, <3>1
  <2> DEFINE Rows(n) == [id : 1..n, at : Moments, severity : Severities]
             new == [id |-> lastEvent + 1, at |-> Times[now], severity |-> severity]
  <2>3. Rows(lastEvent) \subseteq Rows(lastEvent + 1)
    BY <2>2
  <2>4. new \in Rows(lastEvent + 1)
    BY <2>1, <2>2
  <2>5. events' = events \cup {new}
    BY <1>5 DEF RecordEvent
  <2> HIDE DEF new
  <2>6. events' \subseteq Rows(lastEvent + 1) /\ events \subseteq events'
    BY <2>3, <2>4, <2>5
  <2>7. IsFiniteSet(events')
    BY <2>5, FS_AddElement
  <2>8. /\ lastEvent' = lastEvent + 1
        /\ UNCHANGED <<now, nodes, sources, samples, lastSample, check, reader, resets, given>>
    BY <1>5 DEF RecordEvent
  <2>9. reader' \in [query : Queries \cup {None}, next : Nat, more : BOOLEAN,
                     begun : SUBSET events', before : SUBSET events', page : SUBSET events',
                     again : Nat]
    BY <2>6, <2>8
  <2>10. TypeOK'
    BY <2>2, <2>6, <2>8, <2>9
  <2> QED
    BY <2>7, <2>8, <2>10 DEF Listed, Checked
<1>6. CASE Tick
  BY <1>6 DEF Tick, Listed, Checked
<1>7. CASE Reopen
  BY <1>7 DEF Reopen, Listed, Checked
<1>8. CASE Reset
  <2>1. resets' \in 0..MaxResets
    <3>1. resets \in 0..MaxResets /\ resets < MaxResets /\ resets' = resets + 1
      BY <1>8 DEF Reset
    <3> QED
      BY <1>0, <3>1
  <2>2. 0 \in 0..MaxIds
    BY BoundsAreNat
  <2>3. TypeOK'
    BY <1>8, <2>1, <2>2 DEF Reset, NoReader
  <2>4. Listed'
    BY <1>8 DEF Reset, Listed
  <2>5. Checked' /\ IsFiniteSet(events')
    BY <1>8, FS_EmptySet DEF Reset, Checked
  <2> QED
    BY <2>3, <2>4, <2>5
<1>9. ASSUME NEW query \in Queries \cup {None}, NEW offset \in Nat, NEW begun \in SUBSET events,
             NEW seen \in SUBSET events, NEW again \in Nat,
             ReadPage(query, offset, begun, seen, again)
      PROVE  IInv'
  <2>1. TypeOK'
    BY <1>9, ReadPageType
  <2> QED
    BY <1>9, <2>1 DEF ReadPage, Listed, Checked
<1>10. ASSUME NEW query \in Queries, ReadFirst(query) PROVE IInv'
  BY <1>9, <1>10 DEF ReadFirst
<1>11. CASE ReadNext
  BY <1>9, <1>11 DEF ReadNext
<1>12. CASE UNCHANGED vars
  BY <1>12 DEF vars, Listed, Checked
<1> QED
  BY <1>1, <1>2, <1>3, <1>4, <1>5, <1>6, <1>7, <1>8, <1>10, <1>11, <1>12 DEF Next

\* The invariant holds in every state.
LEMMA IInvCorrect == Spec => []IInv
<1>1. Init => IInv
  BY SomeTime, BoundsAreNat, FS_EmptySet DEF Init, IInv, TypeOK, Listed, Checked, NoReader
<1> QED
  BY <1>1, IInvNext, PTL DEF Spec

\* The tables hold rows of their kinds; a sample is of a stored node, and its id is its own.
THEOREM TypeCorrect == Spec => []TypeOK
<1>1. IInv => TypeOK
  BY DEF IInv
<1> QED
  BY <1>1, IInvCorrect, PTL

\* A subscription lists exactly the nodes it brought last, however nodes are shared, and a
\* node set what its sources brought last, until the file is reset.
THEOREM SourcesListTheirNodes == Spec => []SourceListsItsNodes
<1>1. ASSUME IInv, NEW S \in SUBSET Sources PROVE ListedBy(S) = UNION {given[s] : s \in S}
  <2>1. \A s \in S : given[s] \subseteq Keys
    BY <1>1 DEF IInv, TypeOK
  <2>2. \A s \in S, k \in Keys : <<s, k>> \in sources => nodes[k] # None
    BY <1>1 DEF IInv, Listed
  <2>3. \A s \in S, k \in Keys : <<s, k>> \in sources <=> k \in given[s]
    BY <1>1 DEF IInv, Listed
  <2> QED
    BY <2>1, <2>2, <2>3 DEF ListedBy
<1>2. ASSUME IInv, NEW id \in Subscriptions
      PROVE  NodesOfSubscription(id) = given[[type |-> "subscription", id |-> id]]
  <2> DEFINE S == {s \in Sources : s.type = "subscription" /\ s.id = id}
  <2>1. S = {[type |-> "subscription", id |-> id]}
    BY DEF Sources
  <2>2. UNION {given[s] : s \in S} = given[[type |-> "subscription", id |-> id]]
    BY <2>1
  <2> QED
    BY <1>1, <1>2, <2>2 DEF NodesOfSubscription
<1>3. ASSUME IInv, NEW id \in NodeSets
      PROVE  NodesOfSet(id) = UNION {given[s] : s \in {t \in Sources : NodeSetOf(t) = id}}
  BY <1>1, <1>3 DEF NodesOfSet
<1>4. IInv => SourceListsItsNodes
  BY <1>2, <1>3 DEF SourceListsItsNodes
<1> QED
  BY <1>4, IInvCorrect, PTL

-----------------------------------------------------------------------------
(* The order of samples *)

\* A character is a digit, or what follows the last one.
LEMMA CharType ==
  ASSUME NEW t \in Moments, NEW i \in Nat \ {0}
  PROVE  Char(t, i) \in 0..10
<1>1. t.frac \in Seq(0..9)
  BY TimesAreTimes
<1>2. CASE i <= Len(t.frac)
  BY <1>1, <1>2 DEF Char
<1>3. CASE ~(i <= Len(t.frac))
  BY <1>3 DEF Char
<1> QED
  BY <1>2, <1>3

\* The order of times as text, at one pair of times.
LEMMA TextBeforeDef ==
  ASSUME NEW s \in Moments, NEW t \in Moments
  PROVE  TextBefore(s, t) <=>
           \/ s.sec < t.sec
           \/ /\ s.sec = t.sec
              /\ \E i \in 1..(Len(s.frac) + 1) :
                   /\ Char(s, i) < Char(t, i)
                   /\ \A j \in 1..(i - 1) : Char(s, j) = Char(t, j)
  BY DEF TextBefore, TextOrder

\* No time is before itself.
LEMMA TextBeforeIrreflexive == ASSUME NEW s \in Moments PROVE ~TextBefore(s, s)
<1>1. s.sec \in Nat /\ s.frac \in Seq(0..9)
  BY TimesAreTimes
<1>2. \A i \in 1..(Len(s.frac) + 1) : Char(s, i) \in 0..10
  BY <1>1, CharType
<1> QED
  BY <1>1, <1>2, TextBeforeDef

\* The order of times as text is transitive: the text of the first and of the last
\* differ where the first of the two differences is.
LEMMA TextBeforeTransitive ==
  ASSUME NEW s \in Moments, NEW t \in Moments, NEW u \in Moments,
         TextBefore(s, t), TextBefore(t, u)
  PROVE  TextBefore(s, u)
<1>1. /\ s.sec \in Nat /\ t.sec \in Nat /\ u.sec \in Nat
      /\ s.frac \in Seq(0..9) /\ t.frac \in Seq(0..9) /\ u.frac \in Seq(0..9)
  BY TimesAreTimes
<1>2. CASE s.sec < t.sec \/ t.sec < u.sec
  <2>1. s.sec <= t.sec /\ t.sec <= u.sec
    BY <1>1, TextBeforeDef
  <2> QED
    BY <1>1, <1>2, <2>1, TextBeforeDef
<1>3. CASE ~(s.sec < t.sec \/ t.sec < u.sec)
  <2>1. PICK i \in 1..(Len(s.frac) + 1) :
          /\ Char(s, i) < Char(t, i)
          /\ \A j \in 1..(i - 1) : Char(s, j) = Char(t, j)
    BY <1>3, TextBeforeDef
  <2>2. PICK k \in 1..(Len(t.frac) + 1) :
          /\ Char(t, k) < Char(u, k)
          /\ \A j \in 1..(k - 1) : Char(t, j) = Char(u, j)
    BY <1>3, TextBeforeDef
  <2>3. s.sec = t.sec /\ t.sec = u.sec
    BY <1>3, TextBeforeDef
  <2>4. i \in Nat \ {0} /\ k \in Nat \ {0} /\ Len(s.frac) \in Nat
    BY <1>1
  <2>5. \A j \in Nat \ {0} :
          Char(s, j) \in 0..10 /\ Char(t, j) \in 0..10 /\ Char(u, j) \in 0..10
    BY CharType
  <2> HIDE DEF Char
  <2>6. CASE i <= k
    <3>1. Char(s, i) < Char(u, i)
      <4>1. CASE i = k
        BY <2>1, <2>2, <2>4, <2>5, <4>1
      <4>2. CASE i < k
        <5>1. Char(t, i) = Char(u, i)
          BY <2>2, <2>4, <4>2
        <5> QED
          BY <2>1, <5>1
      <4> QED
        BY <2>4, <2>6, <4>1, <4>2
    <3>2. \A j \in 1..(i - 1) : Char(s, j) = Char(u, j)
      <4> SUFFICES ASSUME NEW j \in 1..(i - 1) PROVE Char(s, j) = Char(u, j)
        OBVIOUS
      <4>1. j \in 1..(k - 1)
        BY <2>4, <2>6
      <4> QED
        BY <2>1, <2>2, <4>1
    <3> QED
      BY <2>3, <3>1, <3>2, TextBeforeDef
  <2>7. CASE k < i
    <3>1. k \in 1..(Len(s.frac) + 1)
      BY <2>1, <2>4, <2>7
    <3>2. Char(s, k) = Char(t, k)
      BY <2>1, <2>4, <2>7
    <3>3. Char(s, k) < Char(u, k)
      BY <2>2, <3>2
    <3>4. \A j \in 1..(k - 1) : Char(s, j) = Char(u, j)
      <4> SUFFICES ASSUME NEW j \in 1..(k - 1) PROVE Char(s, j) = Char(u, j)
        OBVIOUS
      <4>1. j \in 1..(i - 1)
        BY <2>4, <2>7
      <4> QED
        BY <2>1, <2>2, <4>1
    <3> QED
      BY <2>3, <3>1, <3>3, <3>4, TextBeforeDef
  <2> QED
    BY <2>4, <2>6, <2>7
<1> QED
  BY <1>2, <1>3

\* Rows that are ordered: each has a time and an id.
IsRow(x) == x.at \in Moments /\ x.id \in Nat

\* No row is above itself.
LEMMA AboveIrreflexive == ASSUME NEW x, IsRow(x) PROVE ~Above(x, x)
  BY TextBeforeIrreflexive DEF Above, IsRow

\* What is above a row that is above another is above that one.
LEMMA AboveTransitive ==
  ASSUME NEW x, NEW y, NEW z, IsRow(x), IsRow(y), IsRow(z), Above(x, y), Above(y, z)
  PROVE  Above(x, z)
<1>1. CASE x.at = y.at
  BY <1>1 DEF Above, IsRow
<1>2. CASE y.at = z.at
  BY <1>2 DEF Above, IsRow
<1>3. CASE TextBefore(y.at, x.at) /\ TextBefore(z.at, y.at)
  BY <1>3, TextBeforeTransitive DEF Above, IsRow
<1> QED
  BY <1>1, <1>2, <1>3 DEF Above

\* A rank is a number, and at least 1.
LEMMA RankType ==
  ASSUME NEW rows, IsFiniteSet(rows), NEW x
  PROVE  Rank(x, rows) \in Nat \ {0}
<1>1. IsFiniteSet({y \in rows : Above(y, x)})
  BY FS_Subset
<1>2. Cardinality({y \in rows : Above(y, x)}) \in Nat
  BY <1>1, FS_CardinalityType
<1> QED
  BY <1>2 DEF Rank

\* What is above a row ranks no lower.
LEMMA RankMonotone ==
  ASSUME NEW rows, IsFiniteSet(rows), \A z \in rows : IsRow(z),
         NEW x \in rows, NEW y \in rows, Above(x, y)
  PROVE  Rank(x, rows) <= Rank(y, rows)
<1> DEFINE X == {z \in rows : Above(z, x)}
           Y == {z \in rows : Above(z, y)}
<1>1. X \subseteq Y
  BY AboveTransitive
<1>2. IsFiniteSet(Y)
  BY FS_Subset
<1>3. IsFiniteSet(X) /\ Cardinality(X) <= Cardinality(Y)
  BY <1>1, <1>2, FS_Subset
<1>4. Cardinality(X) \in Nat /\ Cardinality(Y) \in Nat
  BY <1>2, <1>3, FS_CardinalityType
<1>5. Rank(x, rows) = Cardinality(X) + 1 /\ Rank(y, rows) = Cardinality(Y) + 1
  BY DEF Rank
<1> QED
  BY <1>3, <1>4, <1>5

\* Samples are rows, and there are finitely many of them.
Samples == IsFiniteSet(samples) /\ \A x \in samples : IsRow(x)

\* A sample has the time and the id that the order of rows goes by.
LEMMA SamplesAreRows == TypeOK => \A x \in samples : IsRow(x)
  BY DEF TypeOK, IsRow

\* A step adds at most one sample.
LEMMA FiniteNext == IInv /\ IsFiniteSet(samples) /\ [Next]_vars => IsFiniteSet(samples)'
<1> SUFFICES ASSUME IInv, IsFiniteSet(samples), [Next]_vars PROVE IsFiniteSet(samples')
  OBVIOUS
<1>1. ASSUME NEW c \in Clients, RecordSample(c) PROVE IsFiniteSet(samples')
  <2>1. PICK x : samples' = samples \cup {x}
    BY <1>1 DEF RecordSample
  <2> QED
    BY <2>1, FS_AddElement
<1>2. ASSUME NEW before, NEW max, Cleanup(before, max) PROVE IsFiniteSet(samples')
  <2>1. samples' \subseteq samples
    BY <1>2 DEF Cleanup
  <2> QED
    BY <2>1, FS_Subset
<1>3. CASE Reset
  BY <1>3, FS_EmptySet DEF Reset
<1>4. CASE UNCHANGED samples
  BY <1>4
<1> QED
  BY <1>1, <1>2, <1>3, <1>4
  DEF Next, UpsertNodeCache, StartCheck, RecordEvent, ReadFirst, ReadNext, ReadPage,
    Tick, Reopen, vars

\* In every state the samples are rows, and finitely many.
LEMMA SamplesCorrect == Spec => []Samples
<1>1. Init => IsFiniteSet(samples)
  BY FS_EmptySet DEF Init
<1>2. IInv => TypeOK
  BY DEF IInv
<1>3. TypeOK /\ IsFiniteSet(samples) => Samples
  BY SamplesAreRows DEF Samples
<1> QED
  BY <1>1, <1>2, <1>3, FiniteNext, IInvCorrect, PTL DEF Spec

\* A cleanup: the sample that goes is behind the limit in time or in rank, and one of the
\* same node and type that is older by a second is behind the same limit.
LEMMA CleanupKeeps ==
  ASSUME TypeOK, Samples, NEW before \in Moments \cup {None}, NEW max \in Limits,
         Cleanup(before, max),
         NEW x \in samples \ samples', NEW y \in samples' \cap samples,
         x.node = y.node, x.type = y.type
  PROVE  x.at.sec <= y.at.sec
<1> DEFINE rest == {z \in samples : before = None \/ ~TextBefore(z.at, before)}
           Of(z) == {w \in rest : w.node = z.node /\ w.type = z.type}
<1>1. samples' = {z \in rest : max = 0 \/ Rank(z, Of(z)) <= max}
  BY DEF Cleanup
<1>2. IsRow(x) /\ IsRow(y)
  BY DEF Samples
<1>3. x.at.sec \in Nat /\ y.at.sec \in Nat
  BY <1>2, TimesAreTimes DEF IsRow
<1> SUFFICES ASSUME x.at.sec > y.at.sec PROVE FALSE
  BY <1>3
<1>4. TextBefore(y.at, x.at)
  BY <1>2, <1>3, TextBeforeDef DEF IsRow
<1>5. Above(x, y)
  BY <1>4 DEF Above
<1>6. y \in rest
  BY <1>1
<1>7. x \in rest
  <2> SUFFICES ASSUME before # None, TextBefore(x.at, before) PROVE FALSE
    OBVIOUS
  <2>1. TextBefore(y.at, before)
    BY <1>2, <1>4, TextBeforeTransitive DEF IsRow
  <2> QED
    BY <1>6, <2>1
<1>8. Of(x) = Of(y)
  OBVIOUS
<1>9. IsFiniteSet(Of(y)) /\ \A z \in Of(y) : IsRow(z)
  BY FS_Subset DEF Samples
<1>10. Rank(x, Of(y)) <= Rank(y, Of(y))
  <2>1. x \in Of(y) /\ y \in Of(y)
    BY <1>6, <1>7
  <2> HIDE DEF Of, rest
  <2> QED
    BY <1>5, <1>9, <2>1, RankMonotone
<1>11. max # 0 /\ ~(Rank(x, Of(y)) <= max) /\ Rank(y, Of(y)) <= max
  BY <1>1, <1>6, <1>7, <1>8
<1>12. Rank(x, Of(y)) \in Nat /\ Rank(y, Of(y)) \in Nat /\ max \in Nat
  <2> HIDE DEF Of, rest
  <2> QED
    BY <1>9, RankType, BoundsAreNat
<1> HIDE DEF Of, rest
<1> QED
  BY <1>10, <1>11, <1>12

\* No cleanup that is asked for lets an older sample of a node and type outlive one that is
\* newer by its second; and nothing else, but for a reset, deletes samples.
THEOREM CleanupsKeepTheNewest == Spec => CleanupKeepsNewest
<1> DEFINE Keeps == resets' = resets =>
             \A x \in samples \ samples', y \in samples' \cap samples :
               x.node = y.node /\ x.type = y.type => x.at.sec <= y.at.sec
<1>1. TypeOK /\ Samples /\ [Next]_vars => [Keeps]_vars
  <2> SUFFICES ASSUME TypeOK, Samples, [Next]_vars, resets' = resets,
                      NEW x \in samples \ samples', NEW y \in samples' \cap samples,
                      x.node = y.node, x.type = y.type
               PROVE  x.at.sec <= y.at.sec
    OBVIOUS
  <2>1. ASSUME NEW before \in Moments \cup {None}, NEW max \in Limits, Cleanup(before, max)
        PROVE  x.at.sec <= y.at.sec
    BY <2>1, CleanupKeeps
  <2>2. ASSUME samples \subseteq samples' PROVE x.at.sec <= y.at.sec
    BY <2>2
  <2>3. ASSUME NEW c \in Clients, RecordSample(c) PROVE samples \subseteq samples'
    BY <2>3 DEF RecordSample
  <2>4. CASE Reset
    BY <2>4, BoundsAreNat DEF Reset, TypeOK
  <2> QED
    BY <2>1, <2>2, <2>3, <2>4
    DEF Next, UpsertNodeCache, StartCheck, RecordEvent, ReadFirst, ReadNext, ReadPage,
    Tick, Reopen, vars
<1> QED
  BY <1>1, TypeCorrect, SamplesCorrect, PTL DEF Spec, CleanupKeepsNewest

\* A set of numbers that is not empty has a least one.
LEMMA Least ==
  ASSUME NEW T, T \subseteq Nat, T # {}
  PROVE  \E x \in T : \A y \in T : x <= y
<1> DEFINE R == OpToRel(<, Nat)
<1>1. IsWellFoundedOn(R, Nat)
  BY NatLessThanWellFounded
<1>2. \A x, y \in Nat : x < y => <<x, y>> \in R
  BY DEF OpToRel
<1> HIDE DEF R
<1>3. PICK x \in T : \A y \in T : ~(<<y, x>> \in R)
  BY <1>1, WFMin
<1>4. \A y \in T : ~(y < x)
  BY <1>2, <1>3
<1> QED
  BY <1>4

\* Of rows that are not empty some row is first.
LEMMA SomeRowIsFirst ==
  ASSUME NEW rows, IsFiniteSet(rows), rows # {}, \A z \in rows : IsRow(z)
  PROVE  \E x \in rows : Rank(x, rows) = 1
<1> DEFINE T == {Rank(z, rows) : z \in rows}
<1>1. T \subseteq Nat /\ T # {}
  BY RankType
<1>2. PICK x \in rows : \A z \in rows : Rank(x, rows) <= Rank(z, rows)
  <2>1. PICK r \in T : \A q \in T : r <= q
    <3> HIDE DEF T
    <3> QED
      BY <1>1, Least
  <2> QED
    BY <2>1
<1> DEFINE X == {z \in rows : Above(z, x)}
<1>3. X = {}
  <2> SUFFICES ASSUME NEW y \in X PROVE FALSE
    OBVIOUS
  <2> DEFINE Y == {z \in rows : Above(z, y)}
  <2>1. Y \subseteq X /\ y \notin Y
    BY AboveTransitive, AboveIrreflexive
  <2>2. IsFiniteSet(X) /\ IsFiniteSet(Y)
    BY FS_Subset
  <2>3. Cardinality(Y) <= Cardinality(X) /\ Cardinality(Y) # Cardinality(X)
    BY <2>1, <2>2, FS_Subset
  <2>4. Cardinality(X) \in Nat /\ Cardinality(Y) \in Nat
    BY <2>2, FS_CardinalityType
  <2>5. Rank(x, rows) = Cardinality(X) + 1 /\ Rank(y, rows) = Cardinality(Y) + 1
    BY DEF Rank
  <2>6. Rank(x, rows) <= Rank(y, rows)
    BY <1>2
  <2> HIDE DEF X, Y
  <2> QED
    BY <2>3, <2>4, <2>5, <2>6
<1>4. Rank(x, rows) = 1
  BY <1>3, FS_EmptySet DEF Rank
<1> QED
  BY <1>4

\* The sample shown as the latest of a node and type started in the last second in which one
\* of their checks did, in whatever order the checks ended, and is in the trend of every
\* length.
THEOREM LatestIsTheNewest == Spec => []LatestIsNewest
<1>1. ASSUME Samples, NEW k \in Keys, NEW type \in CheckTypes, SamplesOf(k, type) # {}
      PROVE  /\ \A x \in SamplesOf(k, type) : x.at.sec <= Latest(k, type).at.sec
             /\ \A limit \in Limits : Latest(k, type) \in Trend(k, type, limit).samples
  <2> DEFINE all == SamplesOf(k, type)
             top == Latest(k, type)
  <2>1. IsFiniteSet(all) /\ \A x \in all : IsRow(x)
    BY <1>1, FS_Subset DEF Samples, SamplesOf
  <2>2. top \in all /\ Rank(top, all) = 1
    BY <1>1, <2>1, SomeRowIsFirst DEF Latest
  <2>3. \A x \in all : ~Above(x, top)
    <3>1. IsFiniteSet({y \in all : Above(y, top)})
      BY <2>1, FS_Subset
    <3>2. Cardinality({y \in all : Above(y, top)}) \in Nat
      BY <3>1, FS_CardinalityType
    <3>3. Cardinality({y \in all : Above(y, top)}) = 0
      BY <2>2, <3>2 DEF Rank
    <3> QED
      BY <3>1, <3>3, FS_EmptySet
  <2>4. \A x \in all : x.at.sec <= top.at.sec
    <3> SUFFICES ASSUME NEW x \in all PROVE x.at.sec <= top.at.sec
      OBVIOUS
    <3>1. x.at \in Moments /\ top.at \in Moments
      BY <2>1, <2>2 DEF IsRow
    <3>2. x.at.sec \in Nat /\ top.at.sec \in Nat
      BY <3>1, TimesAreTimes
    <3>3. ~TextBefore(top.at, x.at)
      BY <2>3 DEF Above
    <3> QED
      BY <3>1, <3>2, <3>3, TextBeforeDef
  <2>5. \A limit \in Limits : 1 <= QueryLimit(limit, 2, 3)
    BY BoundsAreNat DEF QueryLimit
  <2>6. \A limit \in Limits :
          Trend(k, type, limit).samples = {x \in all : Rank(x, all) <= QueryLimit(limit, 2, 3)}
    BY DEF Trend
  <2> QED
    BY <2>2, <2>4, <2>5, <2>6
<1>2. Samples => LatestIsNewest
  BY <1>1 DEF LatestIsNewest
<1> QED
  BY <1>2, SamplesCorrect, PTL

-----------------------------------------------------------------------------
(* The order of events is total, and a page is an interval of it *)

\* Two times differ in their text.
LEMMA TextsDiffer ==
  ASSUME NEW s \in Moments, NEW t \in Moments, s # t, s.sec = t.sec
  PROVE  \E i \in Nat \ {0} : Char(s, i) # Char(t, i)
<1>1. s \in [sec : Nat, frac : Seq(0..9)] /\ t \in [sec : Nat, frac : Seq(0..9)]
  BY TimesAreTimes
<1>2. s.frac # t.frac
  BY <1>1
<1> DEFINE a == s.frac
           b == t.frac
<1>3. a \in Seq(0..9) /\ b \in Seq(0..9) /\ a # b
  BY <1>1, <1>2
<1>4. /\ \A i \in 1..Len(a) : Char(s, i) = a[i] /\ a[i] \in 0..9
      /\ \A i \in 1..Len(b) : Char(t, i) = b[i] /\ b[i] \in 0..9
      /\ Char(s, Len(a) + 1) = 10 /\ Char(t, Len(b) + 1) = 10
  BY <1>1 DEF Char
<1> HIDE DEF a, b
<1>5. Len(a) \in Nat /\ Len(b) \in Nat
  BY <1>3
<1>6. CASE Len(a) < Len(b)
  <2>1. Len(a) + 1 \in 1..Len(b)
    BY <1>5, <1>6
  <2> QED
    BY <1>4, <1>5, <2>1
<1>7. CASE Len(b) < Len(a)
  <2>1. Len(b) + 1 \in 1..Len(a)
    BY <1>5, <1>7
  <2> QED
    BY <1>4, <1>5, <2>1
<1>8. CASE Len(a) = Len(b)
  <2>1. PICK i \in 1..Len(a) : a[i] # b[i]
    BY <1>3, <1>8
  <2> QED
    BY <1>4, <1>5, <1>8, <2>1
<1> QED
  BY <1>5, <1>6, <1>7, <1>8

\* The text of a time ends with the character after its last digit.
LEMMA TextEnds ==
  ASSUME NEW s \in Moments, NEW t \in Moments, NEW i \in Nat \ {0}, Char(s, i) # Char(t, i),
         \A j \in 1..(i - 1) : Char(s, j) = Char(t, j)
  PROVE  i <= Len(s.frac) + 1
<1>1. s.frac \in Seq(0..9) /\ t.frac \in Seq(0..9)
  BY TimesAreTimes
<1> SUFFICES ASSUME i > Len(s.frac) + 1 PROVE FALSE
  BY <1>1
<1>2. Len(s.frac) + 1 \in 1..(i - 1)
  BY <1>1
<1>3. Char(s, Len(s.frac) + 1) = 10 /\ Char(s, i) = 10
  BY <1>1 DEF Char
<1>4. Char(t, Len(s.frac) + 1) = 10
  BY <1>2, <1>3
<1>5. ~(Len(s.frac) + 1 <= Len(t.frac))
  <2> SUFFICES ASSUME Len(s.frac) + 1 <= Len(t.frac) PROVE FALSE
    OBVIOUS
  <2>1. t.frac[Len(s.frac) + 1] \in 0..9
    BY <1>1
  <2> QED
    BY <1>4, <2>1 DEF Char
<1>6. Char(t, i) = 10
  BY <1>1, <1>5 DEF Char
<1> QED
  BY <1>3, <1>6

\* Of two times one is before the other.
LEMMA TextBeforeTotal ==
  ASSUME NEW s \in Moments, NEW t \in Moments, s # t
  PROVE  TextBefore(s, t) \/ TextBefore(t, s)
<1>1. s.sec \in Nat /\ t.sec \in Nat
  BY TimesAreTimes
<1>2. CASE s.sec # t.sec
  BY <1>1, <1>2, TextBeforeDef
<1>3. CASE s.sec = t.sec
  <2> DEFINE D == {i \in Nat \ {0} : Char(s, i) # Char(t, i)}
  <2>1. D \subseteq Nat /\ D # {}
    BY <1>3, TextsDiffer
  <2>2. PICK i \in D : \A j \in D : i <= j
    <3> HIDE DEF D
    <3> QED
      BY <2>1, Least
  <2>3. \A j \in 1..(i - 1) : Char(s, j) = Char(t, j)
    BY <2>2
  <2>4. i \in Nat \ {0} /\ Char(s, i) # Char(t, i)
    OBVIOUS
  <2>5. i <= Len(s.frac) + 1 /\ i <= Len(t.frac) + 1
    BY <2>3, <2>4, TextEnds
  <2>6. Char(s, i) \in 0..10 /\ Char(t, i) \in 0..10
    BY <2>4, CharType
  <2>7. i \in 1..(Len(s.frac) + 1) /\ i \in 1..(Len(t.frac) + 1)
    BY <2>4, <2>5, TimesAreTimes
  <2>8. CASE Char(s, i) < Char(t, i)
    BY <1>3, <2>3, <2>7, <2>8, TextBeforeDef
  <2>9. CASE Char(t, i) < Char(s, i)
    BY <1>3, <2>3, <2>7, <2>9, TextBeforeDef
  <2> QED
    BY <2>4, <2>6, <2>8, <2>9
<1> QED
  BY <1>2, <1>3

\* Rows that an order of rows can be total on: finitely many, no two with one id.
AreRows(rows) ==
    /\ IsFiniteSet(rows)
    /\ \A x \in rows : IsRow(x)
    /\ \A x, y \in rows : x.id = y.id => x = y

\* Of two rows one is above the other.
LEMMA AboveTotal ==
  ASSUME NEW rows, AreRows(rows), NEW x \in rows, NEW y \in rows, x # y
  PROVE  Above(x, y) \/ Above(y, x)
<1>1. x.at \in Moments /\ y.at \in Moments /\ x.id \in Nat /\ y.id \in Nat /\ x.id # y.id
  BY DEF AreRows, IsRow
<1> QED
  BY <1>1, TextBeforeTotal DEF Above

\* A row above another has the smaller rank.
LEMMA RankStrict ==
  ASSUME NEW rows, AreRows(rows), NEW x \in rows, NEW y \in rows, Above(x, y)
  PROVE  Rank(x, rows) < Rank(y, rows)
<1> DEFINE X == {z \in rows : Above(z, x)}
           Y == {z \in rows : Above(z, y)}
<1>1. X \subseteq Y /\ x \in Y /\ x \notin X
  BY AboveTransitive, AboveIrreflexive DEF AreRows
<1>2. IsFiniteSet(X) /\ IsFiniteSet(Y)
  BY FS_Subset DEF AreRows
<1>3. Cardinality(X) <= Cardinality(Y) /\ Cardinality(X) # Cardinality(Y)
  BY <1>1, <1>2, FS_Subset
<1>4. Cardinality(X) \in Nat /\ Cardinality(Y) \in Nat
  BY <1>2, FS_CardinalityType
<1>5. Rank(x, rows) = Cardinality(X) + 1 /\ Rank(y, rows) = Cardinality(Y) + 1
  BY DEF Rank
<1> HIDE DEF X, Y
<1> QED
  BY <1>3, <1>4, <1>5

\* No two rows have one rank, and no rank is above the number of rows.
LEMMA RankInjective ==
  ASSUME NEW rows, AreRows(rows)
  PROVE  /\ \A x, y \in rows : Rank(x, rows) = Rank(y, rows) => x = y
         /\ \A x \in rows : Rank(x, rows) \in 1..Cardinality(rows)
<1>1. \A x \in rows : Rank(x, rows) \in Nat \ {0}
  BY RankType DEF AreRows
<1>2. ASSUME NEW x \in rows, NEW y \in rows, x # y PROVE Rank(x, rows) # Rank(y, rows)
  BY <1>1, <1>2, AboveTotal, RankStrict
<1>3. ASSUME NEW x \in rows PROVE Rank(x, rows) \in 1..Cardinality(rows)
  <2> DEFINE X == {z \in rows : Above(z, x)}
  <2>1. X \subseteq rows /\ X # rows
    BY AboveIrreflexive DEF AreRows
  <2>2. IsFiniteSet(X) /\ IsFiniteSet(rows)
    BY FS_Subset DEF AreRows
  <2>3. Cardinality(X) <= Cardinality(rows) /\ Cardinality(X) # Cardinality(rows)
    BY <2>1, <2>2, FS_Subset
  <2>4. Cardinality(X) \in Nat /\ Cardinality(rows) \in Nat
    BY <2>2, FS_CardinalityType
  <2>5. Rank(x, rows) = Cardinality(X) + 1
    BY DEF Rank
  <2> HIDE DEF X
  <2> QED
    BY <2>3, <2>4, <2>5
<1> QED
  BY <1>2, <1>3

\* Every rank up to the number of rows is that of a row.
LEMMA RankOnto ==
  ASSUME NEW rows, AreRows(rows), NEW n \in 1..Cardinality(rows)
  PROVE  \E x \in rows : Rank(x, rows) = n
<1> DEFINE f == [x \in rows |-> Rank(x, rows)]
           c == Cardinality(rows)
<1>1. c \in Nat /\ IsFiniteSet(rows)
  BY FS_CardinalityType DEF AreRows
<1>2. IsFiniteSet(1..c) /\ Cardinality(1..c) = c
  BY <1>1, FS_Interval
<1>3. f \in Injection(rows, 1..c)
  BY RankInjective DEF Injection, IsInjective
<1>4. f \in Surjection(rows, 1..c)
  <2> HIDE DEF f
  <2> QED
    BY <1>1, <1>2, <1>3, FS_Injection
<1>5. PICK x \in rows : f[x] = n
  <2> HIDE DEF f
  <2> QED
    BY <1>4 DEF Surjection
<1> QED
  BY <1>5

\* The rows whose ranks are in an interval are as many as it is long.
LEMMA IntervalSize ==
  ASSUME NEW rows, AreRows(rows), NEW a \in Nat, NEW b \in Nat, a <= b, b <= Cardinality(rows)
  PROVE  Cardinality({e \in rows : Rank(e, rows) \in (a + 1)..b}) = b - a
<1> DEFINE part == {e \in rows : Rank(e, rows) \in (a + 1)..b}
           f == [x \in part |-> Rank(x, rows)]
<1>0. Cardinality(rows) \in Nat
  BY FS_CardinalityType DEF AreRows
<1>1. f \in Injection(part, (a + 1)..b)
  BY RankInjective DEF Injection, IsInjective
<1>2. f \in Surjection(part, (a + 1)..b)
  <2> SUFFICES ASSUME NEW n \in (a + 1)..b PROVE \E x \in part : f[x] = n
    BY DEF Surjection
  <2>1. n \in 1..Cardinality(rows)
    BY <1>0
  <2>2. PICK x \in rows : Rank(x, rows) = n
    BY <2>1, RankOnto
  <2> QED
    BY <2>2
<1>3. IsFiniteSet(part)
  BY FS_Subset DEF AreRows
<1>4. ExistsBijection(part, (a + 1)..b)
  <2> HIDE DEF part, f
  <2> QED
    BY <1>1, <1>2 DEF ExistsBijection, Bijection
<1>5. Cardinality((a + 1)..b) = Cardinality(part)
  <2> HIDE DEF part
  <2> QED
    BY <1>3, <1>4, FS_Bijection
<1>6. Cardinality((a + 1)..b) = b - a
  <2>1. a + 1 \in Int /\ b \in Int
    OBVIOUS
  <2>2. Cardinality((a + 1)..b) = IF a + 1 > b THEN 0 ELSE b - (a + 1) + 1
    BY <2>1, FS_Interval
  <2> QED
    BY <2>2
<1> QED
  BY <1>5, <1>6

-----------------------------------------------------------------------------
(* The pages of events *)

\* Events are rows, no two with one id.
LEMMA EventsNext ==
  TypeOK /\ AreRows(events) /\ [Next]_vars => AreRows(events)'
<1> SUFFICES ASSUME TypeOK, AreRows(events), [Next]_vars PROVE AreRows(events')
  BY DEF AreRows
<1>1. ASSUME NEW severity \in Severities, RecordEvent(severity) PROVE AreRows(events')
  <2> DEFINE new == [id |-> lastEvent + 1, at |-> Times[now], severity |-> severity]
  <2>1. events' = events \cup {new}
    BY <1>1 DEF RecordEvent
  <2>2. IsFiniteSet(events')
    BY <2>1, FS_AddElement DEF AreRows
  <2>3. IsRow(new)
    BY DEF TypeOK, IsRow, Moments
  <2>4. \A x \in events : x.id # new.id
    <3>1. \A x \in events : x.id \in 1..lastEvent
      BY DEF TypeOK
    <3>2. lastEvent \in Nat /\ new.id = lastEvent + 1
      BY BoundsAreNat DEF TypeOK
    <3> HIDE DEF new
    <3> QED
      BY <3>1, <3>2
  <2> HIDE DEF new
  <2> QED
    BY <2>1, <2>2, <2>3, <2>4 DEF AreRows
<1>2. CASE Reset
  BY <1>2, FS_EmptySet DEF Reset, AreRows
<1>3. CASE events' = events
  BY <1>3
<1>4. CASE UNCHANGED vars
  BY <1>3, <1>4 DEF vars
<1>5. CASE Tick \/ Reopen
  BY <1>3, <1>5 DEF Tick, Reopen
<1>6. ASSUME NEW s \in Sources, NEW list, UpsertNodeCache(s, list) PROVE AreRows(events')
  BY <1>3, <1>6 DEF UpsertNodeCache
<1>7. ASSUME NEW c \in Clients,
             RecordSample(c) \/ \E tag \in Tags, type \in CheckTypes : StartCheck(c, tag, type)
      PROVE  AreRows(events')
  BY <1>3, <1>7 DEF RecordSample, StartCheck
<1>8. ASSUME NEW before, NEW max, Cleanup(before, max) PROVE AreRows(events')
  BY <1>3, <1>8 DEF Cleanup
<1>9. CASE ReadNext \/ \E query \in Queries : ReadFirst(query)
  BY <1>3, <1>9 DEF ReadNext, ReadFirst, ReadPage
<1> QED
  BY <1>1, <1>2, <1>4, <1>5, <1>6, <1>7, <1>8, <1>9 DEF Next

\* It holds in every state.
LEMMA EventsCorrect == Spec => []AreRows(events)
<1>1. Init => AreRows(events)
  BY FS_EmptySet DEF Init, AreRows
<1> QED
  BY <1>1, EventsNext, TypeCorrect, PTL DEF Spec

\* A page is what is between its offset and the next; the last one ends with the last row.
LEMMA PageIs ==
  ASSUME NEW rows, AreRows(rows), NEW o \in 0..Cardinality(rows), NEW limit \in Nat
  PROVE  LET p == EventPage(rows, o, limit)
         IN /\ p.next \in o..Cardinality(rows)
            /\ p.rows = {e \in rows : Rank(e, rows) \in (o + 1)..p.next}
            /\ ~p.more => p.next = Cardinality(rows)
<1> DEFINE n == Cardinality(rows)
           p == EventPage(rows, o, limit)
           L == QueryLimit(limit, 2, 3)
           Part(b) == {e \in rows : Rank(e, rows) \in (o + 1)..b}
<1>1. n \in Nat
  BY FS_CardinalityType DEF AreRows
<1>2. L \in Nat \ {0}
  BY DEF QueryLimit
<1>3. p.rows = Part(o + L) /\ p.next = o + Cardinality(Part(o + L)) /\ p.more = (p.next < n)
  BY DEF EventPage
<1>4. \A e \in rows : Rank(e, rows) \in 1..n
  BY RankInjective
<1>5. o \in Nat /\ o <= n
  BY <1>1
<1>6. \A b \in o..n : Cardinality(Part(b)) = b - o
  BY <1>1, <1>5, IntervalSize
<1>7. n < o + L => Part(o + L) = Part(n)
  BY <1>1, <1>2, <1>4, <1>5
<1>8. p.more <=> p.next < n
  BY <1>3, Zenon
<1> HIDE DEF p, L, n, Part
<1>9. CASE o + L <= n
  <2>1. o + L \in o..n
    BY <1>1, <1>2, <1>5, <1>9
  <2>2. p.next = o + L
    BY <1>2, <1>3, <1>5, <1>6, <2>1
  <2>3. p.rows = Part(p.next) /\ p.next \in o..n /\ (~p.more => p.next = n)
    BY <1>1, <1>3, <1>8, <1>9, <2>1, <2>2
  <2> QED
    BY <2>3 DEF p, n, Part
<1>10. CASE ~(o + L <= n)
  <2>1. n < o + L
    BY <1>1, <1>2, <1>5, <1>10
  <2>2. n \in o..n
    BY <1>1, <1>5
  <2>3. p.next = n
    BY <1>1, <1>3, <1>5, <1>6, <1>7, <2>1, <2>2
  <2>4. p.rows = Part(p.next) /\ p.next \in o..n
    BY <1>3, <1>7, <2>1, <2>2, <2>3
  <2> QED
    BY <2>3, <2>4 DEF p, n, Part
<1> QED
  BY <1>9, <1>10

\* A client is at an offset in rows, began when those of begun were there, has seen some,
\* and of these some again.  What it has not seen of those that were there is behind the
\* offset and behind all that it has seen; and a row for which it can have been shown another
\* again, or will be, came since.
Reads(rows, o, begun, seen, again) ==
    /\ o \in 0..Cardinality(rows)
    /\ seen \subseteq rows
    /\ again \in Nat
    /\ \A e \in (begun \cap rows) \ seen :
         Rank(e, rows) > o /\ \A f \in seen : Above(f, e)
    /\ again + Cardinality({e \in seen : Rank(e, rows) > o}) <= Cardinality(rows \ begun)

\* One more page.
LEMMA ReadsPage ==
  ASSUME NEW rows, AreRows(rows), NEW o, NEW begun, NEW seen, NEW again,
         Reads(rows, o, begun, seen, again), NEW limit \in Nat
  PROVE  LET p == EventPage(rows, o, limit)
         IN /\ Reads(rows, p.next, begun, seen \cup p.rows, again + Cardinality(p.rows \cap seen))
            /\ ~p.more => begun \cap rows \subseteq seen \cup p.rows
            /\ \A e \in (p.rows \ seen) \cap begun, f \in seen : Above(f, e)
<1> DEFINE n == Cardinality(rows)
           p == EventPage(rows, o, limit)
           old == {e \in seen : Rank(e, rows) > o}
           new == {e \in seen \cup p.rows : Rank(e, rows) > p.next}
           both == p.rows \cap seen
<1>1. /\ p.next \in o..n
      /\ p.rows = {e \in rows : Rank(e, rows) \in (o + 1)..p.next}
      /\ ~p.more => p.next = n
  BY PageIs DEF Reads
<1>2. n \in Nat /\ o \in Nat /\ p.next \in Nat /\ o <= p.next /\ p.next <= n
  <2>1. n \in Nat
    BY FS_CardinalityType DEF AreRows
  <2>2. o \in 0..n
    BY DEF Reads
  <2> HIDE DEF n, p
  <2> QED
    BY <1>1, <2>1, <2>2
<1>3. /\ \A e \in rows : Rank(e, rows) \in 1..n
      /\ \A e, f \in rows : Rank(f, rows) < Rank(e, rows) => Above(f, e)
  <2>1. \A e \in rows : Rank(e, rows) \in 1..n
    BY RankInjective
  <2>2. ASSUME NEW e \in rows, NEW f \in rows, Rank(f, rows) < Rank(e, rows) PROVE Above(f, e)
    <3>1. e # f /\ ~(Rank(e, rows) < Rank(f, rows))
      BY <1>2, <2>1, <2>2
    <3> QED
      BY <3>1, AboveTotal, RankStrict
  <2> QED
    BY <2>1, <2>2
<1>4. /\ seen \subseteq rows
      /\ again \in Nat
      /\ \A e \in (begun \cap rows) \ seen :
           Rank(e, rows) > o /\ \A f \in seen : Above(f, e)
      /\ again + Cardinality(old) <= Cardinality(rows \ begun)
  BY DEF Reads
<1>5. /\ IsFiniteSet(old) /\ IsFiniteSet(new) /\ IsFiniteSet(both)
      /\ Cardinality(old) \in Nat /\ Cardinality(new) \in Nat /\ Cardinality(both) \in Nat
      /\ Cardinality(rows \ begun) \in Nat
  <2>1. old \subseteq rows /\ new \subseteq rows /\ both \subseteq rows /\ rows \ begun \subseteq rows
    BY <1>1, <1>4
  <2> HIDE DEF old, new, both
  <2> QED
    BY <2>1, FS_Subset, FS_CardinalityType DEF AreRows
<1> HIDE DEF p, n
<1>6. Cardinality(both) + Cardinality(new) = Cardinality(old)
  <2>1. old = both \cup new /\ both \cap new = {}
    BY <1>1, <1>2, <1>3, <1>4
  <2> HIDE DEF old, both, new
  <2>2. Cardinality(both \cap new) = 0
    BY <2>1, FS_EmptySet
  <2>3. Cardinality(both \cup new)
          = Cardinality(both) + Cardinality(new) - Cardinality(both \cap new)
    BY <1>5, FS_Union
  <2> QED
    BY <1>5, <2>1, <2>2, <2>3
<1>7. again + Cardinality(both) \in Nat
      /\ (again + Cardinality(both)) + Cardinality(new) <= Cardinality(rows \ begun)
  <2> HIDE DEF old, both, new
  <2> QED
    BY <1>4, <1>5, <1>6
<1>8. ASSUME NEW e \in (begun \cap rows) \ (seen \cup p.rows)
      PROVE  Rank(e, rows) > p.next /\ \A f \in seen \cup p.rows : Above(f, e)
  <2>1. Rank(e, rows) > o /\ \A f \in seen : Above(f, e)
    BY <1>4
  <2>2. Rank(e, rows) > p.next
    BY <1>1, <1>2, <1>3, <2>1
  <2>3. \A f \in p.rows : f \in rows /\ Rank(f, rows) < Rank(e, rows)
    BY <1>1, <1>2, <1>3, <2>2
  <2> QED
    BY <1>3, <2>1, <2>2, <2>3
<1>9. Reads(rows, p.next, begun, seen \cup p.rows, again + Cardinality(p.rows \cap seen))
  <2>1. p.next \in 0..Cardinality(rows) /\ seen \cup p.rows \subseteq rows
    BY <1>1, <1>2, <1>4 DEF n
  <2> QED
    BY <1>7, <1>8, <2>1 DEF Reads
<1>10. ~p.more => begun \cap rows \subseteq seen \cup p.rows
  BY <1>1, <1>2, <1>3, <1>8
<1>11. \A e \in (p.rows \ seen) \cap begun, f \in seen : Above(f, e)
  BY <1>1, <1>4
<1> QED
  BY <1>9, <1>10, <1>11 DEF p

\* One more row, that was not there when the client began.
LEMMA ReadsMore ==
  ASSUME NEW rows, NEW x, AreRows(rows \cup {x}), x \notin rows,
         NEW o, NEW begun, x \notin begun, NEW seen, NEW again,
         Reads(rows, o, begun, seen, again)
  PROVE  Reads(rows \cup {x}, o, begun, seen, again)
<1> DEFINE more == rows \cup {x}
           old == {e \in seen : Rank(e, rows) > o}
           new == {e \in seen : Rank(e, more) > o}
           last == {e \in seen : Rank(e, rows) = o}
<1>1. AreRows(rows) /\ IsFiniteSet(rows)
  BY FS_Subset DEF AreRows
<1>2. /\ o \in 0..Cardinality(rows)
      /\ seen \subseteq rows
      /\ again \in Nat
      /\ \A e \in (begun \cap rows) \ seen :
           Rank(e, rows) > o /\ \A f \in seen : Above(f, e)
      /\ again + Cardinality(old) <= Cardinality(rows \ begun)
  BY DEF Reads
<1>3. /\ Cardinality(rows) \in Nat /\ o \in Nat
      /\ Cardinality(more) = Cardinality(rows) + 1
  BY <1>1, <1>2, FS_CardinalityType, FS_AddElement
<1>4. ASSUME NEW e \in rows
      PROVE  /\ Rank(e, rows) \in Nat
             /\ Rank(e, more) = Rank(e, rows) \/ Rank(e, more) = Rank(e, rows) + 1
  <2> DEFINE A == {y \in rows : Above(y, e)}
             B == {y \in more : Above(y, e)}
  <2>1. IsFiniteSet(A) /\ x \notin A
    BY <1>1, FS_Subset
  <2>2. B = A \/ B = A \cup {x}
    OBVIOUS
  <2>3. Rank(e, rows) = Cardinality(A) + 1 /\ Rank(e, more) = Cardinality(B) + 1
    BY DEF Rank
  <2> HIDE DEF A, B
  <2>4. Cardinality(A) \in Nat
    BY <2>1, FS_CardinalityType
  <2>5. Cardinality(B) = Cardinality(A) \/ Cardinality(B) = Cardinality(A) + 1
    BY <2>1, <2>2, FS_AddElement
  <2> QED
    BY <2>3, <2>4, <2>5
<1>5. IsFiniteSet(old) /\ IsFiniteSet(new) /\ Cardinality(old) \in Nat /\ Cardinality(new) \in Nat
  <2>1. old \subseteq rows /\ new \subseteq rows
    BY <1>2
  <2> HIDE DEF old, new
  <2> QED
    BY <1>1, <2>1, FS_Subset, FS_CardinalityType
<1>6. Cardinality(new) <= Cardinality(old) + 1
  <2>1. new \subseteq old \cup last
    BY <1>2, <1>3, <1>4
  <2>2. \A e, f \in last : e = f
    BY <1>1, <1>2, RankInjective
  <2>3. \E z : new \subseteq old \cup {z}
    <3>1. CASE last = {}
      BY <2>1, <3>1
    <3>2. CASE last # {}
      <4>1. PICK z \in last : TRUE
        BY <3>2
      <4>2. last = {z}
        BY <2>2
      <4> HIDE DEF old, new, last
      <4> QED
        BY <2>1, <4>2
    <3> QED
      BY <3>1, <3>2
  <2>4. PICK z : new \subseteq old \cup {z}
    BY <2>3
  <2> HIDE DEF old, new
  <2>5. IsFiniteSet(old \cup {z}) /\ Cardinality(old \cup {z}) <= Cardinality(old) + 1
        /\ Cardinality(old \cup {z}) \in Nat
    <3>1. IsFiniteSet(old \cup {z})
          /\ (Cardinality(old \cup {z}) = Cardinality(old)
              \/ Cardinality(old \cup {z}) = Cardinality(old) + 1)
      BY <1>5, FS_AddElement
    <3> QED
      BY <1>5, <3>1
  <2>6. Cardinality(new) <= Cardinality(old \cup {z})
    BY <2>4, <2>5, FS_Subset
  <2> QED
    BY <1>5, <2>5, <2>6
<1>7. /\ Cardinality(rows \ begun) \in Nat
      /\ Cardinality(more \ begun) = Cardinality(rows \ begun) + 1
  <2>1. IsFiniteSet(rows \ begun) /\ x \notin rows \ begun
    BY <1>1, FS_Subset
  <2>2. more \ begun = (rows \ begun) \cup {x}
    OBVIOUS
  <2> QED
    BY <2>1, <2>2, FS_AddElement, FS_CardinalityType
<1>8. again + Cardinality(new) <= Cardinality(more \ begun)
  <2> HIDE DEF old, new, more
  <2> QED
    BY <1>2, <1>5, <1>6, <1>7
<1>9. \A e \in (begun \cap more) \ seen :
        Rank(e, more) > o /\ \A f \in seen : Above(f, e)
  <2> SUFFICES ASSUME NEW e \in (begun \cap more) \ seen
               PROVE  Rank(e, more) > o /\ \A f \in seen : Above(f, e)
    OBVIOUS
  <2>1. e \in (begun \cap rows) \ seen
    OBVIOUS
  <2>2. Rank(e, rows) > o /\ \A f \in seen : Above(f, e)
    BY <1>2, <2>1
  <2>3. Rank(e, more) > o
    <3>1. /\ Rank(e, rows) \in Nat
          /\ Rank(e, more) = Rank(e, rows) \/ Rank(e, more) = Rank(e, rows) + 1
      BY <1>4, <2>1
    <3> HIDE DEF more
    <3> QED
      BY <1>3, <2>2, <3>1
  <2> QED
    BY <2>2, <2>3
<1>10. o \in 0..Cardinality(more) /\ seen \subseteq more
  BY <1>2, <1>3
<1> QED
  BY <1>2, <1>8, <1>9, <1>10 DEF Reads

\* What the client that reads is at.
Reading ==
    reader.query # None =>
      LET rows == Matching(reader.query)
      IN /\ reader.begun \subseteq events
         /\ Reads(rows, reader.next, reader.begun, reader.before \cup reader.page, reader.again)
         /\ ~reader.more => reader.begun \cap rows \subseteq reader.before \cup reader.page
         /\ \A e \in (reader.page \ reader.before) \cap reader.begun, f \in reader.before :
              Above(f, e)

\* Those that match are rows.
LEMMA MatchingAreRows == ASSUME AreRows(events), NEW query PROVE AreRows(Matching(query))
<1>1. Matching(query) \subseteq events
  BY DEF Matching
<1> QED
  BY <1>1, FS_Subset DEF AreRows

\* A page that a client is given where it is.
LEMMA ReadPageKeeps ==
  ASSUME AreRows(events), NEW query \in Queries, NEW offset, NEW begun \in SUBSET events,
         NEW seen, NEW again,
         Reads(Matching(query), offset, begun, seen, again),
         ReadPage(query, offset, begun, seen, again)
  PROVE  Reading'
<1> DEFINE rows == Matching(query)
           p == EventPage(rows, offset, query.limit)
<1>1. /\ Reads(rows, p.next, begun, seen \cup p.rows, again + Cardinality(p.rows \cap seen))
      /\ ~p.more => begun \cap rows \subseteq seen \cup p.rows
      /\ \A e \in (p.rows \ seen) \cap begun, f \in seen : Above(f, e)
  <2>1. AreRows(rows)
    BY MatchingAreRows
  <2>2. query.limit \in Nat
    BY QueriesAreQueries, BoundsAreNat DEF Query
  <2>3. Reads(rows, offset, begun, seen, again)
    OBVIOUS
  <2> HIDE DEF rows
  <2> QED
    BY <2>1, <2>2, <2>3, ReadsPage
<1>2. reader' = [query |-> query, next |-> p.next, more |-> p.more, begun |-> begun,
                 before |-> seen, page |-> p.rows, again |-> again + Cardinality(p.rows \cap seen)]
  BY DEF ReadPage
<1>3. events' = events
  BY DEF ReadPage
<1>4. Matching(query)' = rows
  BY <1>3 DEF Matching
<1> HIDE DEF p, rows
<1>5. /\ reader'.query = query /\ reader'.next = p.next /\ reader'.more = p.more
      /\ reader'.begun = begun /\ reader'.before = seen /\ reader'.page = p.rows
      /\ reader'.again = again + Cardinality(p.rows \cap seen)
  BY <1>2
<1> QED
  BY <1>1, <1>3, <1>4, <1>5 DEF Reading

\* An event that is recorded while a client reads.
LEMMA RecordEventKeeps ==
  ASSUME TypeOK, AreRows(events), AreRows(events)', Reading, NEW severity \in Severities,
         RecordEvent(severity), reader.query # None
  PROVE  Reading'
<1> DEFINE new == [id |-> lastEvent + 1, at |-> Times[now], severity |-> severity]
           query == reader.query
           rows == Matching(query)
           seen == reader.before \cup reader.page
<1>1. events' = events \cup {new} /\ reader' = reader
  BY DEF RecordEvent
<1>2. new \notin events
  <2>1. \A e \in events : e.id \in 1..lastEvent
    BY DEF TypeOK
  <2>2. lastEvent \in Nat
    BY BoundsAreNat DEF TypeOK
  <2> QED
    BY <2>1, <2>2
<1> HIDE DEF new
<1>3. rows \subseteq events /\ (Matching(query)' = rows \/ Matching(query)' = rows \cup {new})
  BY <1>1 DEF Matching
<1>4. /\ reader.begun \subseteq events
      /\ Reads(rows, reader.next, reader.begun, seen, reader.again)
      /\ ~reader.more => reader.begun \cap rows \subseteq seen
      /\ \A e \in (reader.page \ reader.before) \cap reader.begun, f \in reader.before : Above(f, e)
  BY DEF Reading
<1>5. AreRows(Matching(query)')
  <2>1. Matching(query)' \subseteq events'
    BY <1>1 DEF Matching
  <2> QED
    BY <2>1, FS_Subset DEF AreRows
<1> HIDE DEF rows, seen
<1>6. new \notin rows /\ new \notin reader.begun
  BY <1>2, <1>3, <1>4
<1>7. Reads(Matching(query)', reader.next, reader.begun, seen, reader.again)
  <2>1. CASE Matching(query)' = rows
    BY <1>4, <2>1
  <2>2. CASE Matching(query)' = rows \cup {new}
    BY <1>4, <1>5, <1>6, <2>2, ReadsMore
  <2> QED
    BY <1>3, <2>1, <2>2
<1>8. reader.begun \cap Matching(query)' = reader.begun \cap rows
  BY <1>3, <1>6
<1>9. reader.begun \subseteq events'
  BY <1>1, <1>4
<1> QED
  BY <1>1, <1>4, <1>7, <1>8, <1>9 DEF Reading, seen

\* Every step keeps it.
LEMMA ReadingNext ==
  TypeOK /\ AreRows(events) /\ AreRows(events)' /\ Reading /\ [Next]_vars => Reading'
<1> SUFFICES ASSUME TypeOK, AreRows(events), AreRows(events)', Reading, [Next]_vars
             PROVE  Reading'
  OBVIOUS
<1>1. ASSUME events' = events, reader' = reader PROVE Reading'
  BY <1>1 DEF Reading, Matching
<1>2. ASSUME NEW severity \in Severities, RecordEvent(severity) PROVE Reading'
  <2>1. CASE reader.query # None
    BY <1>2, <2>1, RecordEventKeeps
  <2>2. CASE reader.query = None
    BY <1>2, <2>2 DEF RecordEvent, Reading
  <2> QED
    BY <2>1, <2>2
<1>3. ASSUME NEW query \in Queries, ReadFirst(query) PROVE Reading'
  <2>1. ReadPage(query, 0, events, {}, 0)
    BY <1>3 DEF ReadFirst
  <2>2. Reads(Matching(query), 0, events, {}, 0)
    <3> DEFINE rows == Matching(query)
    <3>1. AreRows(rows) /\ rows \subseteq events
      BY MatchingAreRows DEF Matching
    <3> HIDE DEF rows
    <3>2. Cardinality(rows) \in Nat /\ \A e \in rows : Rank(e, rows) > 0
      BY <3>1, FS_CardinalityType, RankInjective DEF AreRows
    <3>3. rows \ events = {} /\ {e \in {} : Rank(e, rows) > 0} = {}
      BY <3>1
    <3>4. Cardinality({e \in {} : Rank(e, rows) > 0}) = 0 /\ Cardinality(rows \ events) = 0
      BY <3>3, FS_EmptySet
    <3>5. Reads(rows, 0, events, {}, 0)
      BY <3>2, <3>4 DEF Reads
    <3> QED
      BY <3>5 DEF rows
  <2> QED
    BY <2>1, <2>2, ReadPageKeeps
<1>4. CASE ReadNext
  <2>1. reader.more /\ ReadPage(reader.query, reader.next, reader.begun,
                                reader.before \cup reader.page, reader.again)
    BY <1>4 DEF ReadNext
  <2>2. CASE reader.query = None
    <3>1. reader'.query = None
      BY <2>1, <2>2 DEF ReadPage
    <3> QED
      BY <3>1 DEF Reading
  <2>3. CASE reader.query # None
    <3>1. reader.query \in Queries
      BY <2>3 DEF TypeOK
    <3>2. /\ reader.begun \in SUBSET events
          /\ Reads(Matching(reader.query), reader.next, reader.begun,
                   reader.before \cup reader.page, reader.again)
      BY <2>3 DEF Reading
    <3> QED
      BY <2>1, <3>1, <3>2, ReadPageKeeps
  <2> QED
    BY <2>2, <2>3
<1>5. CASE Reset
  BY <1>5 DEF Reset, NoReader, Reading
<1>6. CASE Tick \/ Reopen
  BY <1>1, <1>6 DEF Tick, Reopen
<1>7. ASSUME NEW s \in Sources, NEW list, UpsertNodeCache(s, list) PROVE Reading'
  BY <1>1, <1>7 DEF UpsertNodeCache
<1>8. ASSUME NEW c \in Clients,
             RecordSample(c) \/ \E tag \in Tags, type \in CheckTypes : StartCheck(c, tag, type)
      PROVE  Reading'
  BY <1>1, <1>8 DEF RecordSample, StartCheck
<1>9. ASSUME NEW before, NEW max, Cleanup(before, max) PROVE Reading'
  BY <1>1, <1>9 DEF Cleanup
<1>10. CASE UNCHANGED vars
  BY <1>1, <1>10 DEF vars
<1> QED
  BY <1>2, <1>3, <1>4, <1>5, <1>6, <1>7, <1>8, <1>9, <1>10 DEF Next

\* A client that follows the offsets while events are recorded has seen, with the last page,
\* every event that was there when it began and that it asks for, and of these none for the
\* first time after one of an earlier second; it is shown one again at most once for each
\* that was recorded since, whatever the queries, times and page sizes.
THEOREM EventPagesAreComplete == Spec => []EventPagesComplete
<1>1. ASSUME TypeOK, AreRows(events), Reading PROVE EventPagesComplete
  <2> SUFFICES ASSUME reader.query # None
               PROVE  EventPagesComplete
    BY DEF EventPagesComplete
  <2> DEFINE query == reader.query
             rows == Matching(query)
             seen == reader.before \cup reader.page
             asked(e) == query.severity \in {None, e.severity}
  <2>1. /\ reader.begun \subseteq events
        /\ Reads(rows, reader.next, reader.begun, seen, reader.again)
        /\ ~reader.more => reader.begun \cap rows \subseteq seen
        /\ \A e \in (reader.page \ reader.before) \cap reader.begun, f \in reader.before : Above(f, e)
    BY <1>1 DEF Reading
  <2>2. query \in Query
    BY <1>1, QueriesAreQueries DEF TypeOK
  <2>3. \A e \in events : e.at \in Moments /\ e.at.sec \in Nat
    BY <1>1, TimesAreTimes DEF AreRows, IsRow
  <2>4. /\ query.since # None => query.since \in Moments /\ query.since.sec \in Nat
        /\ query.until # None => query.until \in Moments /\ query.until.sec \in Nat
        /\ query.severity # None => query.severity \in Severities
    BY <2>2, TimesAreTimes DEF Query
  <2>5. ASSUME NEW e \in events
        PROVE  e \in rows <=> /\ query.severity # None => e.severity = query.severity
                              /\ query.since # None => ~TextBefore(e.at, query.since)
                              /\ query.until # None => ~TextBefore(query.until, e.at)
    BY DEF Matching
  <2>6. ASSUME NEW e \in events, asked(e),
               query.since # None => e.at.sec > query.since.sec,
               query.until # None => e.at.sec < query.until.sec
        PROVE  e \in rows
    <3>1. query.since # None => ~TextBefore(e.at, query.since)
      BY <2>3, <2>4, <2>6, TextBeforeDef
    <3>2. query.until # None => ~TextBefore(query.until, e.at)
      BY <2>3, <2>4, <2>6, TextBeforeDef
    <3>3. query.severity # None => e.severity = query.severity
      BY <2>6
    <3> HIDE DEF rows
    <3> QED
      BY <2>5, <3>1, <3>2, <3>3
  <2>7. ASSUME NEW e \in rows
        PROVE  /\ asked(e)
               /\ query.since # None => e.at.sec >= query.since.sec
               /\ query.until # None => e.at.sec <= query.until.sec
    <3>1. e \in events
      BY DEF Matching
    <3> HIDE DEF rows
    <3>2. /\ query.severity # None => e.severity = query.severity
          /\ query.since # None => ~TextBefore(e.at, query.since)
          /\ query.until # None => ~TextBefore(query.until, e.at)
      BY <2>5, <3>1
    <3>3. query.since # None => e.at.sec >= query.since.sec
      BY <2>3, <2>4, <3>1, <3>2, TextBeforeDef
    <3>4. query.until # None => e.at.sec <= query.until.sec
      BY <2>3, <2>4, <3>1, <3>2, TextBeforeDef
    <3> QED
      BY <3>2, <3>3, <3>4
  <2>8. seen \subseteq rows /\ rows \subseteq events
    BY <2>1 DEF Reads, Matching
  <2>9. ~reader.more => \A e \in reader.begun :
          /\ asked(e)
          /\ query.since # None => e.at.sec > query.since.sec
          /\ query.until # None => e.at.sec < query.until.sec
          => e \in seen
    <3> HIDE DEF rows, seen, asked
    <3> QED
      BY <2>1, <2>6
  <2>10. \A e \in seen : /\ asked(e)
                         /\ query.since # None => e.at.sec >= query.since.sec
                         /\ query.until # None => e.at.sec <= query.until.sec
    <3> HIDE DEF rows, seen, asked
    <3> QED
      BY <2>7, <2>8
  <2>11. \A e \in (reader.page \ reader.before) \cap reader.begun, f \in reader.before :
           e.at.sec <= f.at.sec
    <3> SUFFICES ASSUME NEW e \in (reader.page \ reader.before) \cap reader.begun,
                        NEW f \in reader.before
                 PROVE  e.at.sec <= f.at.sec
      OBVIOUS
    <3>1. e \in events /\ f \in events
      BY <2>8
    <3>2. Above(f, e)
      BY <2>1
    <3>3. TextBefore(e.at, f.at) \/ f.at = e.at
      BY <3>2 DEF Above
    <3> QED
      BY <2>3, <3>1, <3>3, TextBeforeDef
  <2>12. reader.again <= Cardinality(rows \ reader.begun)
    <3>1. /\ reader.again \in Nat
          /\ reader.again + Cardinality({e \in seen : Rank(e, rows) > reader.next})
               <= Cardinality(rows \ reader.begun)
      BY <2>1 DEF Reads
    <3>2. IsFiniteSet(rows)
      BY <1>1, <2>8, FS_Subset DEF AreRows
    <3>3. /\ Cardinality({e \in seen : Rank(e, rows) > reader.next}) \in Nat
          /\ Cardinality(rows \ reader.begun) \in Nat
      <4>1. {e \in seen : Rank(e, rows) > reader.next} \subseteq rows
        BY <2>8
      <4> HIDE DEF rows, seen
      <4> QED
        BY <3>2, <4>1, FS_Subset, FS_CardinalityType
    <3> HIDE DEF rows, seen
    <3> QED
      BY <3>1, <3>3
  <2> QED
    BY <2>9, <2>10, <2>11, <2>12 DEF EventPagesComplete
<1>2. Init => Reading
  BY DEF Init, NoReader, Reading
<1> QED
  BY <1>1, <1>2, ReadingNext, EventsCorrect, TypeCorrect, PTL DEF Spec
=============================================================================

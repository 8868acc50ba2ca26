------------------------ MODULE NewsSentimentProofs ------------------------
(***************************************************************************)
(* Proofs about NewsSentiment, for any cycles, articles, symbols, interval *)
(* and window: what the service has stored when it answers a cycle.        *)
(***************************************************************************)
EXTENDS NewsSentiment, FiniteSetTheorems, TLAPS

\* A cycle stores an article once.
StoredOnce ==
  \A p \in Cycles : session[p] # None =>
    /\ \A r \in session[p].rows : r.by = p
    /\ \A r, q \in session[p].rows : r.article = q.article => r = q
    /\ \A r \in session[p].rows, q \in news : q.by = p => q.article # r.article

\* A row is not older than its article, which is younger in the store when its
\* time cannot be parsed.
YoungerThanArticle(rows) ==
  \A r \in rows : published[r.article] # None /\ r.age <= published[r.article]

RowsAreYounger ==
  /\ YoungerThanArticle(news)
  /\ \A p \in Cycles : session[p] # None => YoungerThanArticle(session[p].rows)

\* The provider has had the article among its answers for more than n ticks.
LongOut(a, n) == published[a] # None /\ published[a] > n /\ ~OutOfFeed(a)

Known(p, a) == NewsExists(a) \/ \E r \in session[p].rows : r.article = a

\* While the newest row is within the interval, whatever was out when the cycle that
\* created it began is stored.
FreshIsComplete ==
  quiet <= Interval => \A a \in Articles : LongOut(a, quiet + MaxCycle) => NewsExists(a)

\* A cycle that was answered, or needed no answer, knows what was out for long.
SessionIsComplete ==
  \A p \in Cycles : session[p] # None =>
    /\ session[p].asks => session[p].rows = {} /\ ~session[p].refused
    /\ session[p].refused => session[p].rows = {}
    /\ session[p].created # None => session[p].rows # {}
    /\ session[p].rows # {} =>
         \A a \in Articles : LongOut(a, session[p].age) => Known(p, a)
    /\ ~session[p].asks /\ ~session[p].refused =>
         \A a \in Articles : LongOut(a, Interval + MaxCycle + session[p].age) => Known(p, a)

IInv == TypeOK /\ StoredOnce /\ RowsAreYounger /\ FreshIsComplete /\ SessionIsComplete

-----------------------------------------------------------------------------
(***************************************************************************)
(* Ages, sessions and rows.                                                *)
(***************************************************************************)
\* What is assumed of the numbers.
LEMMA Constants ==
  /\ Interval \in Nat /\ Window \in Nat /\ Limit \in Nat /\ FeedSize \in Nat
  /\ Interval > 0 /\ Window > 0 /\ Limit > 0 /\ FeedSize > 0
  /\ MaxCycle \in Nat
  BY NewsAssumption

\* Growing older keeps the order of two ages, and the bound.
LEMMA OlderFacts ==
  ASSUME NEW most \in Nat, NEW x \in 0..most + 1, NEW y \in 0..most + 1
  PROVE  /\ Older(x, most) \in 0..most + 1
         /\ Older(x, most) <= x + 1 /\ x <= Older(x, most)
         /\ x <= most => Older(x, most) = x + 1
         /\ x <= y => Older(x, most) <= Older(y, most)
  BY DEF Older

\* Reaching a symbol leaves the rows of a session, and flushes them.
LEMMA ReachFields ==
  ASSUME NEW s \in Session, NEW symbol
  PROVE  /\ Reach(s, symbol) \in Session
         /\ Reach(s, symbol).asks = s.asks /\ Reach(s, symbol).refused = s.refused
         /\ Reach(s, symbol).rows = s.rows /\ Reach(s, symbol).age = s.age
         /\ s.rows # {} => Reach(s, symbol).created # None
         /\ s.rows = {} => Reach(s, symbol).created = s.created
  <1>1. s.created \in 0..Interval + 1 \cup {None} /\ s.todo \subseteq Symbols
    BY DEF Session
  <1>2. 0 # None /\ 0 \in 0..Interval + 1
    BY NewsAssumption
  <1> QED
    BY <1>1, <1>2 DEF Reach, Session

\* Rows grow older one by one.
LEMMA AgedRowsFacts ==
  ASSUME NEW rows \in SUBSET NewsItem
  PROVE  /\ AgedRows(rows) \in SUBSET NewsItem
         /\ \A r \in AgedRows(rows) : \E q \in rows :
              r.article = q.article /\ r.by = q.by /\ r.age = Older(q.age, Window)
         /\ \A q \in rows : \E r \in AgedRows(rows) :
              r.article = q.article /\ r.by = q.by /\ r.age = Older(q.age, Window)
         /\ rows = {} <=> AgedRows(rows) = {}
  <1>1. ASSUME NEW q \in rows
        PROVE  LET r == [q EXCEPT !.age = Older(q.age, Window)]
               IN r \in NewsItem /\ r.article = q.article /\ r.by = q.by /\ r.age = Older(q.age, Window)
    <2>1. Older(q.age, Window) \in Age
      BY Constants, OlderFacts DEF NewsItem, Age
    <2> QED
      BY <2>1 DEF NewsItem
  <1> QED
    BY <1>1 DEF AgedRows

\* A session that grows older keeps everything but its ages.
LEMMA AgedFields ==
  ASSUME NEW s \in Session, s # None, s.age < MaxCycle
  PROVE  /\ Aged(s) \in Session
         /\ Aged(s).asks = s.asks /\ Aged(s).refused = s.refused
         /\ Aged(s).age = s.age + 1 /\ Aged(s).rows = AgedRows(s.rows)
         /\ Aged(s).created # None => s.created # None
  <1>1. AgedRows(s.rows) \in SUBSET NewsItem
    BY AgedRowsFacts DEF Session
  <1>2. s.created # None => Older(s.created, Interval) \in 0..Interval + 1
    BY Constants, OlderFacts DEF Session
  <1>3. s.age + 1 \in 0..MaxCycle
    BY Constants DEF Session
  <1> QED
    BY <1>1, <1>2, <1>3 DEF Aged, Session

\* _store_alpha_vantage_feed: one row for each article of the feed that is not stored.
LEMMA StoredFacts ==
  ASSUME TypeOK, NEW p \in Cycles, NEW feed \in Feeds
  PROVE  /\ Stored(p, feed) \in SUBSET NewsItem
         /\ \A r \in Stored(p, feed) :
              /\ r.by = p /\ r.article \in feed /\ ~NewsExists(r.article)
              /\ published[r.article] # None /\ r.age <= published[r.article]
         /\ \A r, q \in Stored(p, feed) : r.article = q.article => r = q
         /\ \A a \in feed : NewsExists(a) \/ \E r \in Stored(p, feed) : r.article = a
  <1>1. feed \subseteq Articles /\ \A a \in feed : published[a] # None
    BY DEF Feeds
  <1>2. \A a \in feed : published[a] \in 0..Window + 1
    BY <1>1 DEF TypeOK, Age
  <1>3. 0 \in 0..Window + 1
    BY Constants
  <1> DEFINE row(a) == [article |-> a, by |-> p, age |-> IF About[a].dated THEN published[a] ELSE 0]
  <1>4. ASSUME NEW a \in feed
        PROVE  /\ row(a) \in NewsItem
               /\ row(a).article = a /\ row(a).by = p /\ row(a).age <= published[a]
    BY <1>1, <1>2, <1>3 DEF NewsItem, Age
  <1>5. Stored(p, feed) = {row(a) : a \in {a \in feed : ~NewsExists(a)}}
    BY DEF Stored
  <1> HIDE DEF row
  <1> QED
    BY <1>1, <1>4, <1>5

-----------------------------------------------------------------------------
(***************************************************************************)
(* The answers of the provider.                                            *)
(***************************************************************************)
Ahead(a) == {b \in Articles \ {a} : published[b] # None /\ published[b] <= published[a]}

\* Finitely many articles are ahead of one.
LEMMA AheadIsFinite ==
  ASSUME NEW a \in Articles
  PROVE  IsFiniteSet(Ahead(a)) /\ Cardinality(Ahead(a)) \in Nat
  BY NewsAssumption, FS_Subset, FS_CardinalityType DEF Ahead

\* What an answer leaves out has been pushed out.
LEMMA FeedMisses ==
  ASSUME NEW feed \in Feeds, NEW a \in Articles, published[a] # None, a \notin feed
  PROVE  OutOfFeed(a)
  <1> DEFINE out == {b \in Articles : published[b] # None}
  <1>1. IsFiniteSet(out) /\ Cardinality(out) \in Nat
    BY NewsAssumption, FS_Subset, FS_CardinalityType
  <1>2. feed \in SUBSET out /\ feed # out
    BY DEF Feeds
  <1>3. Cardinality(feed) # Cardinality(out)
    BY <1>1, <1>2, FS_Subset
  <1>4. Cardinality(feed) = FeedSize
    BY <1>1, <1>3, Constants DEF Feeds
  <1>5. feed \in SUBSET Ahead(a)
    BY <1>2 DEF Feeds, Ahead
  <1>6. Cardinality(feed) <= Cardinality(Ahead(a))
    BY <1>5, AheadIsFinite, FS_Subset
  <1> QED
    BY <1>4, <1>6, AheadIsFinite, Constants DEF OutOfFeed, Ahead

\* What is pushed out of the answers stays out.
LEMMA OutOfFeedStays ==
  ASSUME TypeOK, TypeOK', [Next]_vars, NEW a \in Articles, OutOfFeed(a)
  PROVE  OutOfFeed(a)'
  <1>1. /\ published[a] # None => published'[a] # None
        /\ \A b \in Articles : published[b] # None /\ published[b] <= published[a] /\ published[a] # None
             => published'[b] # None /\ published'[b] <= published'[a]
    <2>1. CASE \E c \in Articles : Publish(c)
      BY <2>1, NewsAssumption DEF Publish, TypeOK
    <2>2. CASE Tick
      <3>1. \A b \in Articles : published[b] # None => published[b] \in 0..Window + 1
        BY DEF TypeOK, Age
      <3>2. \A b \in Articles : published[b] # None => published'[b] = Older(published[b], Window)
        BY <2>2 DEF Tick
      <3>3. None \notin Nat
        BY NewsAssumption
      <3>4. ASSUME NEW b \in Articles, published[b] # None
            PROVE  published'[b] # None
        <4>1. published[b] \in 0..Window + 1 /\ published'[b] = Older(published[b], Window)
          BY <3>1, <3>2, <3>4
        <4>2. published'[b] \in 0..Window + 1
          BY <4>1, OlderFacts, Constants
        <4> QED
          BY <3>3, <4>2, Constants
      <3>5. ASSUME NEW b \in Articles, published[a] # None, published[b] # None,
                   published[b] <= published[a]
            PROVE  published'[b] <= published'[a]
        <4>1. /\ published[a] \in 0..Window + 1 /\ published'[a] = Older(published[a], Window)
              /\ published[b] \in 0..Window + 1 /\ published'[b] = Older(published[b], Window)
          BY <3>1, <3>2, <3>5
        <4> QED
          BY <3>5, <4>1, OlderFacts, Constants
      <3> QED
        BY <3>4, <3>5
    <2>3. CASE UNCHANGED published
      BY <2>3
    <2> QED
      BY <2>1, <2>2, <2>3 DEF Next, vars, Begin, Step, Rollback, OutageChanges, Answered, Refused, Commit, Enter, NoEntry
  <1>2. Ahead(a) \in SUBSET Ahead(a)'
    BY <1>1 DEF Ahead, OutOfFeed
  <1>3. Cardinality(Ahead(a)) <= Cardinality(Ahead(a)')
    <2>1. IsFiniteSet(Ahead(a)')
      BY NewsAssumption, FS_Subset DEF Ahead
    <2> QED
      BY <1>2, <2>1, FS_Subset
  <1>4. Cardinality(Ahead(a)) \in Nat /\ Cardinality(Ahead(a)') \in Nat
    BY NewsAssumption, FS_Subset, FS_CardinalityType DEF Ahead
  <1>5. OutOfFeed(a) <=> published[a] # None /\ Cardinality(Ahead(a)) >= FeedSize
    BY DEF OutOfFeed, Ahead
  <1>6. OutOfFeed(a)' <=> published'[a] # None /\ Cardinality(Ahead(a)') >= FeedSize
    BY DEF OutOfFeed, Ahead
  <1> QED
    BY <1>1, <1>3, <1>4, <1>5, <1>6, Constants

-----------------------------------------------------------------------------
(***************************************************************************)
(* The parts of the invariant, step by step.                               *)
(***************************************************************************)
\* Nothing is stored at first.
LEMMA InitHolds == ASSUME Init PROVE IInv
  <1>1. TypeOK
    <2>1. broken \in BOOLEAN
      BY Zenon DEF Init
    <2> QED
      BY <2>1, Constants DEF Init, TypeOK, Age
  <1> QED
    BY <1>1, Constants DEF Init, IInv, StoredOnce, RowsAreYounger, YoungerThanArticle,
         FreshIsComplete, SessionIsComplete

\* A cycle that reaches a symbol changes its own session only.
LEMMA Reached ==
  ASSUME TypeOK, NEW p \in Cycles, NEW symbol \in Symbols,
         Enter(p, symbol) \/ NoEntry(p, symbol)
  PROVE  /\ session[p] \in Session /\ session[p] # None /\ ~session[p].asks
         /\ session' = [session EXCEPT ![p] = Reach(session[p], symbol)]
         /\ UNCHANGED <<published, news, quiet, broken>>
  BY DEF Enter, NoEntry, Reaches, TypeOK

\* An answered cycle holds the rows of a feed.
LEMMA AnswerGiven ==
  ASSUME TypeOK, NEW p \in Cycles, Answered(p)
  PROVE  /\ session[p] \in Session /\ session[p] # None
         /\ UNCHANGED <<published, news, quiet, broken>>
         /\ \E feed \in Feeds, s \in Session :
              /\ session' = [session EXCEPT ![p] = s]
              /\ s.rows = Stored(p, feed) /\ s.age = session[p].age
              /\ ~s.asks /\ s.refused = session[p].refused /\ s.created = session[p].created
  <1>1. session[p] \in Session /\ session[p] # None
    BY DEF Answered, TypeOK
  <1>2. PICK feed \in Feeds :
          session' = [session EXCEPT ![p].asks = FALSE, ![p].rows = Stored(p, feed)]
    BY DEF Answered
  <1> DEFINE s == [session[p] EXCEPT !.asks = FALSE, !.rows = Stored(p, feed)]
  <1>3. Stored(p, feed) \in SUBSET NewsItem
    BY StoredFacts
  <1>4. /\ s \in Session /\ s.rows = Stored(p, feed) /\ s.age = session[p].age
        /\ ~s.asks /\ s.refused = session[p].refused /\ s.created = session[p].created
    BY <1>1, <1>3 DEF Session
  <1>5. session' = [session EXCEPT ![p] = s]
    BY <1>2
  <1> HIDE DEF s
  <1> QED
    BY <1>1, <1>4, <1>5 DEF Answered

\* Every step keeps the types.
LEMMA TypeStep == ASSUME IInv, [Next]_vars PROVE TypeOK'
  <1> USE Constants
  <1>0. TypeOK /\ StoredOnce
    BY DEF IInv
  <1>1. ASSUME NEW a \in Articles, Publish(a) PROVE TypeOK'
    BY <1>0, <1>1 DEF Publish, TypeOK, Age
  <1>2. ASSUME NEW p \in Cycles, Begin(p) PROVE TypeOK'
    BY <1>0, <1>2 DEF Begin, TypeOK, Session
  <1>3. ASSUME NEW p \in Cycles, Answered(p) PROVE TypeOK'
    BY <1>0, <1>3, AnswerGiven DEF TypeOK
  <1>4. ASSUME NEW p \in Cycles, Refused(p) PROVE TypeOK'
    BY <1>0, <1>4, ZenonT(60) DEF Refused, TypeOK, Session
  <1>5. ASSUME NEW p \in Cycles, Commit(p) PROVE TypeOK'
    <2>1. session[p] \in Session
      BY <1>0, <1>5 DEF Commit, TypeOK
    <2>2. news' \subseteq NewsItem /\ quiet' \in 0..Interval + 1
      BY <1>0, <1>5, <2>1 DEF Commit, TypeOK, Session
    <2>3. \A r, q \in news' : r.article = q.article /\ r.by = q.by => r = q
      BY <1>0, <1>5 DEF Commit, TypeOK, StoredOnce
    <2> QED
      BY <1>0, <1>5, <2>2, <2>3 DEF Commit, TypeOK
  <1>6. ASSUME NEW p \in Cycles, NEW symbol \in Symbols, Enter(p, symbol) \/ NoEntry(p, symbol)
        PROVE  TypeOK'
    <2>1. Reach(session[p], symbol) \in Session
      BY <1>0, <1>6, Reached, ReachFields
    <2> QED
      BY <1>0, <1>6, <2>1, Reached DEF TypeOK
  <1>7. ASSUME NEW p \in Cycles, Rollback(p) PROVE TypeOK'
    BY <1>0, <1>7 DEF Rollback, TypeOK
  <1>8. ASSUME Tick PROVE TypeOK'
    <2>1. published' \in [Articles -> Age \cup {None}]
      BY <1>0, <1>8, OlderFacts DEF Tick, TypeOK, Age
    <2>2. news' \subseteq NewsItem /\ quiet' \in 0..Interval + 1
      BY <1>0, <1>8, AgedRowsFacts, OlderFacts DEF Tick, TypeOK
    <2>3. session' \in [Cycles -> Session \cup {None}]
      <3>1. ASSUME NEW p \in Cycles PROVE Aged(session[p]) \in Session \cup {None}
        <4>1. CASE session[p] = None
          BY <4>1 DEF Aged
        <4>2. CASE session[p] # None
          BY <1>0, <1>8, <4>2, AgedFields DEF Tick, TypeOK
        <4> QED
          BY <4>1, <4>2
      <3> QED
        BY <1>8, <3>1 DEF Tick
    <2>4. \A r, q \in news' : r.article = q.article /\ r.by = q.by => r = q
      BY <1>0, <1>8 DEF Tick, TypeOK, AgedRows, NewsItem
    <2> QED
      BY <1>0, <1>8, <2>1, <2>2, <2>3, <2>4 DEF Tick, TypeOK
  <1>9. CASE UNCHANGED vars
    BY <1>0, <1>9 DEF vars, TypeOK
  <1>10. CASE OutageChanges
    <2>1. broken' \in BOOLEAN /\ UNCHANGED <<published, news, quiet, session>>
      BY <1>10, Zenon DEF OutageChanges
    <2> QED
      BY <1>0, <2>1 DEF TypeOK
  <1> QED
    BY <1>1, <1>2, <1>3, <1>4, <1>5, <1>6, <1>7, <1>8, <1>9, <1>10 DEF Next, Step

\* Refused and the two ways to reach a symbol leave the rows of a session as they are.
LEMMA KeepsRows ==
  ASSUME TypeOK, NEW p \in Cycles,
         Refused(p) \/ \E symbol \in Symbols : Enter(p, symbol) \/ NoEntry(p, symbol)
  PROVE  /\ session[p] \in Session /\ session[p] # None
         /\ UNCHANGED <<published, news, quiet, broken>>
         /\ \E s \in Session :
              /\ session' = [session EXCEPT ![p] = s]
              /\ s.rows = session[p].rows /\ s.age = session[p].age /\ ~s.asks
              /\ s.refused = (session[p].refused \/ Refused(p))
              /\ s.rows = {} => s.created = session[p].created
  <1>1. CASE Refused(p)
    <2>1. session[p] \in Session /\ session[p] # None
      BY <1>1 DEF Refused, TypeOK
    <2> DEFINE s == [session[p] EXCEPT !.asks = FALSE, !.refused = TRUE]
    <2>2. /\ s \in Session /\ s.rows = session[p].rows /\ s.age = session[p].age /\ ~s.asks /\ s.refused
          /\ s.created = session[p].created
      BY <2>1 DEF Session
    <2>3. session' = [session EXCEPT ![p] = s]
      BY <1>1 DEF Refused
    <2> HIDE DEF s
    <2> QED
      BY <1>1, <2>1, <2>2, <2>3 DEF Refused
  <1>2. CASE ~Refused(p)
    <2>1. PICK symbol \in Symbols : Enter(p, symbol) \/ NoEntry(p, symbol)
      BY <1>2
    <2>2. Reach(session[p], symbol) \in Session
      BY <2>1, Reached, ReachFields
    <2> QED
      BY <1>2, <2>1, <2>2, Reached, ReachFields DEF Session
  <1> QED
    BY <1>1, <1>2

\* Every step keeps what a cycle stored once.
LEMMA OnceStep == ASSUME IInv, [Next]_vars PROVE StoredOnce'
  <1>0. TypeOK /\ StoredOnce
    BY DEF IInv
  <1>1. ASSUME NEW a \in Articles, Publish(a) PROVE StoredOnce'
    BY <1>0, <1>1 DEF Publish, StoredOnce
  <1>2. ASSUME NEW p \in Cycles, Begin(p) PROVE StoredOnce'
    BY <1>0, <1>2 DEF Begin, StoredOnce, TypeOK
  <1>3. ASSUME NEW p \in Cycles, Answered(p) PROVE StoredOnce'
    <2>1. PICK feed \in Feeds, s \in Session :
            session' = [session EXCEPT ![p] = s] /\ s.rows = Stored(p, feed)
      BY <1>0, <1>3, AnswerGiven
    <2>2. \A r \in s.rows, q \in news : q.article # r.article
      BY <1>0, <2>1, StoredFacts DEF NewsExists
    <2> QED
      BY <1>0, <1>3, <2>1, <2>2, AnswerGiven, StoredFacts DEF StoredOnce, TypeOK
  <1>4. ASSUME NEW p \in Cycles,
               Refused(p) \/ \E symbol \in Symbols : Enter(p, symbol) \/ NoEntry(p, symbol)
        PROVE  StoredOnce'
    BY <1>0, <1>4, KeepsRows DEF StoredOnce, TypeOK
  <1>5. ASSUME NEW p \in Cycles, Commit(p) PROVE StoredOnce'
    BY <1>0, <1>5 DEF Commit, StoredOnce, TypeOK
  <1>6. ASSUME NEW p \in Cycles, Rollback(p) PROVE StoredOnce'
    BY <1>0, <1>6 DEF Rollback, StoredOnce, TypeOK
  <1>7. ASSUME Tick PROVE StoredOnce'
    <2>1. ASSUME NEW p \in Cycles, session'[p] # None
          PROVE  session[p] # None /\ session[p] \in Session /\ session'[p].rows = AgedRows(session[p].rows)
      BY <1>0, <1>7, <2>1, AgedFields DEF Tick, TypeOK, Aged
    <2>2. ASSUME NEW p \in Cycles, session'[p] # None
          PROVE  /\ \A r \in session'[p].rows : r.by = p
                 /\ \A r, q \in session'[p].rows : r.article = q.article => r = q
                 /\ \A r \in session'[p].rows, q \in news' : q.by = p => q.article # r.article
      <3>1. session[p].rows \in SUBSET NewsItem /\ news \in SUBSET NewsItem /\ news' = AgedRows(news)
        BY <1>0, <1>7, <2>1, <2>2 DEF Tick, TypeOK, Session
      <3>2. \A r, q \in AgedRows(session[p].rows) : r.article = q.article => r = q
        BY <1>0, <2>1, <2>2, <3>1 DEF AgedRows, StoredOnce, NewsItem
      <3> QED
        BY <1>0, <2>1, <2>2, <3>1, <3>2, AgedRowsFacts DEF StoredOnce
    <2> QED
      BY <2>2 DEF StoredOnce
  <1>8. CASE UNCHANGED vars \/ OutageChanges
    BY <1>0, <1>8 DEF vars, OutageChanges, StoredOnce
  <1> QED
    BY <1>1, <1>2, <1>3, <1>4, <1>5, <1>6, <1>7, <1>8 DEF Next, Step

\* Every step keeps rows younger than their articles: both grow older together.
LEMMA YoungerStep == ASSUME IInv, [Next]_vars PROVE RowsAreYounger'
  <1>0. TypeOK /\ RowsAreYounger
    BY DEF IInv
  <1>1. ASSUME NEW a \in Articles, Publish(a) PROVE RowsAreYounger'
    BY <1>0, <1>1 DEF Publish, RowsAreYounger, YoungerThanArticle, TypeOK
  <1>2. ASSUME NEW p \in Cycles, Begin(p) PROVE RowsAreYounger'
    BY <1>0, <1>2 DEF Begin, RowsAreYounger, YoungerThanArticle, TypeOK
  <1>3. ASSUME NEW p \in Cycles, Answered(p) PROVE RowsAreYounger'
    <2>1. PICK feed \in Feeds, s \in Session :
            session' = [session EXCEPT ![p] = s] /\ s.rows = Stored(p, feed)
      BY <1>0, <1>3, AnswerGiven
    <2> QED
      BY <1>0, <1>3, <2>1, AnswerGiven, StoredFacts DEF RowsAreYounger, YoungerThanArticle, TypeOK
  <1>4. ASSUME NEW p \in Cycles,
               Refused(p) \/ \E symbol \in Symbols : Enter(p, symbol) \/ NoEntry(p, symbol)
        PROVE  RowsAreYounger'
    BY <1>0, <1>4, KeepsRows DEF RowsAreYounger, YoungerThanArticle, TypeOK
  <1>5. ASSUME NEW p \in Cycles, Commit(p) PROVE RowsAreYounger'
    BY <1>0, <1>5 DEF Commit, RowsAreYounger, YoungerThanArticle, TypeOK
  <1>6. ASSUME NEW p \in Cycles, Rollback(p) PROVE RowsAreYounger'
    BY <1>0, <1>6 DEF Rollback, RowsAreYounger, YoungerThanArticle, TypeOK
  <1>7. ASSUME Tick PROVE RowsAreYounger'
    <2>1. ASSUME NEW rows \in SUBSET NewsItem, YoungerThanArticle(rows), NEW r \in AgedRows(rows)
          PROVE  published'[r.article] # None /\ r.age <= published'[r.article]
      <3>1. PICK q \in rows : r.article = q.article /\ r.age = Older(q.age, Window)
        BY AgedRowsFacts
      <3>2. /\ q.article \in Articles /\ q.age \in 0..Window + 1
            /\ published[q.article] \in 0..Window + 1 /\ q.age <= published[q.article]
        BY <1>0, <2>1, <3>1 DEF NewsItem, YoungerThanArticle, TypeOK, Age
      <3>3. published'[q.article] = Older(published[q.article], Window)
        BY <1>7, <2>1, <3>1, <3>2 DEF Tick, YoungerThanArticle
      <3>4. Older(published[q.article], Window) \in Nat
        BY <3>2, OlderFacts, Constants
      <3> QED
        BY <3>1, <3>2, <3>3, <3>4, OlderFacts, Constants, NewsAssumption
    <2>2. \A r \in news' : published'[r.article] # None /\ r.age <= published'[r.article]
      BY <1>0, <1>7, <2>1 DEF Tick, TypeOK, RowsAreYounger
    <2>3. ASSUME NEW p \in Cycles, session'[p] # None
          PROVE  \A r \in session'[p].rows : published'[r.article] # None /\ r.age <= published'[r.article]
      <3>1. /\ session[p] # None /\ session[p] \in Session
            /\ session'[p].rows = AgedRows(session[p].rows)
        BY <1>0, <1>7, <2>3, AgedFields DEF Tick, TypeOK, Aged
      <3> QED
        BY <1>0, <2>1, <3>1 DEF RowsAreYounger, Session
    <2> QED
      BY <2>2, <2>3 DEF RowsAreYounger, YoungerThanArticle
  <1>8. CASE UNCHANGED vars \/ OutageChanges
    BY <1>0, <1>8 DEF vars, OutageChanges, RowsAreYounger, YoungerThanArticle
  <1> QED
    BY <1>1, <1>2, <1>3, <1>4, <1>5, <1>6, <1>7, <1>8 DEF Next, Step

-----------------------------------------------------------------------------
(***************************************************************************)
(* What a cycle knows.                                                     *)
(***************************************************************************)
\* No step forgets a stored article.
LEMMA NewsIsKept ==
  ASSUME TypeOK, [Next]_vars, NEW a \in Articles, NewsExists(a)
  PROVE  NewsExists(a)'
  <1>1. CASE Tick
    <2>1. news' = AgedRows(news) /\ news \in SUBSET NewsItem
      BY <1>1 DEF Tick, TypeOK
    <2> QED
      BY <2>1, AgedRowsFacts DEF NewsExists
  <1>2. CASE \E p \in Cycles : Commit(p)
    BY <1>2 DEF Commit, NewsExists
  <1>3. CASE UNCHANGED news
    BY <1>3 DEF NewsExists
  <1> QED
    BY <1>1, <1>2, <1>3 DEF Next, vars, Publish, Begin, Step, Rollback, OutageChanges, Answered, Refused, Enter, NoEntry

\* What was out for long after a step was out for long before it.
LEMMA LongBefore ==
  ASSUME TypeOK, TypeOK', [Next]_vars, NEW a \in Articles, published'[a] # None, ~OutOfFeed(a)'
  PROVE  /\ UNCHANGED published \/ (\E b \in Articles : Publish(b)) =>
              published'[a] = 0 \/ (published[a] = published'[a] /\ ~OutOfFeed(a))
         /\ Tick => published[a] # None /\ published'[a] <= published[a] + 1 /\ ~OutOfFeed(a)
  <1>1. ~OutOfFeed(a)
    BY OutOfFeedStays
  <1>2. ASSUME NEW b \in Articles, Publish(b) PROVE published'[a] = 0 \/ published[a] = published'[a]
    BY <1>2 DEF Publish, TypeOK
  <1>3. ASSUME Tick PROVE published[a] # None /\ published'[a] <= published[a] + 1
    <2>1. published[a] # None /\ published'[a] = Older(published[a], Window)
      BY <1>3 DEF Tick
    <2>2. published[a] \in 0..Window + 1
      BY <2>1 DEF TypeOK, Age
    <2> QED
      BY <2>1, <2>2, OlderFacts, Constants
  <1> QED
    BY <1>1, <1>2, <1>3

\* Every step keeps what a cycle knows: what it did not find in an answer was pushed out.
LEMMA SessionStep == ASSUME IInv, TypeOK', [Next]_vars PROVE SessionIsComplete'
  <1>0. TypeOK /\ FreshIsComplete /\ SessionIsComplete
    BY DEF IInv
  <1> SUFFICES ASSUME NEW p \in Cycles, session'[p] # None
               PROVE  /\ session'[p].asks => session'[p].rows = {} /\ ~session'[p].refused
                      /\ session'[p].refused => session'[p].rows = {}
                      /\ session'[p].created # None => session'[p].rows # {}
                      /\ session'[p].rows # {} =>
                           \A a \in Articles : LongOut(a, session[p].age)' => Known(p, a)'
                      /\ ~session'[p].asks /\ ~session'[p].refused =>
                           \A a \in Articles :
                             LongOut(a, Interval + MaxCycle + session[p].age)' => Known(p, a)'
    BY DEF SessionIsComplete
  <1> USE Constants
  <1>1. session'[p] \in Session
    BY DEF TypeOK
  <1>2. \A a \in Articles : NewsExists(a) => NewsExists(a)'
    BY <1>0, NewsIsKept
  <1>3. ASSUME UNCHANGED published \/ (\E b \in Articles : Publish(b)),
               NEW a \in Articles, NEW n \in Nat, LongOut(a, n)'
        PROVE  LongOut(a, n)
    BY <1>0, <1>3, LongBefore DEF LongOut
  <1>4. CASE /\ UNCHANGED published \/ (\E b \in Articles : Publish(b))
             /\ session'[p] = session[p]
    BY <1>0, <1>1, <1>2, <1>3, <1>4 DEF SessionIsComplete, Known, LongOut, Session
  <1>5. CASE Begin(p)
    <2>1. /\ session'[p].age = 0 /\ session'[p].rows = {} /\ ~session'[p].refused
          /\ session'[p].created = None
          /\ ~session'[p].asks => quiet <= Interval
          /\ UNCHANGED published
      BY <1>0, <1>5 DEF Begin, TypeOK, FreshEnough
    <2>2. ASSUME quiet <= Interval, NEW a \in Articles, LongOut(a, Interval + MaxCycle)'
          PROVE  NewsExists(a)
      BY <1>0, <2>1, <2>2 DEF FreshIsComplete, LongOut, OutOfFeed, TypeOK, Age
    <2> QED
      BY <1>2, <2>1, <2>2 DEF Known
  <1>6. CASE Answered(p)
    <2>1. PICK feed \in Feeds, s \in Session :
            /\ session' = [session EXCEPT ![p] = s]
            /\ s.rows = Stored(p, feed) /\ ~s.asks /\ s.refused = session[p].refused
            /\ s.created = session[p].created
      BY <1>0, <1>6, AnswerGiven
    <2>2. UNCHANGED <<published, news>> /\ session'[p] = s
      BY <1>0, <1>6, <2>1, AnswerGiven DEF TypeOK
    <2>3. ~s.refused /\ s.created = None
      BY <1>0, <1>6, <2>1 DEF SessionIsComplete, Answered
    <2>4. ASSUME NEW a \in Articles, published[a] # None, ~OutOfFeed(a) PROVE Known(p, a)'
      BY <1>0, <2>1, <2>2, <2>4, FeedMisses, StoredFacts DEF Known, NewsExists
    <2>5. ASSUME NEW a \in Articles, NEW n \in Nat, LongOut(a, n)' PROVE Known(p, a)'
      BY <1>3, <2>2, <2>4, <2>5 DEF LongOut
    <2> QED
      BY <1>1, <2>1, <2>2, <2>3, <2>5 DEF Session
  <1>7. CASE Refused(p) \/ \E symbol \in Symbols : Enter(p, symbol) \/ NoEntry(p, symbol)
    <2>1. PICK s \in Session :
            /\ session' = [session EXCEPT ![p] = s]
            /\ s.rows = session[p].rows /\ s.age = session[p].age /\ ~s.asks
            /\ s.refused = (session[p].refused \/ Refused(p))
            /\ s.rows = {} => s.created = session[p].created
      BY <1>0, <1>7, KeepsRows
    <2>2. /\ UNCHANGED <<published, news>> /\ session'[p] = s
          /\ session[p] # None /\ session[p] \in Session
      BY <1>0, <1>7, <2>1, KeepsRows DEF TypeOK
    <2>3. \A a \in Articles : Known(p, a) => Known(p, a)'
      BY <1>2, <2>1, <2>2 DEF Known
    <2>4. Refused(p) => session[p].rows = {}
      BY <1>0 DEF Refused, SessionIsComplete
    <2>5. ~Refused(p) => ~session[p].asks
      BY <1>0, <1>7, Reached
    <2> QED
      BY <1>0, <1>3, <2>1, <2>2, <2>3, <2>4, <2>5 DEF SessionIsComplete, Session
  <1>8. CASE Tick
    <2>1. session[p] # None /\ session[p] \in Session /\ session[p].age < MaxCycle
      BY <1>0, <1>8 DEF Tick, Aged, TypeOK
    <2>2. /\ session'[p].asks = session[p].asks /\ session'[p].refused = session[p].refused
          /\ session'[p].age = session[p].age + 1
          /\ session'[p].rows = AgedRows(session[p].rows)
          /\ session'[p].created # None => session[p].created # None
      BY <1>8, <2>1, AgedFields DEF Tick
    <2>3. session[p].rows \in SUBSET NewsItem /\ session[p].age \in Nat
      BY <2>1 DEF Session
    <2>4. \A a \in Articles : Known(p, a) => Known(p, a)'
      BY <1>2, <2>2, <2>3, AgedRowsFacts DEF Known
    <2>5. session[p].rows = {} <=> session'[p].rows = {}
      BY <2>2, <2>3, AgedRowsFacts
    <2>6. ASSUME NEW a \in Articles, NEW n \in Nat, LongOut(a, n + 1)' PROVE LongOut(a, n)
      <3>1. published[a] # None /\ published'[a] <= published[a] + 1 /\ ~OutOfFeed(a)
        BY <1>0, <1>8, <2>6, LongBefore DEF LongOut
      <3>2. published[a] \in Nat /\ published'[a] \in Nat
        BY <1>0, <2>6, <3>1 DEF TypeOK, Age, LongOut
      <3> QED
        BY <2>6, <3>1, <3>2 DEF LongOut
    <2> QED
      BY <1>0, <2>1, <2>2, <2>3, <2>4, <2>5, <2>6 DEF SessionIsComplete
  <1> QED
    <2>1. CASE \E q \in Cycles : Commit(q) \/ Rollback(q)
      BY <1>0, <1>4, <2>1 DEF Commit, Rollback, TypeOK
    <2>2. CASE \E q \in Cycles \ {p} : Begin(q)
      BY <1>0, <1>4, <2>2 DEF Begin, TypeOK
    <2>3. CASE \E q \in Cycles \ {p} : Answered(q)
      BY <1>0, <1>4, <2>3, AnswerGiven DEF TypeOK
    <2>4. CASE \E q \in Cycles \ {p} :
                 Refused(q) \/ \E symbol \in Symbols : Enter(q, symbol) \/ NoEntry(q, symbol)
      BY <1>0, <1>4, <2>4, KeepsRows DEF TypeOK
    <2>5. CASE \E a \in Articles : Publish(a)
      BY <1>4, <2>5 DEF Publish
    <2>6. CASE UNCHANGED vars \/ OutageChanges
      BY <1>4, <2>6 DEF vars, OutageChanges
    <2> QED
      BY <1>5, <1>6, <1>7, <1>8, <2>1, <2>2, <2>3, <2>4, <2>5, <2>6 DEF Next, Step

\* A commit that makes the store fresh brings what was out when its cycle began.
LEMMA FreshStep == ASSUME IInv, TypeOK', [Next]_vars PROVE FreshIsComplete'
  <1>0. TypeOK /\ FreshIsComplete /\ SessionIsComplete
    BY DEF IInv
  <1> USE Constants
  <1> SUFFICES ASSUME quiet' <= Interval, NEW a \in Articles, LongOut(a, quiet + MaxCycle)'
               PROVE  NewsExists(a)'
    BY DEF FreshIsComplete
  <1>1. NewsExists(a) => NewsExists(a)'
    BY <1>0, NewsIsKept
  <1>2. quiet \in Nat /\ quiet' \in Nat
    BY <1>0 DEF TypeOK
  <1>3. CASE Tick
    <2>1. published[a] # None /\ published'[a] <= published[a] + 1 /\ ~OutOfFeed(a)
      BY <1>0, <1>3, LongBefore DEF LongOut
    <2>2. published[a] \in Nat /\ published'[a] \in Nat
      BY <1>0, <2>1 DEF TypeOK, Age, LongOut
    <2>3. quiet' = quiet + 1 /\ quiet <= Interval
      BY <1>0, <1>2, <1>3 DEF Tick, Older, TypeOK
    <2> QED
      BY <1>0, <1>1, <1>2, <2>1, <2>2, <2>3 DEF LongOut, FreshIsComplete
  <1>4. ASSUME NEW p \in Cycles, Commit(p) PROVE NewsExists(a)'
    <2>1. published' = published /\ session[p] # None /\ session[p] \in Session /\ ~session[p].asks
      BY <1>0, <1>4 DEF Commit, TypeOK
    <2>2. published[a] # None /\ published[a] > quiet' + MaxCycle /\ ~OutOfFeed(a)
      BY <2>1 DEF LongOut, OutOfFeed
    <2>3. published[a] \in Nat /\ session[p].age \in 0..MaxCycle
      BY <1>0, <2>1, <2>2 DEF TypeOK, Age, Session
    <2>4. CASE quiet' = quiet
      BY <1>0, <1>1, <2>2, <2>4 DEF FreshIsComplete, LongOut
    <2>5. CASE quiet' # quiet
      <3>1. session[p].created # None
        BY <1>4, <2>5 DEF Commit
      <3>2. LongOut(a, session[p].age)
        BY <1>2, <2>2, <2>3 DEF LongOut
      <3>3. session[p].rows # {} => Known(p, a)
        BY <1>0, <2>1, <3>2 DEF SessionIsComplete
      <3>4. session[p].rows # {}
        BY <1>0, <2>1, <3>1 DEF SessionIsComplete
      <3> QED
        BY <1>4, <3>3, <3>4 DEF Commit, Known, NewsExists
    <2> QED
      BY <2>4, <2>5
  <1>5. CASE quiet' = quiet /\ (UNCHANGED published \/ (\E b \in Articles : Publish(b)))
    BY <1>0, <1>1, <1>2, <1>5, LongBefore DEF FreshIsComplete, LongOut
  <1> QED
    BY <1>3, <1>4, <1>5 DEF Next, vars, Publish, Begin, Step, Rollback, OutageChanges, Answered, Refused, Enter, NoEntry

\* What is stored when the newest row is fresh, and what a cycle knows once it was
\* answered or needed no answer: ingest_if_due and _store_alpha_vantage_feed.
THEOREM InductiveInvariant == Spec => []IInv
  <1>1. IInv /\ [Next]_vars => IInv'
    <2>1. ASSUME IInv, [Next]_vars PROVE IInv'
      BY <2>1, TypeStep, OnceStep, YoungerStep, SessionStep, FreshStep DEF IInv
    <2> QED
      BY <2>1
  <1> QED
    BY InitHolds, <1>1, PTL DEF Spec

\* Every variable keeps its type, and no cycle stores an article twice.
THEOREM TypeCorrect == Spec => []TypeOK
  <1>1. IInv => TypeOK
    BY DEF IInv
  <1> QED
    BY InductiveInvariant, <1>1, PTL

-----------------------------------------------------------------------------
(***************************************************************************)
(* What assess sees.                                                       *)
(***************************************************************************)
\* There are finitely many rows.
LEMMA NewsItemsAreFinite == IsFiniteSet(NewsItem)
  <1>1. IsFiniteSet(Age)
    BY Constants, FS_Interval DEF Age
  <1>2. IsFiniteSet(Articles \X (Cycles \X Age))
    BY <1>1, NewsAssumption, FS_Product
  <1> DEFINE f == [t \in Articles \X (Cycles \X Age) |->
                     [article |-> t[1], by |-> t[2][1], age |-> t[2][2]]]
  <1>3. \A t \in Articles \X (Cycles \X Age) : f[t] \in NewsItem
    BY DEF NewsItem
  <1>4. ASSUME NEW r \in NewsItem PROVE \E t \in Articles \X (Cycles \X Age) : f[t] = r
    <2>1. <<r.article, <<r.by, r.age>>>> \in Articles \X (Cycles \X Age)
      BY DEF NewsItem
    <2>2. f[<<r.article, <<r.by, r.age>>>>] = r
      BY <2>1 DEF NewsItem
    <2> QED
      BY <2>1, <2>2
  <1>5. f \in [Articles \X (Cycles \X Age) -> NewsItem]
    BY <1>3
  <1> HIDE DEF f
  <1>6. f \in Surjection(Articles \X (Cycles \X Age), NewsItem)
    BY <1>4, <1>5 DEF Surjection
  <1> QED
    BY <1>2, <1>6, FS_Surjection

\* The query of assess leaves a row of the window out only for rows that are not older.
LEMMA LeftOutForNewer ==
  ASSUME NEW rows \in SUBSET NewsItem, NEW S \in Newest(rows),
         NEW r \in rows, r.age <= Window, r \notin S
  PROVE  /\ S \in SUBSET rows /\ IsFiniteSet(S) /\ Cardinality(S) = Limit
         /\ \A q \in S : q.age <= r.age
  <1> DEFINE recent == {q \in rows : q.age <= Window}
  <1>1. IsFiniteSet(recent)
    BY NewsItemsAreFinite, FS_Subset
  <1>2. S \in SUBSET recent /\ S # recent /\ r \in recent
    BY DEF Newest
  <1>3. Cardinality(S) # Cardinality(recent) /\ IsFiniteSet(S)
    BY <1>1, <1>2, FS_Subset
  <1>4. Cardinality(S) = IF Cardinality(recent) < Limit THEN Cardinality(recent) ELSE Limit
    BY DEF Newest
  <1>5. \A q \in S : q.age <= r.age
    BY <1>2 DEF Newest
  <1> QED
    BY <1>2, <1>3, <1>4, <1>5

\* A known article of the window is among what a session sees, not older than it is.
LEMMA KnownIsVisible ==
  ASSUME IInv, NEW p \in Cycles, NEW symbol \in Symbols, session[p] # None,
         NEW a \in Articles, Known(p, a)
  PROVE  LET rows == Visible(Reach(session[p], symbol))
         IN /\ rows \in SUBSET NewsItem
            /\ published[a] # None
            /\ \E r \in rows : r.article = a /\ r.age <= published[a]
  <1>1. session[p] \in Session
    BY DEF IInv, TypeOK
  <1> DEFINE s == Reach(session[p], symbol)
  <1>2. s.rows = session[p].rows /\ (session[p].rows # {} => s.created # None)
    BY <1>1, ReachFields
  <1> HIDE DEF s
  <1>3. Visible(s) = news \cup session[p].rows
    BY <1>2 DEF Visible
  <1>4. Visible(s) \in SUBSET NewsItem
    BY <1>1, <1>3 DEF IInv, TypeOK, Session
  <1>5. PICK r \in Visible(s) : r.article = a
    BY <1>3 DEF Known, NewsExists
  <1>6. published[a] # None /\ r.age <= published[a]
    BY <1>3, <1>5 DEF IInv, RowsAreYounger, YoungerThanArticle
  <1> QED
    BY <1>4, <1>5, <1>6 DEF s

\* What news speaks against a symbol, once the interval and two cycles have passed,
\* keeps the symbol from being entered.
LEMMA OldNewsBlocks ==
  ASSUME IInv, NEW p \in Cycles, NEW symbol \in Symbols, NEW a \in Articles,
         Enter(p, symbol), ~session[p].refused,
         published[a] # None, published[a] \in Slack + 1..Window,
         HeadlineBlocks(a, MarketOf[symbol], symbol)
  PROVE  OutOfFeed(a) \/ OutOfSight(session'[p], a)
  <1> USE Constants
  <1> DEFINE s == Reach(session[p], symbol)
             rows == Visible(s)
  <1>1. /\ session[p] \in Session /\ session[p] # None /\ ~session[p].asks
        /\ session'[p] = s
    BY Reached DEF IInv, TypeOK
  <1>2. MayPass(rows, symbol)
    BY DEF Enter
  <1>3. SUFFICES ASSUME ~OutOfFeed(a) PROVE OutOfSight(session'[p], a)
    OBVIOUS
  <1>4. Known(p, a)
    <2>1. session[p].age \in 0..MaxCycle
      BY <1>1 DEF Session
    <2>2. LongOut(a, Interval + MaxCycle + session[p].age)
      BY <1>3, <2>1 DEF LongOut, Slack
    <2> QED
      BY <1>1, <2>2 DEF IInv, SessionIsComplete
  <1>5. rows \in SUBSET NewsItem /\ \E r \in rows : r.article = a /\ r.age <= published[a]
    BY <1>1, <1>4, KnownIsVisible
  <1>6. OutOfSight(s, a) <=> Cardinality({q \in rows : q.article # a /\ q.age <= published[a]}) >= Limit
    BY DEF OutOfSight
  <1> HIDE DEF s, rows
  <1>7. PICK r \in rows : r.article = a /\ r.age <= published[a]
    BY <1>5
  <1>8. PICK S \in Newest(rows) : \A q \in S : ~HeadlineBlocks(q.article, MarketOf[symbol], symbol)
    BY <1>2 DEF MayPass
  <1>9. \A q \in S : q.article # a
    BY <1>8
  <1>10. r.age \in Nat /\ r.age <= Window
    BY <1>5, <1>7 DEF NewsItem, Age
  <1>11. /\ S \in SUBSET rows /\ IsFiniteSet(S) /\ Cardinality(S) = Limit
         /\ \A q \in S : q.age <= r.age
    BY <1>5, <1>7, <1>8, <1>9, <1>10, LeftOutForNewer
  <1> DEFINE others == {q \in rows : q.article # a /\ q.age <= published[a]}
  <1>12. S \in SUBSET others
    <2>1. \A q \in S : q.age \in Nat
      BY <1>5, <1>11 DEF NewsItem, Age
    <2> QED
      BY <1>7, <1>9, <1>10, <1>11, <2>1
  <1>13. IsFiniteSet(others)
    BY <1>5, NewsItemsAreFinite, FS_Subset
  <1>14. Cardinality(others) \in Nat /\ Cardinality(S) <= Cardinality(others)
    BY <1>12, <1>13, FS_Subset, FS_CardinalityType
  <1>15. Cardinality(others) >= Limit
    BY <1>11, <1>14
  <1> QED
    BY <1>1, <1>6, <1>15

\* An article that speaks against a symbol keeps it from being entered, whichever
\* cycles overlap, fail or rely on rows another one stored: _headline_applies,
\* ingest_if_due and assess together.
THEOREM OldBadNewsIsSeen == Spec => NoEntryOnOldBadNews
  <1> DEFINE Blocked ==
        \A p \in Cycles, symbol \in Symbols, a \in Articles :
          /\ Enter(p, symbol)
          /\ ~session[p].refused
          /\ published[a] # None /\ published[a] \in Slack + 1..Window
          /\ HeadlineBlocks(a, MarketOf[symbol], symbol)
          => OutOfFeed(a) \/ OutOfSight(session'[p], a)
  <1>1. IInv => Blocked
    BY OldNewsBlocks
  <1>2. IInv => [Blocked]_vars
    BY <1>1
  <1>3. Spec => [][Blocked]_vars
    <2> HIDE DEF Blocked
    <2> QED
      BY InductiveInvariant, <1>2, PTL
  <1> QED
    BY <1>3 DEF NoEntryOnOldBadNews
=============================================================================

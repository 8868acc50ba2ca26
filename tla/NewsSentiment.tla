---------------------------- MODULE NewsSentiment ----------------------------
(***************************************************************************)
(* NewsSentimentService inside the shadow cycles: every cycle refreshes    *)
(* the stored news when the newest row is old enough, and asks it before   *)
(* each entry.  The loop's cycle and one of POST /shadow/run-cycle may run *)
(* at the same time; each works in one transaction, whose session does not *)
(* flush by itself (app/db/session.py:13).                                 *)
(*                                                                         *)
(* Times are kept as ages, in ticks, up to the age that tells nothing      *)
(* apart any more, so that the clock needs no end.                         *)
(***************************************************************************)
EXTENDS Integers, FiniteSets

CONSTANTS
  Cycles,         \* processes that run cycles
  Loop,           \* the one of them that begins again for ever
  Articles,       \* headlines the provider comes to publish, each once
  About,          \* About[a]: what the service reads in an article
  Symbols,        \* the watchlist
  MarketOf,       \* MarketOf[t]: INDIA for a ticker with a dot, US for the others
  GoldSensitive,  \* gold_sensitive_symbols
  Interval,       \* news_ingestion_min_interval_seconds
  Window,         \* news_sentiment_risk_window_hours
  FeedSize,       \* articles in one answer of the provider, 50
  Limit,          \* rows assess looks at, 100
  MaxCycle,       \* bound of this model: the ticks a cycle lasts
  None

VARIABLES
  published,  \* published[a]: the age of an article, None before it is published
  news,       \* the committed news rows
  quiet,      \* the age of the newest created_at among them
  session,    \* session[p]: the open session of a cycle, or None
  broken      \* whether cycles may break off now, as when a connection is down

vars == <<published, news, quiet, session, broken>>

-----------------------------------------------------------------------------
\* Ages up to one past the window, and one past the interval.
Age == 0..Window + 1
Older(age, most) == IF age <= most THEN age + 1 ELSE age

\* ticker: of the first ticker_sentiment; negative: the score is at or below the
\* threshold; alarming: a market_negative_keyword; names: the symbols that occur in
\* the headline; dated: time_published can be parsed.
Article == [ticker: DOMAIN MarketOf \cup {None}, negative: BOOLEAN, alarming: BOOLEAN,
            gold: BOOLEAN, names: SUBSET Symbols, dated: BOOLEAN]

\* age is that of published_at.
NewsItem == [article: Articles, by: Cycles, age: Age]

ASSUME NewsAssumption ==
  /\ Loop \in Cycles
  /\ About \in [Articles -> Article]
  /\ Symbols \subseteq DOMAIN MarketOf /\ GoldSensitive \subseteq Symbols
  /\ \A t \in DOMAIN MarketOf : MarketOf[t] \in {"INDIA", "US"}
  /\ {FeedSize, Limit, Interval, Window} \subseteq Nat \ {0}
  /\ MaxCycle \in Nat
  /\ IsFiniteSet(Articles) /\ IsFiniteSet(Cycles)
  /\ None \notin Nat /\ None \notin DOMAIN MarketOf

-----------------------------------------------------------------------------
(***************************************************************************)
(* The verdict on an entry.                                                *)
(***************************************************************************)
\* _infer_market
InferMarket(ticker) == IF ticker = None THEN None ELSE MarketOf[ticker]

\* _headline_applies
HeadlineApplies(a, market, symbol) ==
  LET ticker == About[a].ticker
  IN IF ticker # None /\ symbol # None THEN ticker = symbol
     ELSE InferMarket(ticker) \in {market, None}

\* _score_based_risk and _keyword_based_risk: a row of this article makes it
\* BLOCK_NEW_ENTRIES.  A headline that names the symbol does so whatever it says.
HeadlineBlocks(a, market, symbol) ==
  \/ (About[a].negative \/ About[a].alarming) /\ HeadlineApplies(a, market, symbol)
  \/ symbol \in About[a].names
  \/ About[a].gold /\ symbol \in GoldSensitive

\* The rows a session sees: those committed, and its own once it has flushed.
Visible(s) == news \cup (IF s.created = None THEN {} ELSE s.rows)

\* The rows of the window that the query of assess returns: the newest ones, and
\* among rows of one age any.
Newest(rows) ==
  LET recent == {r \in rows : r.age <= Window}
      n == IF Cardinality(recent) < Limit THEN Cardinality(recent) ELSE Limit
  IN {S \in SUBSET recent :
        /\ Cardinality(S) = n
        /\ \A r \in S, q \in recent \ S : r.age <= q.age}

\* assess: whether it may let the symbol in.  Without any row it answers CAUTION,
\* which does not block.
MayPass(rows, symbol) ==
  \E S \in Newest(rows) : \A r \in S : ~HeadlineBlocks(r.article, MarketOf[symbol], symbol)

-----------------------------------------------------------------------------
(***************************************************************************)
(* The provider, and a cycle.                                              *)
(***************************************************************************)
Init ==
  /\ published = [a \in Articles |-> None]
  /\ news = {}
  /\ quiet = Interval + 1
  /\ session = [p \in Cycles |-> None]
  /\ broken = FALSE

Publish(a) ==
  /\ published[a] = None
  /\ published' = [published EXCEPT ![a] = 0]
  /\ UNCHANGED <<news, quiet, session, broken>>

\* What the provider answers: the newest articles, and among articles of one age any.
Feeds ==
  LET out == {a \in Articles : published[a] # None}
      n == IF Cardinality(out) < FeedSize THEN Cardinality(out) ELSE FeedSize
  IN {F \in SUBSET out : /\ Cardinality(F) = n
                         /\ \A a \in F, b \in out \ F : published[a] <= published[b]}

\* Mutant: any row is new enough.
AnyRow == quiet <= Interval \/ news # {}

\* The newest row was created within the interval.
FreshEnough == quiet <= Interval

\* run_cycle up to the request: ingest_if_due returns, or asks the provider.
Begin(p) ==
  /\ session[p] = None
  /\ session' = [session EXCEPT ![p] =
       [asks |-> ~FreshEnough, refused |-> FALSE, rows |-> {}, created |-> None,
        todo |-> Symbols, age |-> 0]]
  /\ UNCHANGED <<published, news, quiet, broken>>

\* Mutant: only the rows of the window count as stored.
NewsExistsInWindow(a) == \E r \in news : r.article = a /\ r.age <= Window

\* _news_exists: it finds committed rows only, the session has not flushed its own.
NewsExists(a) == \E r \in news : r.article = a

\* Mutant: an article whose time cannot be parsed is skipped.
StoredIfDated(p, feed) ==
  {[article |-> a, by |-> p, age |-> published[a]] : a \in {a \in feed : About[a].dated /\ ~NewsExists(a)}}

\* _store_alpha_vantage_feed; a time that cannot be parsed becomes the present.
Stored(p, feed) ==
  {[article |-> a, by |-> p, age |-> IF About[a].dated THEN published[a] ELSE 0] :
     a \in {a \in feed : ~NewsExists(a)}}

Answered(p) ==
  /\ session[p] # None /\ session[p].asks
  /\ \E feed \in Feeds :
       session' = [session EXCEPT ![p].asks = FALSE, ![p].rows = Stored(p, feed)]
  /\ UNCHANGED <<published, news, quiet, broken>>

\* Mutant: the error of the provider is not caught.
RefusedAndRaised(p) ==
  /\ session[p] # None /\ session[p].asks
  /\ session' = [session EXCEPT ![p] = None]
  /\ UNCHANGED <<published, news, quiet, broken>>

\* A FailClosedError of the provider is caught, and the cycle goes on without news.
Refused(p) ==
  /\ session[p] # None /\ session[p].asks
  /\ session' = [session EXCEPT ![p].asks = FALSE, ![p].refused = TRUE]
  /\ UNCHANGED <<published, news, quiet, broken>>

\* The cycle reaches a symbol: its signal is flushed, with the rows of the feed.
Reach(s, symbol) ==
  [s EXCEPT !.todo = @ \ {symbol},
            !.created = IF @ = None /\ s.rows # {} THEN 0 ELSE @]

Reaches(p, symbol) ==
  session[p] # None /\ ~session[p].asks /\ symbol \in session[p].todo

\* The strategy says BUY, and the news does not block the entry.
Enter(p, symbol) ==
  LET s == Reach(session[p], symbol)
  IN /\ Reaches(p, symbol)
     /\ MayPass(Visible(s), symbol)
     /\ session' = [session EXCEPT ![p] = s]
     /\ UNCHANGED <<published, news, quiet, broken>>

\* It does not, or the news blocks it, or a row of the symbol is open and is marked.
NoEntry(p, symbol) ==
  /\ Reaches(p, symbol)
  /\ session' = [session EXCEPT ![p] = Reach(@, symbol)]
  /\ UNCHANGED <<published, news, quiet, broken>>

\* The exits of a cycle and its news are committed together.
Commit(p) ==
  LET s == session[p]
  IN /\ s # None /\ ~s.asks /\ s.todo = {}
     /\ news' = news \cup s.rows
     /\ quiet' = IF s.created # None /\ s.created < quiet THEN s.created ELSE quiet
     /\ session' = [session EXCEPT ![p] = None]
     /\ UNCHANGED <<published, broken>>

\* Any other exception rolls the whole cycle back, for as long as it lasts: a broken
\* connection to the provider, whose httpx error is not a TradingAlphaError, or to the
\* source of the quotes, an error of a symbol, or the end of the process.  Nothing is
\* kept of the attempt.
Rollback(p) ==
  /\ session[p] # None
  /\ broken
  /\ session' = [session EXCEPT ![p] = None]
  /\ UNCHANGED <<published, news, quiet, broken>>

\* An outage begins or ends.
OutageChanges ==
  /\ broken' = ~broken
  /\ UNCHANGED <<published, news, quiet, session>>

AgedRows(rows) == {[r EXCEPT !.age = Older(@, Window)] : r \in rows}

Aged(s) ==
  IF s = None THEN None
  ELSE [s EXCEPT !.age = @ + 1,
                 !.rows = AgedRows(@),
                 !.created = IF @ = None THEN None ELSE Older(@, Interval)]

Tick ==
  /\ \A p \in Cycles : session[p] # None => session[p].age < MaxCycle
  /\ published' = [a \in Articles |-> IF published[a] = None THEN None
                                      ELSE Older(published[a], Window)]
  /\ news' = AgedRows(news)
  /\ quiet' = Older(quiet, Interval)
  /\ session' = [p \in Cycles |-> Aged(session[p])]
  /\ UNCHANGED broken

\* What a cycle does by itself.
Step(p) ==
  \/ Answered(p) \/ Refused(p) \/ Commit(p)
  \/ \E symbol \in Symbols : Enter(p, symbol) \/ NoEntry(p, symbol)

Next ==
  \/ \E a \in Articles : Publish(a)
  \/ \E p \in Cycles : Begin(p) \/ Step(p) \/ Rollback(p)
  \/ OutageChanges
  \/ Tick

\* The clock goes on; the loop sleeps and begins again, whatever a cycle raised; a
\* cycle that has begun goes on, the requests it makes have timeouts.  No outage has
\* to end.
Fairness ==
  /\ WF_vars(Tick)
  /\ WF_vars(Begin(Loop))
  /\ \A p \in Cycles : WF_vars(Step(p))

Spec == Init /\ [][Next]_vars /\ Fairness

-----------------------------------------------------------------------------
(***************************************************************************)
(* What makes it correct.                                                  *)
(***************************************************************************)
\* Every variable stays in its type; no cycle stores an article twice.
Session ==
  [asks: BOOLEAN, refused: BOOLEAN, rows: SUBSET NewsItem, created: 0..Interval + 1 \cup {None},
   todo: SUBSET Symbols, age: 0..MaxCycle]

TypeOK ==
  /\ published \in [Articles -> Age \cup {None}]
  /\ news \subseteq NewsItem
  /\ quiet \in 0..Interval + 1
  /\ session \in [Cycles -> Session \cup {None}]
  /\ broken \in BOOLEAN
  /\ \A r, q \in news : r.article = q.article /\ r.by = q.by => r = q

\* An article that newer ones, or ones of its age, push out of the answers of the
\* provider; and one that rows push out of what assess looks at.
OutOfFeed(a) ==
  /\ published[a] # None
  /\ Cardinality({b \in Articles \ {a} : published[b] # None /\ published[b] <= published[a]}) >= FeedSize

OutOfSight(s, a) ==
  Cardinality({r \in Visible(s) : r.article # a /\ r.age <= published[a]}) >= Limit

\* An article that speaks against a symbol keeps it from being entered from the time
\* that the interval and two cycles have passed until its window ends, unless newer
\* articles push it out or the provider refused this very cycle: whichever cycles
\* overlapped, failed or relied on rows another one stored.
Slack == Interval + 2 * MaxCycle

NoEntryOnOldBadNews ==
  [][\A p \in Cycles, symbol \in Symbols, a \in Articles :
       /\ Enter(p, symbol)
       /\ ~session[p].refused
       /\ published[a] # None /\ published[a] \in Slack + 1..Window
       /\ HeadlineBlocks(a, MarketOf[symbol], symbol)
       => OutOfFeed(a) \/ OutOfSight(session'[p], a)]_vars

\* A provider that refuses every request for ever holds no exit up: cycles keep being
\* committed unless they break off for ever ("News can block or slow new entries",
\* news_sentiment_service.py:47).  While a connection is broken none is committed, and
\* no exit made, because only a TradingAlphaError is caught (line 134); once it is
\* back they are again.
CyclesComplete == <>[]~broken => []<><<\E p \in Cycles : Commit(p)>>_vars

\* If outages end and the loop gets an answer again and again, every article is stored,
\* unless newer ones push it out of the answers: neither the interval nor the
\* deduplication nor a cycle that broke off loses it for good.
NewsIsLearned ==
  <>[]~broken /\ []<><<Answered(Loop)>>_vars =>
    \A a \in Articles : (published[a] # None) ~> (NewsExists(a) \/ OutOfFeed(a))
=============================================================================

--------------------------- MODULE AdvisorSignals ---------------------------
(***************************************************************************)
(* What a daily brief says: the collectors ask the orders, the shelves,    *)
(* the unanswered questions, the calendar and the weather, each query at   *)
(* its own moment while customers and the owner carry on; the signals are  *)
(* ranked, put into words and written.                                     *)
(*                                                                         *)
(* A sale has the age, in days, it has when the brief is written.  Skus,   *)
(* articles and themes are numbers, in the order of their ids.             *)
(***************************************************************************)
EXTENDS Integers, Sequences, SequencesExt, FiniteSetsExt, Functions

CONSTANTS
    Sku, Article, ArticleOf, PriceOf,
    WordyArticle,    \* the articles whose title and option make a long line
    Theme, WordyTheme, \* what shoppers ask for in vain, and what no key can hold
    RecentDays,      \* VELOCITY_RECENT_DAYS
    BaselineDays,    \* VELOCITY_BASELINE_DAYS
    CoverageDays,    \* RESTOCK_COVERAGE_DAYS
    LeadDays,        \* the settings' leadTimeDays
    OverTarget,      \* units whose whole target comes out above itself in doubles
    UnderCover,      \* units whose cover of just the horizon comes out below it
    SlowDays,        \* SLOW_MOVER_DAYS
    MinUnits,        \* TRENDING_MIN_UNITS
    MinRatio,        \* TRENDING_RATIO
    MinTiedUp,       \* SLOW_MOVER_MIN_VALUE
    MinAsked,        \* DEMAND_GAP_MIN_OCCURRENCES
    Places,          \* MAX_INSIGHTS_PER_BRIEF
    Opening,         \* the sales and the stock there may be at first
    Occurs,          \* the days each event of the calendar starts on
    LookaheadDays,   \* CALENDAR_LOOKAHEAD_DAYS
    YearDays,        \* days of a year
    Summer,          \* the hours in which the store's clock is one ahead
    Clock,           \* the hours at which a brief may be written
    Forecasts,       \* what the weather of the next days may be
    MaxDisturbances  \* bounds what others do meanwhile

ASSUME WindowsAreDays == {RecentDays, BaselineDays, LookaheadDays, YearDays} \subseteq Nat \ {0}
ASSUME ClockIsHours == Clock \subseteq Nat
ASSUME SlowIsOld == SlowDays \in Nat /\ SlowDays > RecentDays
ASSUME RatesAreNumbers == MinUnits \in Nat \ {0} /\ {LeadDays, CoverageDays} \subseteq Nat

SaleLine ==
    [sku : Sku, units : Nat, age : Nat,
     status : {"pending", "confirmed", "shipped", "delivered", "cancelled"}]

ASSUME ShopIsReal ==
    /\ ArticleOf \in [Sku -> Article]
    /\ \A o \in Opening : o.sale \in Seq(SaleLine) /\ o.stock \in [Sku -> Nat]

VARIABLES
    sale,        \* the lines of the orders
    stock,       \* stockQuantity of each variant
    listed,      \* the articles that are active
    answer,      \* what each query of the run answered
    page,        \* the brief: its lines, who worded them, and the hour
    moved,       \* history: articles whose orders changed during the run
    disturbances

signalVars == <<sale, stock, listed, answer, page, moved, disturbances>>

NoPage == [lines |-> <<>>, words |-> <<>>, status |-> "none", hour |-> 0]
Unasked == [got |-> "nothing"]
Failed == [got |-> "failure"]
AnsweredWith(result) == [got |-> "answer", is |-> result]
SalesQueries == {"levels", "units", "recent", "baseline", "lastSold", "stock"}
OtherQueries == {"themes", "weather"}
Queries == SalesQueries \cup OtherQueries

InitSignals ==
    /\ \E o \in Opening : sale = o.sale /\ stock = o.stock
    /\ listed = Article
    /\ answer = [q \in Queries |-> Unasked]
    /\ page = NoPage
    /\ moved = {}
    /\ disturbances = 0

-----------------------------------------------------------------------------
\* OrderAnalyticsService and listStockLevels.

\* Mutant of IsSale: a cancelled order is still demand.
EverythingSells(l) == TRUE

\* The predicate of buildSalesQuery.
IsSale(l) == l.status # "cancelled"

Within(l, since, until) == l.age <= since /\ l.age > until

SoldLines(since, until) == {i \in DOMAIN sale : IsSale(sale[i]) /\ Within(sale[i], since, until)}
UnitsIn(lines) == SumFunctionOnSet([i \in lines |-> sale[i].units], lines)
RevenueIn(lines) == SumFunctionOnSet([i \in lines |-> sale[i].units * PriceOf[sale[i].sku]], lines)
NowOn == -1

SumSalesByVariant ==
    [s \in Sku |-> UnitsIn({i \in SoldLines(RecentDays, NowOn) : sale[i].sku = s})]

SumSalesByProduct(since, until) ==
    [a \in Article |->
       LET lines == {i \in SoldLines(since, until) : ArticleOf[sale[i].sku] = a}
       IN  [units |-> UnitsIn(lines), revenue |-> RevenueIn(lines)]]

\* findLastSoldAtByProduct, as the ages of all sales there ever were.
LastSold ==
    [a \in Article |->
       {sale[i].age : i \in {j \in DOMAIN sale : sale[j].status # "cancelled" /\ ArticleOf[sale[j].sku] = a}}]

ListStockLevels == [s \in {t \in Sku : ArticleOf[t] \in listed} |-> stock[s]]

-----------------------------------------------------------------------------
\* What others do meanwhile.

Disturb == page = NoPage /\ disturbances < MaxDisturbances /\ disturbances' = disturbances + 1
Reading == \E q \in Queries : answer[q] # Unasked
Touches(a) == moved' = IF Reading THEN moved \cup {a} ELSE moved

CustomerOrders ==
    \E s \in Sku :
        /\ Disturb
        /\ ArticleOf[s] \in listed
        /\ stock[s] > 0
        /\ stock' = [stock EXCEPT ![s] = @ - 1]
        /\ sale' = Append(sale, [sku |-> s, units |-> 1, age |-> 0, status |-> "pending"])
        /\ Touches(ArticleOf[s])
        /\ UNCHANGED <<listed, answer, page>>

OrderIsCancelled ==
    \E i \in DOMAIN sale :
        /\ Disturb
        /\ sale[i].status = "pending"
        /\ sale' = [sale EXCEPT ![i].status = "cancelled"]
        /\ stock' = [stock EXCEPT ![sale[i].sku] = @ + sale[i].units]
        /\ Touches(ArticleOf[sale[i].sku])
        /\ UNCHANGED <<listed, answer, page>>

OwnerListsOrArchives ==
    \E a \in Article :
        /\ Disturb
        /\ listed' = IF a \in listed THEN listed \ {a} ELSE listed \cup {a}
        /\ UNCHANGED <<sale, stock, answer, page, moved>>

-----------------------------------------------------------------------------
\* The collectors' queries, sent together and answered in any order.  Nothing
\* that is done meanwhile bears on the last two.

ResultOf(q) ==
    CASE q = "levels" -> {ListStockLevels}
      [] q = "stock" -> {ListStockLevels}
      [] q = "units" -> {SumSalesByVariant}
      [] q = "recent" -> {SumSalesByProduct(RecentDays, NowOn)}
      [] q = "baseline" -> {SumSalesByProduct(RecentDays + BaselineDays, RecentDays)}
      [] q = "lastSold" -> {LastSold}
      [] q = "themes" -> {[t \in Theme |-> IF t = asked THEN MinAsked ELSE MinAsked - 1] : asked \in Theme}
      [] q = "weather" -> Forecasts

Pending(q) ==
    /\ answer[q] = Unasked
    /\ q \in OtherQueries => \A r \in SalesQueries : answer[r] # Unasked
    /\ q = "weather" => answer["themes"] # Unasked

AskFor(q) ==
    /\ Pending(q)
    /\ \E r \in ResultOf(q) : answer' = [answer EXCEPT ![q] = AnsweredWith(r)]
    /\ UNCHANGED <<sale, stock, listed, page, moved, disturbances>>

\* The weather is not to be had, or a query fails: its collector throws.
AskInVain(q) ==
    /\ Disturb
    /\ Pending(q)
    /\ answer' = [answer EXCEPT ![q] = Failed]
    /\ UNCHANGED <<sale, stock, listed, page, moved>>

Allowed(queries) == \A q \in queries : answer[q].got = "answer"
Told(q) == answer[q].is

-----------------------------------------------------------------------------
\* The signals.

Signal(kind, about, impact, within) ==
    [kind |-> kind, about |-> about, impact |-> impact, within |-> within]

RoundUp(n, d) == -((-n) \div d)
Rounded(n, d) == (2 * n + d) \div (2 * d)
AtLeastZero(n) == IF n < 0 THEN 0 ELSE n

\* recommendRestock: units are those of RecentDays.  Velocity, target and cover
\* are doubles, whose error matters only where the exact result is whole: there
\* the target is rounded up once more, or the cover compares as too short.
HorizonDays == LeadDays + CoverageDays
LastsTheHorizon(quantity, units) == quantity * RecentDays >= units * HorizonDays
Overshoots(units) == units \in OverTarget /\ (units * HorizonDays) % RecentDays = 0
Spare(units) == IF Overshoots(units) THEN 1 ELSE 0
RecommendedQuantity(quantity, units) ==
    AtLeastZero(RoundUp(units * HorizonDays - quantity * RecentDays, RecentDays) + Spare(units))
CoverIsShort(quantity, units) ==
    \/ ~LastsTheHorizon(quantity, units)
    \/ units \in UnderCover /\ quantity * RecentDays = units * HorizonDays
NeedsRestock(quantity, units) ==
    units > 0 /\ CoverIsShort(quantity, units) /\ RecommendedQuantity(quantity, units) > 0

\* detectTrending, and its two rates compared crosswise.
IsTrending(recent, baseline) ==
    /\ recent >= MinUnits
    /\ recent * BaselineDays >= MinRatio * baseline * RecentDays

StockSignals ==
    LET levels == Told("levels")
        units == Told("units")
    IN  {Signal("stockout", <<s>>, Rounded(units[s] * PriceOf[s], RecentDays), 0) :
           s \in {t \in DOMAIN levels : levels[t] = 0 /\ units[t] > 0}}
        \cup
        {Signal("restock", <<s>>,
                Rounded(PriceOf[s] * AtLeastZero(units[s] * LeadDays - levels[s] * RecentDays), RecentDays), 0) :
           s \in {t \in DOMAIN levels : levels[t] > 0 /\ NeedsRestock(levels[t], units[t])}}

\* summariseStock
OnShelfOf(a) == {s \in DOMAIN Told("stock") : ArticleOf[s] = a}
Stocks(a) == SumFunctionOnSet([s \in OnShelfOf(a) |-> Told("stock")[s]], OnShelfOf(a))
TiedUp(a) == SumFunctionOnSet([s \in OnShelfOf(a) |-> Told("stock")[s] * PriceOf[s]], OnShelfOf(a))

FindTrending ==
    LET recent == Told("recent")
    IN  {Signal("trending", <<a>>, recent[a].revenue, 0) :
           a \in {b \in Article : OnShelfOf(b) # {} /\ IsTrending(recent[b].units, Told("baseline")[b].units)}}

FindSlowMovers ==
    {Signal("slow_mover", <<a>>, TiedUp(a), 0) :
       a \in {b \in Article :
                /\ Stocks(b) > 0
                /\ TiedUp(b) >= MinTiedUp
                /\ \A age \in Told("lastSold")[b] : age >= SlowDays}}

DemandSignals ==
    {Signal("demand_gap", <<t>>, 0, Told("themes")[t]) : t \in {u \in Theme : Told("themes")[u] >= MinAsked}}

\* One line for each kind of anomaly, on its first day: 1 is a cold snap, 2 a
\* heatwave, 3 rain.  A store without coordinates has no forecast.
WeatherSignals ==
    LET days == Told("weather")
    IN  {Signal("weather", <<days[i], i>>, 0, 0) :
           i \in {j \in DOMAIN days : days[j] # 0 /\ \A k \in 1..(j - 1) : days[k] # days[j]}}

-----------------------------------------------------------------------------
\* findUpcomingEvents.  A day of the walk is 24 hours; a day of the store is
\* whatever its clock makes it.

DayHours == 24
Shown(hour) == hour + (IF hour \in Summer THEN 1 ELSE 0)
DayAt(hour) == Shown(hour) \div DayHours
HourAt(hour) == Shown(hour) % DayHours
YearOf(date) == date \div YearDays

\* Mutant of Walk: the last day of the lookahead is left out.
ShortWalk(hour) == 0..(LookaheadDays - 1)

Walk(hour) == 0..LookaheadDays

Hits(hour, e) == {n \in Walk(hour) : DayAt(hour + n * DayHours) \in Occurs[e]}
DaysUntil(hour, e) == Min(Hits(hour, e))
StartsOn(hour, e) == DayAt(hour + DaysUntil(hour, e) * DayHours)
Upcoming(hour) == {e \in DOMAIN Occurs : Hits(hour, e) # {}}

CalendarSignals(hour) ==
    {Signal("seasonal_event", <<e, YearOf(StartsOn(hour, e))>>, 0, LookaheadDays - DaysUntil(hour, e)) :
       e \in Upcoming(hour)}

-----------------------------------------------------------------------------
\* rankInsights

Kinds == <<"stockout", "restock", "trending", "slow_mover", "demand_gap", "seasonal_event", "weather">>
KindOrder(kind) == CHOOSE i \in DOMAIN Kinds : Kinds[i] = kind

SeverityOrder(kind) ==
    CASE kind = "stockout" -> 0
      [] kind \in {"restock", "demand_gap"} -> 1
      [] OTHER -> 2

\* The keys that are compared, the smaller first.
SortKey(x) == <<SeverityOrder(x.kind), -x.impact, KindOrder(x.kind), -x.within>> \o x.about

Smaller(v, w) ==
    \E i \in DOMAIN v \cap DOMAIN w : v[i] < w[i] /\ \A j \in 1..(i - 1) : v[j] = w[j]

Louder(x, y) == Smaller(SortKey(x), SortKey(y))

Place(x, signals) == 1 + Cardinality({y \in signals : Louder(y, x)})

RankInsights(signals) ==
    LET best == {x \in signals : Place(x, signals) <= Places}
    IN  {lines \in [1..Cardinality(best) -> best] : \A i \in DOMAIN lines : Place(lines[i], signals) = i}

\* collectSignals: the section of a collector that threw is left out.
CollectSignals(hour) ==
    (IF Allowed({"levels", "units"}) THEN StockSignals ELSE {})
    \cup (IF Allowed({"recent", "baseline", "lastSold", "stock"}) THEN FindTrending \cup FindSlowMovers ELSE {})
    \cup (IF Allowed({"themes"}) THEN DemandSignals ELSE {})
    \cup (IF Allowed({"weather"}) THEN WeatherSignals ELSE {})
    \cup CalendarSignals(hour)

-----------------------------------------------------------------------------
\* AdvisorNarrator, and the transaction that writes the brief.

ArticleIn(x) == IF x.kind \in {"stockout", "restock"} THEN ArticleOf[x.about[1]] ELSE x.about[1]

\* A line of the model's is cut to its column.  A template's is not, and
\* neither is the key made of a theme.
TitleFits(x, words) ==
    \/ words = "model"
    \/ x.kind \in {"stockout", "restock"} /\ ArticleIn(x) \notin WordyArticle
    \/ x.kind = "demand_gap" /\ x.about[1] \notin WordyTheme
    \/ x.kind \notin {"stockout", "restock", "demand_gap"}

KeyFits(x) == x.kind = "demand_gap" => x.about[1] \notin WordyTheme

\* merge: the model words the lines it words, and templates the rest.
Narrated(lines, worded, hour) ==
    [lines |-> lines, hour |-> hour,
     words |-> [i \in DOMAIN lines |-> IF i \in worded THEN "model" ELSE "template"],
     status |-> IF worded = {} THEN "fallback" ELSE "ai"]

BriefFits(brief) ==
    \A i \in DOMAIN brief.lines : KeyFits(brief.lines[i]) /\ TitleFits(brief.lines[i], brief.words[i])

ReadyToWrite == page = NoPage /\ \A q \in Queries : answer[q] # Unasked
EndsAs(status) ==
    /\ page' = [NoPage EXCEPT !.status = status]
    /\ UNCHANGED <<sale, stock, listed, answer, moved, disturbances>>

\* An insert that does not fit takes the whole brief with it.
WriteBrief ==
    /\ ReadyToWrite
    /\ \E hour \in Clock :
         \E lines \in RankInsights(CollectSignals(hour)) :
           \E worded \in {{}, {1}, DOMAIN lines} :
             /\ lines # <<>>
             /\ IF BriefFits(Narrated(lines, worded, hour))
                THEN /\ page' = Narrated(lines, worded, hour)
                     /\ UNCHANGED <<sale, stock, listed, answer, moved, disturbances>>
                ELSE EndsAs("lost")

SayNothing ==
    /\ ReadyToWrite
    /\ \E hour \in Clock : CollectSignals(hour) = {}
    /\ EndsAs("empty")

NextSignals ==
    \/ CustomerOrders \/ OrderIsCancelled \/ OwnerListsOrArchives
    \/ \E q \in Queries : AskFor(q) \/ AskInVain(q)
    \/ WriteBrief \/ SayNothing

-----------------------------------------------------------------------------
\* Properties.

AdvisedAs(kinds) == {ArticleIn(x) : x \in {page.lines[i] : i \in {j \in DOMAIN page.lines : page.lines[j].kind \in kinds}}}

\* A brief never calls an article slow that it also finds selling: six queries
\* that share no snapshot agree, but about an article one of whose orders was
\* placed or cancelled while they ran.
NoArticleSellsAndSitsStill ==
    AdvisedAs({"stockout", "restock", "trending"}) \cap AdvisedAs({"slow_mover"}) \subseteq moved

\* What a reorder recommends lasts the lead time and the coverage, and one
\* unit less would not; but where the target is whole and its double is above
\* it, one unit is to spare.
ReorderLasts(quantity, units) ==
    LET reordered == quantity + RecommendedQuantity(quantity, units)
    IN  LastsTheHorizon(reordered, units) /\ ~LastsTheHorizon(reordered - 1 - Spare(units), units)

ReordersLast ==
    \A i \in DOMAIN page.lines :
        page.lines[i].kind = "restock" =>
          LET s == page.lines[i].about[1]
          IN  ReorderLasts(Told("levels")[s], Told("units")[s])

\* What a brief advises adds up, whatever customers did while it was made.
BriefsAddUp == NoArticleSellsAndSitsStill /\ ReordersLast

\* The hours at which a walk of 24 hours a day steps over a day of the store,
\* or on the same day twice: the last hour before a day that is one shorter,
\* the first before one that is longer.
ClockChanges(hour, to) == \E n \in Walk(hour) : (hour + n * DayHours) \in Summer <=> to
MayMissADay(hour) ==
    \/ HourAt(hour) = DayHours - 1 /\ hour \notin Summer /\ ClockChanges(hour, TRUE)
    \/ HourAt(hour) = 0 /\ hour \in Summer /\ ClockChanges(hour, FALSE)

\* Every event that starts within the lookahead is found for a brief, on its
\* first day in it and as many days ahead as it is, whatever hour of whatever
\* day the brief is written in, but for those hours.
EventsKeepTheirDate ==
    \/ page = NoPage
    \/ MayMissADay(page.hour)
    \/ LET today == DayAt(page.hour)
           coming(e) == {d \in Occurs[e] : d \in today..(today + LookaheadDays)}
       IN  /\ Upcoming(page.hour) = {e \in DOMAIN Occurs : coming(e) # {}}
           /\ \A e \in Upcoming(page.hour) :
                /\ StartsOn(page.hour, e) = Min(coming(e))
                /\ DaysUntil(page.hour, e) = Min(coming(e)) - today
=============================================================================

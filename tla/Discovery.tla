------------------------------- MODULE Discovery -------------------------------
(***************************************************************************)
(* Finding a venue: the search of apps/api/src/venues and the page around  *)
(* it (apps/web/app/courts/page.tsx, components/discovery/filter-bar.tsx,  *)
(* components/landing/hero-search.tsx).  The page keeps its filters in the *)
(* URL; every form, chip and link of it leads to another URL, and the page *)
(* is rendered from that URL by calls that may fail.  The web offers       *)
(* durations of an hour and more, for which the price of an hour that a    *)
(* quote is rounded back to is the price of its rule.                      *)
(***************************************************************************)
EXTENDS AvailabilityPolicy, FiniteSets, Integers

CONSTANTS
  Venue,
  Absent,          \* an absent parameter
  Details,         \* what a venue's row and its amenities say
  ByName,          \* the place of each venue in the order of the names
  CourtsOf,        \* the active courts of a venue
  HoursOf,         \* the operating hours of a court
  Amenity,         \* amenity keys of the catalogue with scope VENUE or BOTH
  Word, City, SearchDate, Price,  \* what a player may type
  FormDuration,    \* the durations of the filter form
  HeroDuration,    \* the durations of the landing page
  DefaultDuration, \* one hour
  Bookable,        \* intervals that players book meanwhile
  Moderated,       \* venues that are suspended and approved again meanwhile
  PageLimit,       \* results of a search without a limit: 50
  CandidateCap     \* rows a search reads: 200

ASSUME SearchAssumption ==
  /\ DefaultDuration \in FormDuration /\ HeroDuration \subseteq FormDuration
  /\ Absent \notin FormDuration \cup SearchDate \cup Word \cup City \cup Price
  /\ PageLimit \in Nat \ {0} /\ CandidateCap \in Nat \ {0}
  /\ IsFiniteSet(Venue) /\ ByName \in [Venue -> Nat]
  /\ \A u, v \in Venue : ByName[u] = ByName[v] => u = v
  /\ IsFiniteSet(PricingRules) /\ \A rule \in PricingRules : rule.priority \in Int

VARIABLES
  status,  \* the status of each venue
  taken,   \* intervals of blocking bookings
  seen,    \* the page the player sees: the URL it was rendered for, and what it got
  load     \* the page that is being rendered

searchVars == <<status, taken, seen, load>>

Landing == [at |-> "landing"]
NotLoading == [at |-> "idle"]

SearchInit ==
  /\ status = [v \in Venue |-> "APPROVED"]
  /\ taken = {}
  /\ seen = Landing
  /\ load = NotLoading

---------------------------------------------------------------------------
(* The search *)

WithinRange(price, f) ==
  /\ f.minPrice # Absent => price >= f.minPrice
  /\ f.maxPrice # Absent => price <= f.maxPrice

(* buildWhere *)
Found(v, f) ==
  /\ status[v] = "APPROVED"
  /\ f.city \in {Absent, Details[v].city}
  /\ f.query \in {Absent} \cup Details[v].words
  /\ f.amenities \subseteq Details[v].amenities

(* The first n venues of S.                                                *)
Take(n, S) == {v \in S : Cardinality({u \in S : ByName[u] < ByName[v]}) < n}

Candidate(f) == Take(CandidateCap, {v \in Venue : Found(v, f)})

(* Mutant: only the rule with the highest priority counts.                 *)
RulePricesOfFirst(v, f) ==
  {rule.price : rule \in {r \in PricingRules :
                           /\ r.court \in CourtsOf[v] /\ WithinRange(r.price, f)
                           /\ \A q \in PricingRules : q.court = r.court => q.priority <= r.priority}}

(* evaluatePriceOnly: any rule counts, whenever it is in force.            *)
RulePrices(v, f) ==
  {rule.price : rule \in {r \in PricingRules : r.court \in CourtsOf[v] /\ WithinRange(r.price, f)}}

HasPriceFilter(f) == f.minPrice # Absent \/ f.maxPrice # Absent

(* The bookings that the query reads: those that touch the day.            *)
BookedOn(date) == {b \in taken : b.from < (date + 1) * DayLength /\ b.to > date * DayLength}

(* evaluateAvailability, with the price of each slot that is left.         *)
SlotPrices(c, f) ==
  {QuotedRule(i).price :
     i \in Evaluated(c, HoursOf[c], {}, BookedOn(f.date), f.date,
                     IF f.duration = Absent THEN DefaultDuration ELSE f.duration, 0, DayLength)}
AvailableCourts(v, f) == {c \in CourtsOf[v] : \E p \in SlotPrices(c, f) : WithinRange(p, f)}

(* evaluateVenue *)
Matches(v, f) ==
  IF f.date # Absent THEN AvailableCourts(v, f) # {}
  ELSE HasPriceFilter(f) => RulePrices(v, f) # {}

Results(candidates, f) ==
  Take(IF f.limit = Absent THEN PageLimit ELSE f.limit,
       {v \in candidates : Matches(v, f)})

---------------------------------------------------------------------------
(* URLs of the page *)

NoFilters == [q |-> Absent, city |-> Absent, date |-> Absent, duration |-> Absent,
              maxPrice |-> Absent, amenities |-> {}]

OrElse(x, default) == IF x = Absent THEN default ELSE x

(* loadVenues: without a date, a duration is not sent.                     *)
Query(url) ==
  [query |-> url.q, city |-> url.city, amenities |-> url.amenities,
   minPrice |-> Absent, maxPrice |-> url.maxPrice, date |-> url.date,
   duration |-> IF url.date = Absent THEN Absent ELSE OrElse(url.duration, DefaultDuration),
   limit |-> Absent]

(* activeChips; the chip of a date also names its duration, which is       *)
(* an hour where the form has no label for it.                             *)
Labelled(d) == IF OrElse(d, DefaultDuration) \in FormDuration THEN OrElse(d, DefaultDuration)
               ELSE DefaultDuration

(* Mutant: the price is not among the chips.                               *)
ActiveChipsWithoutPrice(url) ==
  {[key |-> k, value |-> url[k]] : k \in {k \in {"q", "city"} : url[k] # Absent}}
  \cup {[key |-> "date", value |-> <<d, Labelled(url.duration)>>] : d \in {url.date} \ {Absent}}
  \cup {[key |-> "amenities", value |-> a] : a \in url.amenities}

ActiveChips(url) ==
  {[key |-> k, value |-> url[k]] : k \in {k \in {"q", "city", "maxPrice"} : url[k] # Absent}}
  \cup {[key |-> "date", value |-> <<d, Labelled(url.duration)>>] : d \in {url.date} \ {Absent}}
  \cup {[key |-> "amenities", value |-> a] : a \in url.amenities}

BuildFilterHref(url, chip) ==
  IF chip.key = "amenities" THEN [url EXCEPT !.amenities = @ \ {chip.value}]
  ELSE IF chip.key = "date" THEN [url EXCEPT !.date = Absent, !.duration = Absent]
  ELSE [url EXCEPT ![chip.key] = Absent]

(* The form as the page renders it: a duration it does not offer shows as  *)
(* the first one, and only amenities of the catalogue it got have a box.   *)
FilterFields(url, catalog) ==
  [url EXCEPT !.duration = Labelled(@), !.amenities = @ \cap catalog]

---------------------------------------------------------------------------
(* The player *)

Open(url) ==
  /\ load' = [at |-> "catalog", url |-> url]
  /\ UNCHANGED <<status, taken, seen>>

Rendered == seen.at = "courts"

(* A date is sent with a duration, and neither without the other.          *)
HeroSearch ==
  /\ seen = Landing
  /\ \E city \in City \cup {Absent}, date \in SearchDate \cup {Absent}, d \in HeroDuration :
       Open([NoFilters EXCEPT !.city = city, !.date = date,
                              !.duration = IF date = Absent THEN Absent ELSE d])

(* One field at a time, which leads to every combination of fields.        *)
ApplyFilters ==
  /\ Rendered
  /\ LET form == FilterFields(seen.url, seen.catalog)
     IN \/ Open(form)
        \/ \E w \in Word \cup {Absent} : Open([form EXCEPT !.q = w])
        \/ \E c \in City \cup {Absent} : Open([form EXCEPT !.city = c])
        \/ \E date \in SearchDate \cup {Absent} : Open([form EXCEPT !.date = date])
        \/ \E d \in FormDuration : Open([form EXCEPT !.duration = d])
        \/ \E p \in Price \cup {Absent} : Open([form EXCEPT !.maxPrice = p])
        \/ \E A \in SUBSET seen.catalog : Open([form EXCEPT !.amenities = A])

RemoveChip ==
  /\ Rendered
  /\ \E chip \in ActiveChips(seen.url) : Open(BuildFilterHref(seen.url, chip))

ClearFilters == Rendered /\ Open(NoFilters)

---------------------------------------------------------------------------
(* Rendering; a call that fails counts as an empty answer.                 *)

LoadCatalog(ok) ==
  /\ load.at = "catalog"
  /\ load' = [at |-> "venues", url |-> load.url, catalog |-> IF ok THEN Amenity ELSE {}]
  /\ UNCHANGED <<status, taken, seen>>

(* The venues of the search, then their courts and bookings.               *)
FindVenues ==
  /\ load.at = "venues"
  /\ load' = [at |-> "courts", url |-> load.url, catalog |-> load.catalog,
              candidates |-> Candidate(Query(load.url))]
  /\ UNCHANGED <<status, taken, seen>>

Show(venues) ==
  /\ seen' = [at |-> "courts", url |-> load.url, catalog |-> load.catalog, venues |-> venues]
  /\ load' = NotLoading
  /\ UNCHANGED <<status, taken>>

EvaluateVenues == load.at = "courts" /\ Show(Results(load.candidates, Query(load.url)))
LoadVenuesFails == load.at \in {"venues", "courts"} /\ Show({})

---------------------------------------------------------------------------
(* Meanwhile, elsewhere *)

Book(i) ==
  /\ \A b \in taken : ~Overlap(b, i)
  /\ taken' = taken \cup {i}
  /\ UNCHANGED <<status, seen, load>>

Unbook(i) ==
  /\ i \in taken
  /\ taken' = taken \ {i}
  /\ UNCHANGED <<status, seen, load>>

SetStatus(v, s) ==
  /\ status[v] # s
  /\ status' = [status EXCEPT ![v] = s]
  /\ UNCHANGED <<taken, seen, load>>

SearchNext ==
  \/ HeroSearch \/ ApplyFilters \/ RemoveChip \/ ClearFilters
  \/ \E ok \in BOOLEAN : LoadCatalog(ok)
  \/ FindVenues \/ EvaluateVenues \/ LoadVenuesFails
  \/ \E i \in Bookable : Book(i) \/ Unbook(i)
  \/ \E v \in Moderated : SetStatus(v, "SUSPENDED") \/ SetStatus(v, "APPROVED")

SearchSpec == SearchInit /\ [][SearchNext]_searchVars

---------------------------------------------------------------------------
Search(url) == Results(Candidate(Query(url)), Query(url))

(* A search that stopped at the limit of results, or of rows, may hide     *)
(* venues that a narrower search reaches.                                  *)
CutShort(url) ==
  \/ Cardinality(Search(url)) = PageLimit
  \/ Cardinality({v \in Venue : Found(v, Query(url))}) > CandidateCap

(* Taking a chip off the page never takes a venue off it: whatever the     *)
(* narrower search finds, the wider one finds too, although a search with  *)
(* a date looks at free slots and one without looks at price rules.        *)
RemovingAFilterWidens ==
  Rendered =>
    \A chip \in ActiveChips(seen.url) :
      LET wider == BuildFilterHref(seen.url, chip)
      IN CutShort(wider) \/ Search(seen.url) \subseteq Search(wider)

(* The filters that the chips of a page spell out.                         *)
Spelled(chips) ==
  LET Of(key) == {c.value : c \in {c \in chips : c.key = key}}
      One(values) == IF values = {} THEN Absent ELSE CHOOSE x \in values : TRUE
  IN Query([q |-> One(Of("q")), city |-> One(Of("city")), maxPrice |-> One(Of("maxPrice")),
            date |-> One({x[1] : x \in Of("date")}),
            duration |-> One({x[2] : x \in Of("date")}),
            amenities |-> Of("amenities")])

(* The page tells what it searched for: its chips spell out the query, and *)
(* so does its form, which searches the same again when it is sent as it   *)
(* is.  Without the catalogue the form has no boxes and drops the          *)
(* amenities, which is why the second half asks for it.                    *)
PageTellsTheSearch ==
  Rendered =>
    /\ Spelled(ActiveChips(seen.url)) = Query(seen.url)
    /\ seen.catalog # {} => Query(FilterFields(seen.url, seen.catalog)) = Query(seen.url)

=============================================================================

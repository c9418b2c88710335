---------------------------- MODULE PriceSearch ----------------------------
(***************************************************************************)
(* DonutApiClient.get_price (infrastructure/donut_api.py): the scan of the *)
(* auction for one item.  The auction is a service the code only sees      *)
(* through its pages: listings whose name matches the search, cheapest     *)
(* first, PageSize to a page.  It goes on trading between two page         *)
(* requests, so the pages of one scan need not fit together.               *)
(***************************************************************************)
EXTENDS Integers, FiniteSets

CONSTANTS
    Offers,     \* the listings the auction may show for the search
    PageSize,   \* listings on a page
    MaxPages,   \* max_search_pages
    None        \* Python's None: no listing was found

Listing == [id : Nat, exact : BOOLEAN, valid : BOOLEAN, price : Nat, count : Nat]

\* `exact`: its item id is the one asked for, and not just similar to it;
\* `valid`: AuctionListing accepts it.
ASSUME OffersAssumption ==
    /\ Offers \subseteq Listing /\ IsFiniteSet(Offers)
    /\ \A l, m \in Offers : l.id = m.id => l = m
    /\ None \notin Offers

ASSUME PagesAssumption ==
    /\ PageSize \in Nat \ {0}
    /\ MaxPages \in Nat \ {0}    \* PositiveInt in Settings

PriceTypes == {"total", "per_item"}

VARIABLES
    auction,     \* the listings on sale
    price_type,
    page,        \* the page requested next, or last
    status,      \* "searching", then "done" or "raised"
    listing,     \* the listing of the snapshot
    kept,        \* history: the listings on sale ever since the scan began
    sold         \* history: a listing has gone since the scan began

vars == <<auction, price_type, page, status, listing, kept, sold>>

-----------------------------------------------------------------------------
\* `sort`: lowest_price.  Listings of one price keep an order of their own.
Before(l, m) == l.price < m.price \/ (l.price = m.price /\ l.id < m.id)

Rank(l) == Cardinality({m \in auction : Before(m, l)})

PageOf(l) == Rank(l) \div PageSize + 1

\* normalize_count: no count, or none that makes sense, is 1.
Count(l) == IF l.count = 0 THEN 1 ELSE l.count

\* selected_price is price / units.
Units(l) == IF price_type = "per_item" THEN Count(l) ELSE 1

\* selected_price(l) < selected_price(m), without the fractions.
Lower(l, m) == l.price * Units(m) < m.price * Units(l)

-----------------------------------------------------------------------------
\* Mistakes the properties are meant to notice.

\* One page more than the budget of a poll reckons with.
LastPageTooFar(p) == p > MaxPages

\* The scan stops at the first page, exact listings or not.
LastPageFirst(p) == TRUE

\* max where min is meant.
SelectedDearest(found) ==
    IF found = {} THEN None
    ELSE CHOOSE l \in found : \A m \in found : ~Lower(l, m)

-----------------------------------------------------------------------------
LastPage(p) == p = MaxPages

\* The first of the cheapest listings, or None.
Selected(found) ==
    IF found = {} THEN None
    ELSE CHOOSE l \in found :
            \A m \in found \ {l} : Lower(l, m) \/ (~Lower(m, l) /\ Before(l, m))

\* A scan begins, whatever the auction has become since the last.
Begin ==
    /\ status # "searching"
    /\ auction' \in SUBSET Offers
    /\ price_type' \in PriceTypes
    /\ page' = 1
    /\ status' = "searching"
    /\ listing' = None
    /\ kept' = auction'
    /\ sold' = FALSE

Init ==
    /\ auction = {} /\ price_type = "total" /\ page = 1 /\ status = "raised"
    /\ listing = None /\ kept = {} /\ sold = FALSE

\* One page: the scan ends with an empty page, with one that shows the item,
\* or with the last; otherwise it goes on.
ReadPage ==
    LET results == {l \in auction : PageOf(l) = page}
        found   == {l \in results : l.exact /\ l.valid}
    IN  /\ status = "searching"
        /\ IF results = {} \/ found # {} \/ LastPage(page)
           THEN /\ status' = "done"
                /\ listing' = Selected(found)
                /\ UNCHANGED page
           ELSE /\ page' = page + 1
                /\ UNCHANGED <<status, listing>>
        /\ UNCHANGED <<auction, price_type, kept, sold>>

\* A page request fails, or its result is not a list: nothing is returned.
Raise ==
    /\ status = "searching"
    /\ status' = "raised"
    /\ UNCHANGED <<auction, price_type, page, listing, kept, sold>>

\* The auction trades between two pages.
Offer(l) ==
    /\ status = "searching"
    /\ auction' = auction \cup {l}
    /\ UNCHANGED <<price_type, page, status, listing, kept, sold>>

Sell(l) ==
    /\ status = "searching"
    /\ l \in auction
    /\ auction' = auction \ {l}
    /\ kept' = kept \ {l}
    /\ sold' = TRUE
    /\ UNCHANGED <<price_type, page, status, listing>>

Next ==
    \/ Begin
    \/ ReadPage
    \/ Raise
    \/ \E l \in Offers : Offer(l) \/ Sell(l)

Spec == Init /\ [][Next]_vars

-----------------------------------------------------------------------------
\* Types of the scan; it never asks for more than max_search_pages pages, which
\* calculate_poll_interval counts on.
TypeOK ==
    /\ auction \subseteq Offers
    /\ price_type \in PriceTypes
    /\ page \in 1..MaxPages
    /\ status \in {"searching", "done", "raised"}
    /\ listing \in Offers \cup {None}
    /\ kept \subseteq auction
    /\ sold \in BOOLEAN

Sought(S) == {l \in S : l.exact /\ l.valid}

(***************************************************************************)
(* The snapshot of a rule on whole-listing prices is the lowest, although  *)
(* the scan stops at the first page that shows the item: if no listing was *)
(* sold meanwhile, and however many were added, no listing of the item     *)
(* that was there all the time is cheaper, and "no listings" means that    *)
(* none was within the pages searched.                                     *)
(***************************************************************************)
TotalIsLowest ==
    status = "done" /\ price_type = "total" /\ ~sold =>
        \A l \in Sought(kept) :
            IF listing = None THEN PageOf(l) > MaxPages ELSE ~Lower(l, listing)

(***************************************************************************)
(* A per-item snapshot is at most the whole price of any listing of the    *)
(* item, on whatever page: the page it comes from holds the cheapest       *)
(* listing, and a unit costs no more than its listing.                     *)
(***************************************************************************)
PerItemWithinTotal ==
    status = "done" /\ price_type = "per_item" /\ ~sold /\ listing # None =>
        \A l \in Sought(kept) : listing.price <= l.price * Count(listing)

=============================================================================

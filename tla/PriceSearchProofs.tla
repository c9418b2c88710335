------------------------- MODULE PriceSearchProofs -------------------------
(***************************************************************************)
(* What a scan of the auction returns, for any listings, page size and     *)
(* number of pages.  The listings form a finite total order: a page is a   *)
(* stretch of it, and no page is empty before a page that is not.          *)
(***************************************************************************)
EXTENDS PriceSearch, TLAPS, FiniteSetTheorems, WellFoundedInduction

\* A finite set has a least element in any total order.
LEMMA LeastElement ==
    ASSUME NEW S, IsFiniteSet(S), S # {}, NEW R,
           \A x, y \in S : x = y \/ <<x, y>> \in R \/ <<y, x>> \in R,
           \A x, y, z \in S : <<x, y>> \in R /\ <<y, z>> \in R => <<x, z>> \in R
    PROVE  \E x \in S : \A y \in S \ {x} : <<x, y>> \in R
<1> DEFINE HasLeast(U) == \E x \in U : \A y \in U \ {x} : <<x, y>> \in R
           T == {U \in SUBSET S : U # {} /\ ~HasLeast(U)}
<1>1. T \subseteq FiniteSubsetsOf(S)
  BY FS_FiniteSubsetsOfFinite
<1>2. IsWellFoundedOn(StrictSubsetOrdering(S), FiniteSubsetsOf(S))
  BY FS_StrictSubsetOrderingWellFounded
<1>3. T = {}
  <2> SUFFICES ASSUME T # {} PROVE FALSE
    OBVIOUS
  <2>1. PICK U \in T : \A V \in T : <<V, U>> \notin StrictSubsetOrdering(S)
    <3> HIDE DEF T
    <3> QED BY <1>1, <1>2, WFMin
  <2>2. PICK a \in U : TRUE
    OBVIOUS
  <2> DEFINE V == U \ {a}
  <2>3. U \in SUBSET S /\ a \in S /\ ~HasLeast(U)
    BY <2>2
  <2>4. V # {}
    <3> SUFFICES ASSUME V = {} PROVE FALSE
      OBVIOUS
    <3>1. HasLeast(U)
      BY <2>2
    <3> QED BY <2>3, <3>1
  <2>5. V \in SUBSET S /\ V \subseteq U /\ V # U
    BY <2>2, <2>3
  <2>6. <<V, U>> \in StrictSubsetOrdering(S)
    BY <2>3, <2>5 DEF StrictSubsetOrdering
  <2>7. HasLeast(V)
    BY <2>1, <2>4, <2>5, <2>6
  <2>8. PICK b \in V : \A y \in V \ {b} : <<b, y>> \in R
    BY <2>7
  <2>9. b \in S /\ b \in U /\ b # a
    BY <2>3, <2>8
  <2>10. CASE <<b, a>> \in R
    <3>1. \A y \in U \ {b} : <<b, y>> \in R
      BY <2>8, <2>10
    <3> QED BY <2>3, <2>9, <3>1
  <2>11. CASE <<a, b>> \in R
    <3>1. \A y \in U \ {a} : <<a, y>> \in R
      <4> SUFFICES ASSUME NEW y \in V, y # b PROVE <<a, y>> \in R
        BY <2>11
      <4>1. <<b, y>> \in R /\ y \in S
        BY <2>3, <2>8
      <4> QED BY <2>3, <2>9, <2>11, <4>1
    <3> QED BY <2>2, <2>3, <3>1
  <2> QED BY <2>3, <2>9, <2>10, <2>11
<1> QED BY <1>3

-----------------------------------------------------------------------------
(***************************************************************************)
(* The order of the listings, and their ranks and pages in any auction A.  *)
(***************************************************************************)
LEMMA OfferTypes ==
    ASSUME NEW l \in Offers
    PROVE  /\ l.id \in Nat /\ l.price \in Nat /\ l.count \in Nat
           /\ l.exact \in BOOLEAN /\ l.valid \in BOOLEAN
BY OffersAssumption DEF Listing

LEMMA BeforeIsOrder ==
    /\ \A l \in Offers : ~Before(l, l)
    /\ \A l, m \in Offers : l = m \/ Before(l, m) \/ Before(m, l)
    /\ \A l, m, n \in Offers : Before(l, m) /\ Before(m, n) => Before(l, n)
BY OfferTypes, OffersAssumption DEF Before

Preceding(A, l) == {m \in A : Before(m, l)}

RankIn(A, l) == Cardinality(Preceding(A, l))

PageIn(A, l) == RankIn(A, l) \div PageSize + 1

LEMMA RankFacts ==
    ASSUME NEW A \in SUBSET Offers, NEW l
    PROVE  IsFiniteSet(A) /\ IsFiniteSet(Preceding(A, l)) /\ RankIn(A, l) \in Nat
<1>1. IsFiniteSet(A)
  BY OffersAssumption, FS_Subset
<1>2. Preceding(A, l) \in SUBSET A
  BY DEF Preceding
<1>3. IsFiniteSet(Preceding(A, l))
  BY <1>1, <1>2, FS_Subset
<1> QED BY <1>1, <1>3, FS_CardinalityType DEF RankIn

\* A listing before another has a smaller rank.
LEMMA RankGrows ==
    ASSUME NEW A \in SUBSET Offers, NEW l \in A, NEW m \in A, Before(l, m)
    PROVE  RankIn(A, l) < RankIn(A, m)
<1> DEFINE P == Preceding(A, l)
           Q == Preceding(A, m)
<1>1. P \in SUBSET Q /\ l \in Q /\ l \notin P
  BY BeforeIsOrder DEF Preceding
<1>2. IsFiniteSet(Q) /\ RankIn(A, l) \in Nat /\ RankIn(A, m) \in Nat
  BY RankFacts
<1>3. Cardinality(P) <= Cardinality(Q) /\ (Cardinality(Q) = Cardinality(P) => Q = P)
  BY <1>1, <1>2, FS_Subset
<1> QED BY <1>1, <1>2, <1>3 DEF RankIn

\* Adding listings never moves one to the front.
LEMMA RankKept ==
    ASSUME NEW A \in SUBSET Offers, NEW B \in SUBSET Offers, A \subseteq B, NEW l
    PROVE  RankIn(A, l) <= RankIn(B, l)
<1>1. Preceding(A, l) \in SUBSET Preceding(B, l) /\ IsFiniteSet(Preceding(B, l))
  BY RankFacts DEF Preceding
<1> QED BY <1>1, FS_Subset DEF RankIn

\* Division by the page size.
LEMMA Multiples ==
    ASSUME NEW a \in Nat, NEW b \in Nat, NEW k \in Nat, a <= b
    PROVE  a * k <= b * k
BY Z3

LEMMA Quotient ==
    ASSUME NEW n \in Nat
    PROVE  /\ n \div PageSize \in Nat
           /\ (n \div PageSize) * PageSize <= n
           /\ n < (n \div PageSize) * PageSize + PageSize
BY PagesAssumption, Z3

LEMMA QuotientGrows ==
    ASSUME NEW a \in Nat, NEW b \in Nat, a <= b
    PROVE  /\ a \div PageSize <= b \div PageSize
           /\ (a + 1) \div PageSize <= a \div PageSize + 1
<1> DEFINE q(n) == n \div PageSize
<1>0. PageSize \in Nat /\ PageSize >= 1
  BY PagesAssumption
<1>1. ASSUME NEW n \in Nat
      PROVE  q(n) \in Nat /\ q(n) * PageSize <= n /\ n < q(n) * PageSize + PageSize
  BY Quotient
<1> HIDE DEF q
<1>2. ASSUME NEW m \in Nat, NEW n \in Nat, NEW j \in Nat, q(m) >= q(n) + j
      PROVE  q(n) * PageSize + j * PageSize <= m
  <2>1. q(m) \in Nat /\ q(n) \in Nat /\ q(n) + j \in Nat /\ q(m) * PageSize <= m
    BY <1>1
  <2>2. (q(n) + j) * PageSize <= q(m) * PageSize
    BY <1>0, <1>2, <2>1, Multiples
  <2>3. (q(n) + j) * PageSize = q(n) * PageSize + j * PageSize
    BY <1>0, <2>1, Z3
  <2>4. q(n) * PageSize \in Nat /\ j * PageSize \in Nat /\ q(m) * PageSize \in Nat
    BY <1>0, <2>1, Z3
  <2> QED BY <2>1, <2>2, <2>3, <2>4
<1>3. q(a) <= q(b)
  <2> SUFFICES ASSUME ~(q(a) <= q(b)) PROVE FALSE
    OBVIOUS
  <2>1. q(a) >= q(b) + 1
    BY <1>1
  <2>2. q(b) * PageSize + 1 * PageSize <= a
    BY <1>2, <2>1
  <2>3. q(b) * PageSize \in Nat
    BY <1>0, <1>1, Z3
  <2> QED BY <1>0, <1>1, <2>2, <2>3
<1>4. q(a + 1) <= q(a) + 1
  <2> SUFFICES ASSUME ~(q(a + 1) <= q(a) + 1) PROVE FALSE
    OBVIOUS
  <2>1. a + 1 \in Nat /\ q(a + 1) >= q(a) + 2
    BY <1>1
  <2>2. q(a) * PageSize + 2 * PageSize <= a + 1
    BY <1>2, <2>1
  <2>3. q(a) * PageSize \in Nat
    BY <1>0, <1>1, Z3
  <2> QED BY <1>0, <1>1, <2>2, <2>3
<1> QED BY <1>3, <1>4 DEF q

-----------------------------------------------------------------------------
(***************************************************************************)
(* Pages.                                                                  *)
(***************************************************************************)
LEMMA PageFacts ==
    ASSUME NEW A \in SUBSET Offers, NEW l
    PROVE  PageIn(A, l) \in Nat /\ PageIn(A, l) >= 1
<1>1. RankIn(A, l) \in Nat
  BY RankFacts
<1>2. RankIn(A, l) \div PageSize \in Nat
  BY <1>1, Quotient
<1>3. \A n \in Nat : n + 1 \in Nat /\ n + 1 >= 1
  OBVIOUS
<1> QED BY <1>2, <1>3, Zenon DEF PageIn

LEMMA PageGrows ==
    ASSUME NEW A \in SUBSET Offers, NEW l \in A, NEW m \in A, Before(l, m)
    PROVE  PageIn(A, l) <= PageIn(A, m)
<1>1. RankIn(A, l) \in Nat /\ RankIn(A, m) \in Nat /\ RankIn(A, l) <= RankIn(A, m)
  BY RankFacts, RankGrows
<1> QED BY <1>1, QuotientGrows, Quotient DEF PageIn

LEMMA PageKept ==
    ASSUME NEW A \in SUBSET Offers, NEW B \in SUBSET Offers, A \subseteq B, NEW l
    PROVE  PageIn(A, l) <= PageIn(B, l)
<1>1. RankIn(A, l) \in Nat /\ RankIn(B, l) \in Nat /\ RankIn(A, l) <= RankIn(B, l)
  BY RankFacts, RankKept
<1> QED BY <1>1, QuotientGrows, Quotient DEF PageIn

\* The first and the last of some listings.
LEMMA FirstListing ==
    ASSUME NEW S \in SUBSET Offers, S # {}
    PROVE  /\ \E x \in S : \A y \in S \ {x} : Before(x, y)
           /\ \E x \in S : \A y \in S \ {x} : Before(y, x)
<1> DEFINE R == {p \in Offers \X Offers : Before(p[1], p[2])}
           Q == {p \in Offers \X Offers : Before(p[2], p[1])}
<1>1. IsFiniteSet(S)
  BY RankFacts
<1>2. \A x, y \in Offers : /\ <<x, y>> \in R <=> Before(x, y)
                           /\ <<x, y>> \in Q <=> Before(y, x)
  OBVIOUS
<1> HIDE DEF R, Q
<1>3. \E x \in S : \A y \in S \ {x} : <<x, y>> \in R
  <2>1. \A x, y \in S : x = y \/ <<x, y>> \in R \/ <<y, x>> \in R
    BY <1>2, BeforeIsOrder
  <2>2. \A x, y, z \in S : <<x, y>> \in R /\ <<y, z>> \in R => <<x, z>> \in R
    BY <1>2, BeforeIsOrder
  <2> QED BY <1>1, <2>1, <2>2, LeastElement
<1>4. \E x \in S : \A y \in S \ {x} : <<x, y>> \in Q
  <2>1. \A x, y \in S : x = y \/ <<x, y>> \in Q \/ <<y, x>> \in Q
    BY <1>2, BeforeIsOrder
  <2>2. \A x, y, z \in S : <<x, y>> \in Q /\ <<y, z>> \in Q => <<x, z>> \in Q
    BY <1>2, BeforeIsOrder
  <2> QED BY <1>1, <2>1, <2>2, LeastElement
<1> QED BY <1>2, <1>3, <1>4

\* No page is empty before a page that is not: the listing after the last of
\* one page is the first of the next.
LEMMA PagesAreFull ==
    ASSUME NEW A \in SUBSET Offers, NEW p \in Nat, p >= 1, NEW l \in A, PageIn(A, l) >= p
    PROVE  \E m \in A : PageIn(A, m) = p
<1> SUFFICES ASSUME \A m \in A : PageIn(A, m) # p PROVE FALSE
  OBVIOUS
<1> DEFINE T == {m \in A : PageIn(A, m) > p}
<1>1. T \in SUBSET Offers /\ T # {}
  BY PageFacts
<1>2. PICK first \in T : \A m \in T \ {first} : Before(first, m)
  BY <1>1, FirstListing
<1> DEFINE D == Preceding(A, first)
<1>3. first \in A /\ first \in Offers /\ PageIn(A, first) >= p + 1
  BY <1>2, PageFacts
<1>4. ASSUME NEW m \in D
      PROVE  m \in A /\ Before(m, first) /\ PageIn(A, m) <= p - 1
  <2>1. m \in A /\ m \in Offers /\ Before(m, first)
    BY DEF Preceding
  <2>2. m \notin T
    BY <1>2, <1>3, <2>1, BeforeIsOrder
  <2>3. PageIn(A, m) \in Nat /\ PageIn(A, m) # p
    BY <2>1, PageFacts
  <2> QED BY <2>1, <2>2, <2>3
<1>5. D \in SUBSET Offers /\ IsFiniteSet(D) /\ RankIn(A, first) = Cardinality(D)
  BY RankFacts DEF Preceding, RankIn
<1>6. D # {}
  <2> SUFFICES ASSUME D = {} PROVE FALSE
    OBVIOUS
  <2>1. RankIn(A, first) = 0
    BY <1>5, FS_EmptySet
  <2>2. 0 \div PageSize = 0
    <3>1. (0 \div PageSize) * PageSize <= 0 /\ 0 \div PageSize \in Nat
      BY Quotient
    <3> QED BY <3>1, PagesAssumption, Z3
  <2>3. PageIn(A, first) = 1
    BY <2>1, <2>2 DEF PageIn
  <2> QED BY <1>3, <2>3
<1> HIDE DEF T, D
<1>7. PICK last \in D : \A m \in D \ {last} : Before(m, last)
  BY <1>5, <1>6, FirstListing
<1>8. last \in A /\ last \in Offers /\ Before(last, first)
  BY <1>4, <1>7
<1>9. D \ {last} = Preceding(A, last)
  <2>1. ASSUME NEW m \in Preceding(A, last) PROVE m \in D \ {last}
    <3>1. m \in A /\ m \in Offers /\ Before(m, last)
      BY DEF Preceding
    <3> QED BY <1>3, <1>8, <3>1, BeforeIsOrder DEF D, Preceding
  <2>2. ASSUME NEW m \in D \ {last} PROVE m \in Preceding(A, last)
    BY <1>4, <1>7 DEF Preceding
  <2> QED BY <2>1, <2>2
<1>10. RankIn(A, first) = RankIn(A, last) + 1
  <2>1. Cardinality(D \ {last}) = Cardinality(D) - 1
    BY <1>5, <1>7, FS_RemoveElement
  <2>2. Cardinality(D) \in Nat
    BY <1>5, FS_CardinalityType
  <2>3. RankIn(A, last) = Cardinality(D \ {last})
    BY <1>9 DEF RankIn
  <2> QED BY <1>5, <2>1, <2>2, <2>3
<1>11. RankIn(A, last) \in Nat
  BY RankFacts
<1>12. PageIn(A, first) <= PageIn(A, last) + 1
  BY <1>10, <1>11, QuotientGrows, Quotient DEF PageIn
<1> QED BY <1>3, <1>4, <1>7, <1>12, PageFacts

-----------------------------------------------------------------------------
(***************************************************************************)
(* selected_price orders the listings too, and so does the choice of the   *)
(* first of the lowest: Selected is always one of what was found.          *)
(***************************************************************************)
LEMMA Ratios ==
    ASSUME NEW a \in Nat, NEW b \in Nat, NEW c \in Nat,
           NEW u \in Nat, NEW v \in Nat, NEW w \in Nat, v >= 1,
           a * v <= b * u, b * w <= c * v
    PROVE  a * w <= c * u
<1>1. /\ a * v \in Nat /\ b * u \in Nat /\ b * w \in Nat /\ c * v \in Nat
      /\ a * w \in Nat /\ c * u \in Nat
  BY Z3
<1>2. (a * v) * w <= (b * u) * w /\ (b * w) * u <= (c * v) * u
  BY <1>1, Multiples
<1>3. /\ (a * v) * w = (a * w) * v /\ (b * u) * w = (b * w) * u
      /\ (c * v) * u = (c * u) * v
  BY Z3
<1>4. (a * w) * v <= (c * u) * v
  <2>1. (a * w) * v \in Nat /\ (b * w) * u \in Nat /\ (c * u) * v \in Nat
    BY <1>1, Z3
  <2> QED BY <1>2, <1>3, <2>1
<1>5. ASSUME c * u + 1 <= a * w PROVE FALSE
  <2>1. (c * u + 1) * v <= (a * w) * v
    BY <1>1, <1>5, Multiples
  <2>2. (c * u + 1) * v = (c * u) * v + v
    BY <1>1, Z3
  <2>3. (a * w) * v \in Nat /\ (c * u) * v \in Nat
    BY <1>1, Z3
  <2> QED BY <1>4, <2>1, <2>2, <2>3
<1> QED BY <1>1, <1>5

LEMMA UnitsType ==
    ASSUME NEW l \in Offers
    PROVE  /\ Units(l) \in Nat /\ Units(l) >= 1
           /\ Count(l) \in Nat /\ Count(l) >= 1
BY OfferTypes DEF Units, Count

LEMMA NotLower ==
    ASSUME NEW l \in Offers, NEW m \in Offers
    PROVE  /\ l.price * Units(m) \in Nat
           /\ ~Lower(m, l) <=> l.price * Units(m) <= m.price * Units(l)
           /\ Lower(l, m) => ~Lower(m, l)
<1>1. l.price * Units(m) \in Nat /\ m.price * Units(l) \in Nat
  BY OfferTypes, UnitsType, Z3
<1> QED BY <1>1 DEF Lower

LEMMA NotLowerIsTransitive ==
    ASSUME NEW l \in Offers, NEW m \in Offers, NEW n \in Offers, ~Lower(m, l), ~Lower(n, m)
    PROVE  ~Lower(n, l)
<1>1. l.price * Units(m) <= m.price * Units(l) /\ m.price * Units(n) <= n.price * Units(m)
  BY NotLower
<1>2. l.price * Units(n) <= n.price * Units(l)
  BY <1>1, OfferTypes, UnitsType, Ratios
<1> QED BY <1>2, NotLower

Better(l, m) == Lower(l, m) \/ (~Lower(m, l) /\ Before(l, m))

LEMMA SelectedIsBest ==
    ASSUME NEW found \in SUBSET Offers, found # {}
    PROVE  /\ Selected(found) \in found
           /\ \A m \in found : ~Lower(m, Selected(found))
<1> DEFINE R == {p \in Offers \X Offers : Better(p[1], p[2])}
<1>1. \A x, y \in Offers : <<x, y>> \in R <=> Better(x, y)
  OBVIOUS
<1> HIDE DEF R
<1>2. \A x, y \in found : x = y \/ <<x, y>> \in R \/ <<y, x>> \in R
  BY <1>1, BeforeIsOrder DEF Better
<1>3. ASSUME NEW x \in found, NEW y \in found, NEW z \in found,
             <<x, y>> \in R, <<y, z>> \in R
      PROVE  <<x, z>> \in R
  <2>1. Better(x, y) /\ Better(y, z)
    BY <1>1, <1>3
  <2>2. ~Lower(y, x) /\ ~Lower(z, y)
    BY <2>1, NotLower DEF Better
  <2>3. ~Lower(z, x)
    BY <2>2, NotLowerIsTransitive
  <2>4. ASSUME ~Lower(x, z) PROVE Before(x, z)
    <3>1. ~Lower(x, y) /\ ~Lower(y, z)
      BY <2>2, <2>4, NotLowerIsTransitive
    <3> QED BY <2>1, <3>1, BeforeIsOrder DEF Better
  <2> QED BY <1>1, <2>3, <2>4 DEF Better
<1>4. IsFiniteSet(found)
  BY RankFacts
<1>5. \E l \in found : \A m \in found \ {l} : <<l, m>> \in R
  BY <1>2, <1>3, <1>4, LeastElement
<1>6. \E l \in found : \A m \in found \ {l} : Lower(l, m) \/ (~Lower(m, l) /\ Before(l, m))
  BY <1>1, <1>5 DEF Better
<1>7. /\ Selected(found) \in found
      /\ \A m \in found \ {Selected(found)} :
            Lower(Selected(found), m) \/ ~Lower(m, Selected(found))
  BY <1>6 DEF Selected
<1> QED BY <1>7, NotLower

-----------------------------------------------------------------------------
(***************************************************************************)
(* The scan.  As long as nothing was sold, no listing of the item that was *)
(* there all the time has been passed by: added listings only push it on.  *)
(***************************************************************************)
Ahead ==
    status = "searching" /\ ~sold => \A l \in Sought(kept) : PageOf(l) >= page

SearchInv == TypeOK /\ Ahead /\ TotalIsLowest /\ PerItemWithinTotal

LEMMA PageOfIs == \A l : PageOf(l) = PageIn(auction, l)
BY DEF PageOf, Rank, PageIn, RankIn, Preceding

LEMMA SoughtFacts ==
    ASSUME TypeOK, NEW l \in Sought(kept)
    PROVE  l \in kept /\ l \in auction /\ l \in Offers /\ l.exact /\ l.valid
BY DEF TypeOK, Sought

LEMMA ReadPageInv ==
    ASSUME SearchInv, ReadPage
    PROVE  SearchInv'
<1> DEFINE results == {l \in auction : PageOf(l) = page}
           found == {l \in results : l.exact /\ l.valid}
<1>0. /\ auction \in SUBSET Offers /\ page \in Nat /\ page >= 1 /\ page <= MaxPages
      /\ MaxPages \in Nat /\ status = "searching" /\ TypeOK
      /\ UNCHANGED <<auction, price_type, kept, sold>>
  BY PagesAssumption DEF SearchInv, TypeOK, ReadPage
<1>1. found \in SUBSET Offers
  BY <1>0
<1>2. \A l : PageOf(l)' = PageOf(l)
  BY <1>0 DEF PageOf, Rank
<1>3. CASE ~(results = {} \/ found # {} \/ LastPage(page))
  <2>1. page' = page + 1 /\ page + 1 \in 1..MaxPages /\ UNCHANGED <<status, listing>>
    BY <1>0, <1>3 DEF ReadPage, LastPage
  <2>2. TypeOK'
    BY <1>0, <2>1 DEF TypeOK
  <2>3. Ahead'
    <3> SUFFICES ASSUME ~sold, NEW l \in Sought(kept) PROVE PageOf(l) >= page + 1
      BY <1>0, <1>2, <2>1 DEF Ahead, Sought
    <3>1. l \in auction /\ l.exact /\ l.valid
      BY <1>0, SoughtFacts
    <3>2. PageOf(l) >= page /\ PageOf(l) # page
      BY <1>0, <1>3, <3>1 DEF SearchInv, Ahead
    <3>3. PageOf(l) \in Nat
      BY <1>0, PageOfIs, PageFacts
    <3> QED BY <1>0, <3>2, <3>3
  <2> QED BY <1>0, <2>1, <2>2, <2>3 DEF SearchInv, TotalIsLowest, PerItemWithinTotal
<1>4. CASE results = {} \/ found # {} \/ LastPage(page)
  <2>1. status' = "done" /\ listing' = Selected(found) /\ page' = page
    BY <1>4 DEF ReadPage
  <2>2. found = {} => listing' = None
    BY <2>1 DEF Selected
  <2>3. found # {} => listing' \in found /\ \A m \in found : ~Lower(m, listing')
    BY <1>1, <2>1, SelectedIsBest
  <2>4. TypeOK'
    <3>1. listing' \in Offers \cup {None}
      BY <1>1, <2>2, <2>3
    <3> QED BY <1>0, <2>1, <3>1 DEF TypeOK
  <2>5. ASSUME ~sold, NEW l \in Sought(kept)
        PROVE  /\ l \in auction /\ l \in Offers /\ PageOf(l) \in Nat /\ PageOf(l) >= page
               /\ l \in found \/ PageOf(l) > page
    <3>1. l \in auction /\ l \in Offers /\ l.exact /\ l.valid
      BY <1>0, SoughtFacts
    <3>2. PageOf(l) >= page /\ PageOf(l) \in Nat
      BY <1>0, <2>5, PageOfIs, PageFacts DEF SearchInv, Ahead
    <3> QED BY <1>0, <3>1, <3>2
  <2>6. ASSUME ~sold, NEW l \in Sought(kept), found # {}, l \notin found
        PROVE  listing'.price <= l.price
    <3>1. listing' \in auction /\ listing' \in Offers /\ PageOf(listing') = page
      BY <1>0, <2>3, <2>6
    <3>2. l \in auction /\ l \in Offers /\ PageOf(l) > page /\ PageOf(l) \in Nat
      BY <2>5, <2>6
    <3>3. ~Before(l, listing') /\ l # listing'
      BY <1>0, <3>1, <3>2, PageGrows, PageOfIs
    <3>4. Before(listing', l)
      BY <3>1, <3>2, <3>3, BeforeIsOrder
    <3> QED BY <3>1, <3>2, <3>4, OfferTypes DEF Before
  <2>7. TotalIsLowest'
    <3> SUFFICES ASSUME price_type = "total", ~sold, NEW l \in Sought(kept)
                 PROVE  IF listing' = None THEN PageOf(l) > MaxPages
                        ELSE l.price * 1 >= listing'.price * 1
      <4> SUFFICES ASSUME price_type = "total", ~sold, NEW l \in Sought(kept)
                   PROVE  IF listing' = None THEN PageOf(l) > MaxPages
                          ELSE ~Lower(l, listing')
        <5>1. Sought(kept)' = Sought(kept)
          BY <1>0 DEF Sought
        <5>2. \A l : Lower(l, listing)' <=> Lower(l, listing')
          BY <1>0 DEF Lower, Units
        <5> HIDE DEF found, results
        <5> QED BY <1>0, <1>2, <5>1, <5>2 DEF TotalIsLowest
      <4>1. CASE listing' = None
        BY <4>1
      <4>2. CASE listing' # None
        <5>1. l \in Offers /\ listing' \in Offers
          BY <1>0, <2>4, <4>2, SoughtFacts DEF TypeOK
        <5>2. l.price \in Nat /\ listing'.price \in Nat
          BY <5>1, OfferTypes
        <5>3. Units(l) = 1 /\ Units(listing') = 1
          BY DEF Units
        <5>4. l.price * 1 >= listing'.price * 1
          BY <4>2
        <5> QED BY <4>2, <5>2, <5>3, <5>4 DEF Lower
      <4> QED BY <4>1, <4>2
    <3>1. CASE found = {}
      <4>1. listing' = None /\ PageOf(l) > page
        BY <2>2, <2>5, <3>1
      <4>2. results # {}
        <5>1. \E m \in auction : PageIn(auction, m) = page
          BY <1>0, <2>5, PagesAreFull, PageOfIs
        <5> QED BY <5>1, PageOfIs
      <4>3. page = MaxPages
        BY <1>4, <3>1, <4>2 DEF LastPage
      <4> QED BY <4>1, <4>3
    <3>2. CASE found # {}
      <4>1. listing' \in found /\ listing' \in Offers /\ listing' # None
        BY <1>1, <2>3, <3>2, OffersAssumption
      <4>2. l \in Offers /\ l.price \in Nat /\ listing'.price \in Nat
        BY <2>5, <4>1, OfferTypes
      <4>3. CASE l \in found
        <5>1. ~Lower(l, listing')
          BY <2>3, <3>2, <4>3
        <5>2. Units(l) = 1 /\ Units(listing') = 1
          BY DEF Units
        <5> QED BY <4>1, <4>2, <5>1, <5>2 DEF Lower
      <4>4. CASE l \notin found
        BY <2>6, <3>2, <4>1, <4>2, <4>4
      <4> QED BY <4>3, <4>4
    <3> QED BY <3>1, <3>2
  <2>8. PerItemWithinTotal'
    <3> SUFFICES ASSUME price_type = "per_item", ~sold, listing' # None, NEW l \in Sought(kept)
                 PROVE  listing'.price <= l.price * Count(listing')
      BY <1>0 DEF PerItemWithinTotal, Sought, Count
    <3>1. found # {} /\ listing' \in found /\ listing' \in Offers
      BY <1>1, <2>2, <2>3
    <3>2. /\ l \in Offers /\ l.price \in Nat /\ listing'.price \in Nat
          /\ Count(listing') \in Nat /\ Count(listing') >= 1
          /\ Count(l) \in Nat /\ Count(l) >= 1
      BY <2>5, <3>1, OfferTypes, UnitsType
    <3>3. CASE l \in found
      <4>1. ~Lower(l, listing')
        BY <2>3, <3>1, <3>3
      <4>2. Units(l) = Count(l) /\ Units(listing') = Count(listing')
        BY DEF Units
      <4>3. listing'.price * Count(l) <= l.price * Count(listing')
        BY <3>1, <3>2, <4>1, <4>2, NotLower
      <4>4. listing'.price * 1 <= listing'.price * Count(l)
        <5>1. /\ 1 * listing'.price <= Count(l) * listing'.price
          BY <3>2, Multiples
        <5>2. Count(l) * listing'.price = listing'.price * Count(l)
          BY <3>2, Z3
        <5> QED BY <3>2, <5>1, <5>2
      <4>5. listing'.price * Count(l) \in Nat /\ l.price * Count(listing') \in Nat
        BY <3>2, Z3
      <4> QED BY <3>2, <4>3, <4>4, <4>5
    <3>4. CASE l \notin found
      <4>1. listing'.price <= l.price
        BY <2>6, <3>1, <3>4
      <4>2. 1 * l.price <= Count(listing') * l.price
        BY <3>2, Multiples
      <4>3. Count(listing') * l.price = l.price * Count(listing')
            /\ l.price * Count(listing') \in Nat
        BY <3>2, Z3
      <4> QED BY <3>2, <4>1, <4>2, <4>3
    <3> QED BY <3>3, <3>4
  <2> QED BY <2>1, <2>4, <2>7, <2>8 DEF SearchInv, Ahead
<1> QED BY <1>3, <1>4

LEMMA NextSearch == SearchInv /\ [Next]_vars => SearchInv'
<1> SUFFICES ASSUME SearchInv, [Next]_vars PROVE SearchInv'
  OBVIOUS
<1>0. TypeOK /\ MaxPages \in Nat /\ MaxPages >= 1
  BY PagesAssumption DEF SearchInv
<1>1. CASE Begin
  <2>1. /\ status' = "searching" /\ page' = 1 /\ 1 \in 1..MaxPages /\ TypeOK'
    <3>1. 1 \in 1..MaxPages
      BY <1>0
    <3> QED BY <1>1, <3>1 DEF Begin, TypeOK
  <2>2. \A l : PageOf(l)' = PageIn(auction', l)
    BY DEF PageOf, Rank, PageIn, RankIn, Preceding
  <2>3. auction' \in SUBSET Offers
    BY <1>1 DEF Begin
  <2>4. \A l : PageOf(l)' >= 1
    BY <2>2, <2>3, PageFacts
  <2> QED BY <2>1, <2>4 DEF SearchInv, Ahead, TotalIsLowest, PerItemWithinTotal
<1>2. CASE ReadPage
  BY <1>2, ReadPageInv
<1>3. CASE Raise
  BY <1>3 DEF Raise, SearchInv, TypeOK, Ahead, TotalIsLowest, PerItemWithinTotal
<1>4. ASSUME NEW l \in Offers, Offer(l) PROVE SearchInv'
  <2>1. TypeOK' /\ status' = "searching" /\ UNCHANGED <<page, kept, sold, status>>
    BY <1>0, <1>4 DEF Offer, TypeOK
  <2>2. auction \in SUBSET Offers /\ auction' \in SUBSET Offers /\ auction \subseteq auction'
    BY <1>0, <1>4 DEF Offer, TypeOK
  <2>3. \A m : PageOf(m)' = PageIn(auction', m)
    BY DEF PageOf, Rank, PageIn, RankIn, Preceding
  <2>4. \A m : PageOf(m) <= PageOf(m)' /\ PageOf(m) \in Nat /\ PageOf(m)' \in Nat
    BY <2>2, <2>3, PageOfIs, PageKept, PageFacts
  <2>5. page \in Nat
    BY <1>0 DEF TypeOK
  <2>6. Ahead'
    BY <2>1, <2>4, <2>5 DEF SearchInv, Ahead, Sought
  <2> QED BY <2>1, <2>6 DEF SearchInv, TotalIsLowest, PerItemWithinTotal
<1>5. ASSUME NEW l \in Offers, Sell(l) PROVE SearchInv'
  BY <1>0, <1>5 DEF Sell, SearchInv, TypeOK, Ahead, TotalIsLowest, PerItemWithinTotal
<1>6. CASE UNCHANGED vars
  BY <1>6 DEF vars, SearchInv, TypeOK, Ahead, TotalIsLowest, PerItemWithinTotal, Sought,
              PageOf, Rank, Lower, Units, Count
<1> QED BY <1>1, <1>2, <1>3, <1>4, <1>5, <1>6 DEF Next

LEMMA InitSearch == Init => SearchInv
<1> SUFFICES ASSUME Init PROVE SearchInv
  OBVIOUS
<1>1. 1 \in 1..MaxPages
  BY PagesAssumption
<1>2. TypeOK
  BY <1>1 DEF Init, TypeOK, PriceTypes
<1>3. status = "raised"
  BY DEF Init
<1> QED BY <1>2, <1>3 DEF SearchInv, Ahead, TotalIsLowest, PerItemWithinTotal

\* get_price never asks for more than max_search_pages pages, and what it
\* returns is a listing.
THEOREM TypeCorrect == Spec => []TypeOK
<1>1. SearchInv => TypeOK
  BY DEF SearchInv
<1> QED BY <1>1, InitSearch, NextSearch, PTL DEF Spec

\* The first page that shows the item shows its lowest whole price, for any
\* auction, page size and number of pages, as long as nothing was sold.
THEOREM TotalIsAlwaysLowest == Spec => []TotalIsLowest
<1>1. SearchInv => TotalIsLowest
  BY DEF SearchInv
<1> QED BY <1>1, InitSearch, NextSearch, PTL DEF Spec

\* A price per item is within the whole price of every listing of the item.
THEOREM PerItemIsWithinTotal == Spec => []PerItemWithinTotal
<1>1. SearchInv => PerItemWithinTotal
  BY DEF SearchInv
<1> QED BY <1>1, InitSearch, NextSearch, PTL DEF Spec

=============================================================================

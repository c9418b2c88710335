--------------------------- MODULE MCPriceSearch ---------------------------
(***************************************************************************)
(* Listings on pages of two, of which two may be searched: three of the    *)
(* item (one with no count, and a stack that is dear but the cheapest by   *)
(* the unit), four cheaper ones in their way (three of similar items and   *)
(* one malformed), which fill both pages when all are on sale.             *)
(***************************************************************************)
EXTENDS PriceSearch

Item(id, price, count) ==
    [id |-> id, exact |-> TRUE, valid |-> TRUE, price |-> price, count |-> count]

Similar(id, price) == [Item(id, price, 1) EXCEPT !.exact = FALSE]

MCOffers ==
    {Item(1, 4, 1), Item(2, 6, 0), Item(3, 8, 4),
     Similar(4, 1), Similar(5, 2), Similar(6, 3),
     [Item(7, 3, 1) EXCEPT !.valid = FALSE]}

=============================================================================

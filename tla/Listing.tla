------------------------------ MODULE Listing -------------------------------
(***************************************************************************)
(* How a library of a media server is listed page by page while the server *)
(* changes it: AllItems of src/internal/integrations/plex/library.go, and  *)
(* listRows of src/internal/integrations/jellyfin/library.go.              *)
(*                                                                         *)
(* The server keeps the rows of the library in an order; a page is cut out *)
(* of that order when it is asked for.  What a row says is left out.       *)
(***************************************************************************)
EXTENDS Integers, FiniteSets, SequencesExt

CONSTANTS
    Shelved,        \* rows of the library at first
    Arriving,       \* rows that may arrive
    AskedRows,      \* pageSize
    MaxListed,      \* maxListedItems, maxListedRows
    MaxWithdrawn,   \* rows that may leave
    MaxFailures     \* requests that may fail

\* A row that arrives has a key of its own.
ASSUME ListingAssumption ==
    IsFiniteSet(Shelved) /\ IsFiniteSet(Arriving) /\ Shelved \cap Arriving = {} /\ AskedRows \in Nat

VARIABLES
    server,     \* [kind, totals, cap]: its kind, whether it reports totals, rows per page it gives at most
    shelf,      \* the rows in order
    page,       \* [at, start, total, again]: "idle", "next", "whole" or "failed"
    rowsShown,      \* rows listed so far
    stayed,     \* rows on the shelf ever since the listing began
    came, left, failures

listingVars == <<server, shelf, page, rowsShown, stayed, came, left, failures>>
worldVars == <<server, shelf, stayed, came, left>>

Least2(a, b) == IF a < b THEN a ELSE b
Most2(a, b) == IF a > b THEN a ELSE b
Fail == page' = [page EXCEPT !.at = "failed"] /\ UNCHANGED rowsShown
Whole(rows) == page' = [page EXCEPT !.at = "whole"] /\ rowsShown' = rows

\* The rows the server cuts out at the offset.
cutOut == SubSeq(shelf, page.start + 1, Least2(Len(shelf), page.start + Least2(AskedRows, server.cap)))
containerTotal == IF server.totals THEN Len(shelf) ELSE -1

-----------------------------------------------------------------------------
(* Listing                                                                  *)

StartListing ==
    /\ page.at = "idle" /\ page' = [page EXCEPT !.at = "next"]
    /\ stayed' = Range(shelf)
    /\ UNCHANGED <<server, shelf, rowsShown, came, left, failures>>

\* getJSON: a request that fails is repeated once.
getJSON ==
    /\ page.at = "next" /\ failures < MaxFailures /\ failures' = failures + 1
    /\ page' = IF page.again THEN [page EXCEPT !.at = "failed"] ELSE [page EXCEPT !.again = TRUE]
    /\ UNCHANGED rowsShown /\ UNCHANGED worldVars

\* As if only the first total counted.
firstTotal(end, total) == IF page.total >= 0 THEN page.total ELSE total

\* A total that the offset has passed says nothing.
usableTotal(end, total) == IF total < end THEN -1 ELSE total

overrunTotal(end, total) == Most2(page.total, total) >= 0 /\ end > 2 * Most2(page.total, total) + 10 * AskedRows

\* An empty page ends the listing, unless the total says otherwise; a server
\* in trouble may give one too early.
PlexEmptyPage(early) ==
    /\ page.at = "next" /\ server.kind = "plex" /\ (cutOut = <<>>) = ~early
    /\ early => server.totals /\ failures < MaxFailures
    /\ failures' = IF early THEN failures + 1 ELSE failures
    /\ IF containerTotal > page.start THEN Fail ELSE Whole(rowsShown)
    /\ UNCHANGED worldVars

\* Rows that were seen before are dropped: the library may change meanwhile.
PlexPage ==
    /\ page.at = "next" /\ server.kind = "plex" /\ cutOut # <<>>
    /\ LET rows == Range(cutOut)
           end == page.start + Len(cutOut)
           total == usableTotal(end, containerTotal)
       IN \/ overrunTotal(end, containerTotal) /\ Fail
          \/ ~overrunTotal(end, containerTotal) /\ total >= 0 /\ end >= total /\ Whole(rowsShown \cup rows)
          \/ ~overrunTotal(end, containerTotal) /\ ~(total >= 0 /\ end >= total) /\ rows \subseteq rowsShown
             /\ IF total < 0 THEN Whole(rowsShown) ELSE Fail
          \/ /\ ~overrunTotal(end, containerTotal) /\ ~(total >= 0 /\ end >= total) /\ ~(rows \subseteq rowsShown)
             /\ IF end > MaxListed THEN Fail
                ELSE /\ page' = [page EXCEPT !.start = end, !.total = Most2(@, containerTotal), !.again = FALSE]
                     /\ rowsShown' = rowsShown \cup rows
    /\ UNCHANGED failures /\ UNCHANGED worldVars

\* The total may not change from the first page to the last.
sameTotal == page.total < 0 \/ page.total = Len(shelf)

\* No page is short or empty before the total, no row comes twice, and the
\* rows are as many as the total.
listRows ==
    /\ page.at = "next" /\ server.kind = "jellyfin"
    /\ LET rows == Range(cutOut)
           n == Len(cutOut)
           end == page.start + n
           total == IF page.total < 0 THEN containerTotal ELSE page.total
       IN IF containerTotal < 0 \/ ~sameTotal THEN Fail
          ELSE IF page.start >= total THEN (IF n # 0 THEN Fail ELSE Whole(rowsShown))
          ELSE IF \/ n = 0 \/ (n < AskedRows /\ end < total)
                  \/ rows \cap rowsShown # {} \/ end > MaxListed
               THEN Fail
          ELSE IF end < total
               THEN page' = [page EXCEPT !.start = end, !.total = total, !.again = FALSE] /\ rowsShown' = rowsShown \cup rows
          ELSE IF Cardinality(rowsShown \cup rows) # total THEN Fail ELSE Whole(rowsShown \cup rows)
    /\ UNCHANGED failures /\ UNCHANGED worldVars

-----------------------------------------------------------------------------
(* The server changes the library: a row arrives anywhere, or leaves        *)

RowArrives(k) ==
    /\ page.at = "next" /\ Cardinality(came) < Cardinality(Arriving)
    /\ LET r == CHOOSE x \in Arriving : x \notin came
       IN shelf' = InsertAt(shelf, k, r) /\ came' = came \cup {r}
    /\ UNCHANGED <<server, page, rowsShown, stayed, left, failures>>

RowLeaves(k) ==
    /\ page.at = "next" /\ left < MaxWithdrawn /\ left' = left + 1
    /\ shelf' = RemoveAt(shelf, k) /\ stayed' = stayed \ {shelf[k]}
    /\ UNCHANGED <<server, page, rowsShown, came, failures>>

ListingInit ==
    /\ server \in [kind: {"plex"}, totals: BOOLEAN, cap: 1 .. AskedRows] \cup
                  [kind: {"jellyfin"}, totals: BOOLEAN, cap: 1 .. AskedRows]
    /\ shelf = SetToSeq(Shelved)
    /\ page = [at |-> "idle", start |-> 0, total |-> -1, again |-> FALSE]
    /\ rowsShown = {} /\ stayed = {} /\ came = {} /\ left = 0 /\ failures = 0

-----------------------------------------------------------------------------
(* A listing that is taken for complete has every row that was in the      *)
(* library from its first page to its last, whatever the server puts on a  *)
(* page and whatever arrives meanwhile: a title that is still there is not *)
(* resolved as gone.  Rows that leave while a Plex server is listed, an    *)
(* arrival at one that reports no totals, and a row that leaves a Jellyfin *)
(* library while another arrives are not covered (AllItems, listRows).     *)
ListedWhole ==
    page.at = "whole" =>
        \/ stayed \subseteq rowsShown
        \/ server.kind = "plex" /\ (left > 0 \/ (~server.totals /\ came # {}))
        \/ server.kind = "jellyfin" /\ left > 0 /\ came # {}
=============================================================================

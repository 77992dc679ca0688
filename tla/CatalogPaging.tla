---------------------------- MODULE CatalogPaging ----------------------------
(***************************************************************************)
(* The portal scrolls through the catalog: GET /api/v1/catalog and         *)
(* /catalog/search (internal/catalog/handler.go), each of which fans out   *)
(* to several pages of the upstream's list to fill one page without        *)
(* duplicate editions (ListBooksDeduped and ListBooks of                   *)
(* internal/bookwarehouse/catalog.go), while books come to the upstream    *)
(* library and go; or it scrolls through the genres, GET /browse/genres,   *)
(* a page of which is a page of the upstream's (ListGenres of browse.go).  *)
(*                                                                         *)
(* A cursor is the number of an upstream page, 0 the empty cursor; an      *)
(* edition is abstracted to its identity and the work it is of (title,     *)
(* author, series and index, normalised); the rows of the list of genres   *)
(* are taken from the same set.  A request for another library, which is   *)
(* answered with an empty page, and a cursor that is no page number do not *)
(* occur: the portal returns the cursors it was given.                     *)
(* Filters, sort and order do not change during a scroll.                  *)
(***************************************************************************)
EXTENDS Naturals, Sequences, FiniteSets, SequencesExt

CONSTANTS
    Editions,     \* upstream rows
    Lists,        \* "books", "genres"
    ReadsCursor,  \* whether the upstream reads `cursor` when asked for genres
    Echoing,      \* whether an upstream answer has the number of its page
    Work, NoTitle,  \* edition -> the work it is of, NoTitle if it has no title
    Libraries,    \* initial contents of the upstream, in the order of its list
    Limits,       \* what the portal asks for, 0 for no limit
    maxCatalogLimit, DefaultTarget, UpstreamPage,  \* 100, 50 and the upstream's
    Counting,     \* whether an upstream answer has total_pages
    maxFanout,
    MaxBooks, MaxFaults

ASSUME CatalogAssumption ==
    /\ DOMAIN Work = Editions /\ Range(Work) \cap Editions = {}
    /\ Libraries \subseteq Seq(Editions)
    /\ \A l \in Libraries : IsInjective(l)
    /\ Lists \subseteq {"books", "genres"} 
    /\ ReadsCursor \subseteq BOOLEAN /\ Echoing \subseteq BOOLEAN
ASSUME PagingAssumption ==
    /\ {maxCatalogLimit, DefaultTarget, UpstreamPage, maxFanout} \subseteq Nat \ {0}
    /\ Limits \subseteq Nat /\ Counting \subseteq BOOLEAN
    /\ MaxBooks \in Nat /\ MaxFaults \in Nat

VARIABLES
    lib,      \* the upstream's list
    portal,   \* list, limit and cursor of the scroll, the page shown last, all shown
    call,     \* the handler's call of ListBooksDeduped or ListGenres
    faults,   \* failed calls and removed books so far
    since,    \* history: editions in the list ever since the scroll began
    steady    \* history: no edition was removed, and no answer to a request
              \*          without limit, or for genres, was without total_pages

vars == <<lib, portal, call, faults, since, steady>>

-----------------------------------------------------------------------------
clampLimit(n, def) ==
    IF n = 0 THEN def ELSE IF n > maxCatalogLimit THEN maxCatalogLimit ELSE n

Target(limit) == IF limit = 0 THEN DefaultTarget ELSE limit

(* A faulty variant: every edition is a card of its own.                   *)
EditionKey(b) == b

(* The key under which ListBooksDeduped has seen a book.                   *)
dedupKey(b) == IF Work[b] = NoTitle THEN b ELSE Work[b]

(* A faulty variant: nothing is shown twice in one scroll.                 *)
SeenBefore(items, b) ==
    \E s \in Range(items) \cup portal.shown : dedupKey(s) = dedupKey(b)

(* What this fan-out has already put on the page; what earlier requests    *)
(* did is not remembered.                                                  *)
Seen(items, b) == \E i \in DOMAIN items : dedupKey(items[i]) = dedupKey(b)

Rank(S, i) == Cardinality({j \in S : j <= i})
Nth(S, k) == CHOOSE i \in S : Rank(S, i) = k

(* The places of a page that are not skipped: the key is new, to the       *)
(* fan-out and to the page.                                                *)
Fresh(items, page) ==
    {i \in DOMAIN page :
       /\ ~Seen(items, page[i])
       /\ \A j \in 1..i - 1 : dedupKey(page[j]) # dedupKey(page[i])}

Deduped(items, page) ==
    LET new == Fresh(items, page)
    IN  items \o [k \in 1..Cardinality(new) |-> page[Nth(new, k)]]

(* The upstream's page n, of limit books or of its own default.            *)
PageSize(limit) == IF limit = 0 THEN UpstreamPage ELSE limit
TotalPages(limit) == (Len(lib) + PageSize(limit) - 1) \div PageSize(limit)
Page(n, limit) ==
    LET last == n * PageSize(limit)
    IN  SubSeq(lib, last - PageSize(limit) + 1, IF last < Len(lib) THEN last ELSE Len(lib))

Requested(cursor) == IF cursor = 0 THEN 1 ELSE cursor

(* A faulty variant: the page is the one the upstream echoes, which may    *)
(* be 0.                                                                   *)
EchoedCursor(n, limit, counted) ==
    IF counted /\ TotalPages(limit) > 0
    THEN IF n < TotalPages(limit) THEN 1 ELSE 0
    ELSE IF limit > 0 /\ Len(Page(n, limit)) >= limit THEN n + 1 ELSE 0

(* A faulty variant: the last page is forgotten.                           *)
NextCursorShort(n, limit, counted) ==
    IF counted /\ TotalPages(limit) > 0
    THEN IF n + 1 < TotalPages(limit) THEN n + 1 ELSE 0
    ELSE IF limit > 0 /\ Len(Page(n, limit)) >= limit THEN n + 1 ELSE 0

(* The cursor after page n: by total_pages if the answer has it, else a    *)
(* full page means that there is another one.                              *)
NextCursor(n, limit, counted) ==
    IF counted /\ TotalPages(limit) > 0
    THEN IF n < TotalPages(limit) THEN n + 1 ELSE 0
    ELSE IF limit > 0 /\ Len(Page(n, limit)) >= limit THEN n + 1 ELSE 0

(* The genres are asked for by `cursor`, which the upstream may not read.  *)
GenrePage(cursor, reads) == IF reads THEN Requested(cursor) ELSE 1

(* The next page of genres is one after the page that the upstream echoes, *)
(* which is 0 if the answer has none.                                      *)
NextGenres(echoed, limit, counted) ==
    IF counted /\ echoed < TotalPages(limit) THEN echoed + 1 ELSE 0

IdleCall == [active |-> FALSE, cursor |-> 0, limit |-> 0, left |-> 0, items |-> <<>>]

-----------------------------------------------------------------------------
(* The portal asks for the page after the one it shows.                    *)
List ==
    /\ ~call.active /\ ~portal.done
    /\ call' = [active |-> TRUE, cursor |-> portal.cursor,
                limit |-> clampLimit(portal.limit,
                            IF portal.list = "genres" THEN DefaultTarget ELSE 0),
                left |-> maxFanout, items |-> <<>>]
    /\ UNCHANGED <<lib, portal, faults, since, steady>>

Shown(items, next) ==
    /\ portal' = [portal EXCEPT !.cursor = next, !.done = next = 0,
                    !.page = items, !.shown = @ \cup Range(items)]
    /\ call' = IdleCall

(* ListBooks, and the answer if the page is filled, the list exhausted or  *)
(* the fan-out used up.                                                    *)
ListBooks ==
    /\ call.active /\ portal.list = "books"
    /\ \E counted \in Counting :
         LET n == Requested(call.cursor)
             items == Deduped(call.items, Page(n, call.limit))
             next == NextCursor(n, call.limit, counted)
         IN  /\ IF Len(items) >= Target(call.limit) \/ next = 0 \/ call.left = 1
                THEN Shown(items, next)
                ELSE /\ call' = [call EXCEPT !.cursor = next, !.left = @ - 1, !.items = items]
                     /\ UNCHANGED portal
             /\ steady' = (steady /\ (counted \/ call.limit > 0))
    /\ UNCHANGED <<lib, faults, since>>

ListGenres ==
    /\ call.active /\ portal.list = "genres"
    /\ \E counted \in Counting, reads \in ReadsCursor, echoes \in Echoing :
         LET n == GenrePage(call.cursor, reads)
             echoed == IF echoes THEN n ELSE 0
         IN  /\ Shown(Page(n, call.limit), NextGenres(echoed, call.limit, counted))
             /\ steady' = (steady /\ counted)
    /\ UNCHANGED <<lib, faults, since>>

(* One failed upstream call is the failure of the whole request.           *)
ListFails ==
    /\ call.active
    /\ faults < MaxFaults /\ faults' = faults + 1
    /\ call' = IdleCall
    /\ UNCHANGED <<lib, portal, since, steady>>

(* The upstream imports or deletes a book, anywhere in the list; what      *)
(* happens after the scroll is of no interest.                             *)
AddEdition(e) ==
    /\ e \notin Range(lib) /\ Len(lib) < MaxBooks /\ ~portal.done
    /\ \E i \in 1..Len(lib) + 1 : lib' = InsertAt(lib, i, e)
    /\ UNCHANGED <<portal, call, faults, since, steady>>

RemoveEdition(e) ==
    /\ e \in Range(lib) /\ ~portal.done
    /\ faults < MaxFaults /\ faults' = faults + 1
    /\ \E i \in DOMAIN lib : lib[i] = e /\ lib' = RemoveAt(lib, i)
    /\ since' = since \ {e}
    /\ steady' = FALSE
    /\ UNCHANGED <<portal, call>>

-----------------------------------------------------------------------------
Init ==
    /\ lib \in Libraries
    /\ \E limit \in Limits, list \in Lists :
         portal = [list |-> list, limit |-> limit, cursor |-> 0, done |-> FALSE,
                   page |-> <<>>, shown |-> {}]
    /\ call = IdleCall
    /\ faults = 0
    /\ since = Range(lib)
    /\ steady = TRUE

Next == \/ List \/ ListBooks \/ ListGenres \/ ListFails
        \/ \E e \in Editions : AddEdition(e) \/ RemoveEdition(e)

Spec == Init /\ [][Next]_vars

(* The portal scrolls on, and an upstream call ends.                       *)
FairSpec == Spec /\ WF_vars(List) /\ WF_vars(ListBooks \/ ListGenres)

-----------------------------------------------------------------------------
(* Properties *)

SameWork(b, c) ==
    b = c \/ (portal.list = "books" /\ Work[b] = Work[c] /\ Work[b] # NoTitle)

(* A page shows one card per work, whatever editions the upstream has      *)
(* (catalog.go:82-87).                                                     *)
OneCardPerWork ==
    \A i, j \in DOMAIN portal.page :
        SameWork(portal.page[i], portal.page[j]) => i = j

(* At the end of a scroll every work, or genre, has been shown that was in *)
(* the list all the time, even if books were added meanwhile: neither the   *)
(* fan-out nor the page numbers leave a gap.  A row that is removed, and   *)
(* an upstream that does not report total_pages to a request without limit *)
(* or for genres, void this.                                               *)
NothingSkipped ==
    portal.done /\ steady =>
        \A e \in since : \E s \in portal.shown : SameWork(e, s)

(* handler.go:124-128: a page of books that is not the last one is never   *)
(* empty, or the portal's observer would fire for ever.                    *)
NoBlankPage ==
    portal.list = "books" /\ portal.cursor # 0 => portal.page # <<>>

(* catalog.go:206-209: a cursor of the books never leads back to a page    *)
(* that was asked for before, whatever is added or removed.                *)
CursorsGoOn ==
    [][portal.list = "books" =>
         portal'.cursor = 0 \/ portal'.cursor > portal.cursor]_portal

(* A scroll through the books comes to its end (catalog.go:206-209).       *)
ScrollEnds == portal.list = "books" ~> portal.done

(* What the same comment asks of a cursor, of the genres: a scroll comes   *)
(* to its end also if the answers have page 0, or none.                    *)
GenreScrollEnds == portal.list = "genres" ~> portal.done
=============================================================================

------------------------- MODULE CatalogPagingProofs -------------------------
(***************************************************************************)
(* Proofs about CatalogPaging, for any set of editions and works, any      *)
(* lists, limits and page sizes, any fan-out and any number of books that  *)
(* come and go.                                                            *)
(***************************************************************************)
EXTENDS CatalogPaging, FiniteSetTheorems, SequenceTheorems, TLAPS

(* The limit and the upstream's page size of every call of one scroll.     *)
CallLimit ==
    clampLimit(portal.limit, IF portal.list = "genres" THEN DefaultTarget ELSE 0)
PageLen == PageSize(CallLimit)

OneCardEach(items) ==
    \A i, j \in DOMAIN items : dedupKey(items[i]) = dedupKey(items[j]) => i = j

(* How much of the list the pages before a cursor cover.                   *)
Behind(cursor) == (Requested(cursor) - 1) * PageLen

(* What those pages hold has been shown, or is on the page being filled:   *)
(* the page to ask for next leaves no gap.                                 *)
IsShown(e, items) == \E s \in portal.shown \cup Range(items) : SameWork(e, s)
PassedAreShown(cursor, items) ==
    \A i \in DOMAIN lib : i <= Behind(cursor) /\ lib[i] \in since => IsShown(lib[i], items)

ScrollTypes ==
    /\ lib \in Seq(Editions) /\ IsInjective(lib)
    /\ portal \in [list : Lists, limit : Limits, cursor : Nat, done : BOOLEAN,
                   page : Seq(Editions), shown : SUBSET Editions]
    /\ call \in [active : BOOLEAN, cursor : Nat, limit : Nat, left : Nat,
                 items : Seq(Editions)]
    /\ since \subseteq Editions /\ steady \in BOOLEAN

CallOfScroll ==
    call.active =>
        /\ ~portal.done /\ call.limit = CallLimit /\ call.left # 0
        /\ portal.cursor <= call.cursor
        /\ OneCardEach(call.items)
        /\ portal.list = "genres" => call.items = <<>>

NoGap ==
    steady /\ ~portal.done =>
        /\ since \subseteq Range(lib)
        /\ PassedAreShown(portal.cursor, <<>>)
        /\ call.active => PassedAreShown(call.cursor, call.items)

PagingInv ==
    /\ ScrollTypes /\ CallOfScroll /\ NoGap
    /\ OneCardPerWork /\ NothingSkipped /\ NoBlankPage

-----------------------------------------------------------------------------
(* Operators *)

(* The k-th of a set of places exists, and every place is the k-th for one *)
(* k: Nth numbers the set.                                                 *)
LEMMA Numbered ==
    ASSUME NEW n \in Nat, NEW S, S \subseteq 1..n
    PROVE  /\ IsFiniteSet(S) /\ Cardinality(S) \in Nat
           /\ \A k \in 1..Cardinality(S) : Nth(S, k) \in S /\ Rank(S, Nth(S, k)) = k
           /\ \A i \in S : Rank(S, i) \in 1..Cardinality(S) /\ Nth(S, Rank(S, i)) = i
  <1> DEFINE c == Cardinality(S)
             Upto(i) == {j \in S : j <= i}
             f == [i \in S |-> Rank(S, i)]
  <1>0. \A i \in S : i \in Int
    OBVIOUS
  <1>1. IsFiniteSet(S) /\ c \in Nat
    <2>1. IsFiniteSet(1..n) /\ S \in SUBSET (1..n)
      BY FS_Interval
    <2>2. IsFiniteSet(S)
      BY <2>1, FS_Subset
    <2> QED
      BY <2>2, FS_CardinalityType
  <1>2. ASSUME NEW i \in S
        PROVE  /\ IsFiniteSet(Upto(i)) /\ Cardinality(Upto(i)) \in 1..c
               /\ Rank(S, i) = Cardinality(Upto(i))
    <2>1. Upto(i) \in SUBSET S /\ i \in Upto(i)
      OBVIOUS
    <2>2. IsFiniteSet(Upto(i)) /\ Cardinality(Upto(i)) <= c
      BY <1>1, <2>1, FS_Subset
    <2>3. Cardinality(Upto(i)) \in Nat /\ Cardinality(Upto(i)) # 0
      BY <2>1, <2>2, FS_EmptySet, FS_CardinalityType
    <2> QED
      BY <1>1, <2>2, <2>3 DEF Rank
  <1>3. ASSUME NEW i \in S, NEW j \in S, i < j PROVE Rank(S, i) # Rank(S, j)
    <2>0. i \in Int /\ j \in Int
      BY <1>0
    <2>1. Upto(i) \in SUBSET Upto(j) /\ j \in Upto(j) /\ j \notin Upto(i)
      <3>1. \A x \in S : x <= i => x <= j
        BY <1>0, <1>3, <2>0
      <3>2. j <= j /\ ~(j <= i)
        BY <1>3, <2>0
      <3> QED
        BY <3>1, <3>2
    <2>2. Cardinality(Upto(j)) # Cardinality(Upto(i))
      BY <1>2, <2>1, FS_Subset
    <2> QED
      BY <1>2, <2>2
  <1>4. f \in Injection(S, 1..c)
    <2>1. f \in [S -> 1..c]
      BY <1>2
    <2>2. ASSUME NEW i \in S, NEW j \in S, f[i] = f[j] PROVE i = j
      <3>1. ~(i < j) /\ ~(j < i)
        BY <1>3, <2>2
      <3> QED
        BY <3>1
    <2> QED
      BY <2>1, <2>2 DEF Injection, IsInjective
  <1>5. f \in Surjection(S, 1..c)
    <2>1. IsFiniteSet(1..c) /\ Cardinality(1..c) = c
      BY <1>1, FS_Interval
    <2> QED
      BY <1>4, <2>1, FS_Injection
  <1>6. \A k \in 1..c : \E i \in S : Rank(S, i) = k
    BY <1>5 DEF Surjection
  <1>7. \A k \in 1..c : Nth(S, k) \in S /\ Rank(S, Nth(S, k)) = k
    BY <1>6 DEF Nth
  <1>8. ASSUME NEW i \in S PROVE Rank(S, i) \in 1..c /\ Nth(S, Rank(S, i)) = i
    <2>1. Rank(S, i) \in 1..c
      BY <1>2
    <2>2. Nth(S, Rank(S, i)) \in S /\ Rank(S, Nth(S, Rank(S, i))) = Rank(S, i)
      BY <1>7, <2>1
    <2> QED
      BY <1>4, <2>1, <2>2 DEF Injection, IsInjective
  <1> QED
    BY <1>1, <1>7, <1>8

(* Two editions are of one work if they have one key.                      *)
LEMMA KeysAreWorks ==
    ASSUME NEW b \in Editions, NEW c \in Editions
    PROVE  /\ SameWork(b, c) => dedupKey(b) = dedupKey(c)
           /\ dedupKey(b) = dedupKey(c) =>
                b = c \/ (Work[b] = Work[c] /\ Work[b] # NoTitle)
  <1>1. Work[b] \in Range(Work) /\ Work[c] \in Range(Work)
    BY CatalogAssumption DEF Range
  <1> QED
    BY <1>1, CatalogAssumption DEF SameWork, dedupKey

(* Deduplication keeps what the page held, adds what is new, one edition   *)
(* of each work, and shows an edition of every work of the new page.       *)
LEMMA DedupedPage ==
    ASSUME NEW items \in Seq(Editions), NEW page \in Seq(Editions)
    PROVE  /\ Deduped(items, page) \in Seq(Editions)
           /\ OneCardEach(items) => OneCardEach(Deduped(items, page))
           /\ Range(items) \subseteq Range(Deduped(items, page))
           /\ \A i \in DOMAIN page : \E s \in Range(Deduped(items, page)) :
                 dedupKey(s) = dedupKey(page[i])
  <1> DEFINE new == Fresh(items, page)
             more == [k \in 1..Cardinality(new) |-> page[Nth(new, k)]]
             all == items \o more
  <1>1. new \subseteq 1..Len(page) /\ Len(page) \in Nat
    BY DEF Fresh
  <1>2. /\ Cardinality(new) \in Nat
        /\ \A k \in 1..Cardinality(new) : Nth(new, k) \in new /\ Rank(new, Nth(new, k)) = k
        /\ \A i \in new : Rank(new, i) \in 1..Cardinality(new) /\ Nth(new, Rank(new, i)) = i
    BY <1>1, Numbered
  <1>3. more \in Seq(Editions) /\ Len(more) = Cardinality(new)
    BY <1>1, <1>2
  <1>n. /\ \A i \in new : ~Seen(items, page[i]) /\ i \in Int
        /\ \A i, j \in new : i < j => dedupKey(page[i]) # dedupKey(page[j])
    <2>1. ASSUME NEW i \in new, NEW j \in new, i < j
          PROVE  dedupKey(page[i]) # dedupKey(page[j])
      <3>1. i \in 1..j - 1
        BY <1>1, <2>1
      <3> QED
        BY <2>1, <3>1 DEF Fresh
    <2> QED
      BY <1>1, <2>1 DEF Fresh
  <1> HIDE DEF new, more
  <1>4. /\ all \in Seq(Editions) /\ Len(all) = Len(items) + Len(more)
        /\ \A i \in 1..Len(items) + Len(more) :
             all[i] = IF i <= Len(items) THEN items[i] ELSE more[i - Len(items)]
    BY <1>3, ConcatProperties
  <1>5. Deduped(items, page) = all
    BY DEF Deduped, new, more
  <1>6. \A k \in 1..Len(more) : more[k] = page[Nth(new, k)]
    BY <1>3 DEF more
  <1> HIDE DEF all
  <1>l. Len(items) \in Nat /\ Len(more) \in Nat
    BY <1>3
  <1>7. ASSUME OneCardEach(items) PROVE OneCardEach(all)
    <2>1. \A i \in 1..Len(items), k \in 1..Len(more) : dedupKey(items[i]) # dedupKey(more[k])
      BY <1>2, <1>3, <1>6, <1>n DEF Seen
    <2>2. ASSUME NEW k \in 1..Len(more), NEW l \in 1..Len(more), k < l
          PROVE  dedupKey(more[k]) # dedupKey(more[l])
      <3>1. Nth(new, k) # Nth(new, l)
        BY <1>2, <1>3, <2>2
      <3>2. /\ Nth(new, k) \in new /\ Nth(new, l) \in new
            /\ Nth(new, k) \in Int /\ Nth(new, l) \in Int
        BY <1>2, <1>3, <1>n, <2>2
      <3>3. Nth(new, k) < Nth(new, l) \/ Nth(new, l) < Nth(new, k)
        BY <3>1, <3>2
      <3>4. more[k] = page[Nth(new, k)] /\ more[l] = page[Nth(new, l)]
        BY <1>6, <2>2
      <3> QED
        BY <1>n, <3>2, <3>3, <3>4
    <2>3. ASSUME NEW i \in DOMAIN all, NEW j \in DOMAIN all, i < j
          PROVE  dedupKey(all[i]) # dedupKey(all[j])
      <3>1. i \in 1..Len(items) + Len(more) /\ j \in 1..Len(items) + Len(more)
        BY <1>4
      <3>2. CASE j <= Len(items)
        BY <1>4, <1>7, <1>l, <2>3, <3>1, <3>2 DEF OneCardEach
      <3>3. CASE i <= Len(items) /\ ~(j <= Len(items))
        BY <1>4, <1>l, <2>1, <3>1, <3>3
      <3>4. CASE ~(i <= Len(items))
        <4>1. /\ i - Len(items) \in 1..Len(more) /\ j - Len(items) \in 1..Len(more)
              /\ i - Len(items) < j - Len(items)
              /\ all[i] = more[i - Len(items)] /\ all[j] = more[j - Len(items)]
          BY <1>4, <1>l, <2>3, <3>1, <3>4
        <4> QED
          BY <2>2, <4>1
      <3> QED
        BY <1>l, <2>3, <3>1, <3>2, <3>3, <3>4
    <2>4. \A i \in DOMAIN all : i \in Int
      BY <1>4
    <2> QED
      BY <2>3, <2>4 DEF OneCardEach
  <1>8. Range(items) \subseteq Range(all)
    BY <1>4, <1>l DEF Range
  <1>9. ASSUME NEW i \in DOMAIN page
        PROVE  \E s \in Range(all) : dedupKey(s) = dedupKey(page[i])
    <2>1. CASE Seen(items, page[i])
      BY <1>8, <2>1 DEF Seen, Range
    <2>2. CASE ~Seen(items, page[i])
      <3> DEFINE like == {j \in 1..Len(page) : dedupKey(page[j]) = dedupKey(page[i])}
                 first == Nth(like, 1)
      <3>1. like \subseteq 1..Len(page) /\ i \in like /\ \A j \in like : j \in Int
        BY <1>1
      <3> HIDE DEF like
      <3>2. Cardinality(like) \in Nat /\ 1 \in 1..Cardinality(like)
        <4>1. Cardinality(like) \in Nat /\ Rank(like, i) \in 1..Cardinality(like)
          BY <1>1, <3>1, Numbered
        <4> QED
          BY <4>1
      <3>3. /\ first \in like /\ Rank(like, first) = 1
            /\ \A j \in like : Rank(like, j) \in 1..Cardinality(like)
                               /\ Nth(like, Rank(like, j)) = j
        BY <1>1, <3>1, <3>2, Numbered
      <3> HIDE DEF first
      <3>4. \A j \in like : ~(j < first)
        <4> SUFFICES ASSUME NEW j \in like, j < first PROVE FALSE
          OBVIOUS
        <4>1. {x \in like : x <= first} = {first}
          <5>1. IsFiniteSet({x \in like : x <= first})
            BY <1>1, <3>1, Numbered, FS_Subset
          <5>2. Cardinality({x \in like : x <= first}) = 1
            BY <3>3 DEF Rank
          <5>3. first \in {x \in like : x <= first}
            BY <3>1, <3>3
          <5> DEFINE upto == {x \in like : x <= first}
          <5> HIDE DEF upto
          <5>4. PICK x : upto = {x}
            BY <5>1, <5>2, FS_Singleton DEF upto
          <5> QED
            BY <5>3, <5>4 DEF upto
        <4>2. j \in {x \in like : x <= first}
          BY <3>1, <3>3
        <4> QED
          BY <3>1, <3>3, <4>1, <4>2
      <3>5. first \in new
        BY <1>1, <2>2, <3>1, <3>3, <3>4 DEF like, new, Fresh, Seen
      <3>6. PICK k \in 1..Len(more) : more[k] = page[first]
        BY <1>2, <1>3, <1>6, <3>5
      <3>7. more[k] = all[Len(items) + k] /\ Len(items) + k \in DOMAIN all
        BY <1>4, <1>l
      <3>8. dedupKey(page[first]) = dedupKey(page[i])
        BY <3>3 DEF like
      <3> QED
        BY <3>6, <3>7, <3>8 DEF Range
    <2> QED
      BY <2>1, <2>2
  <1> QED
    BY <1>4, <1>5, <1>7, <1>8, <1>9

(* The places of a page, and the number of pages.                          *)
LEMMA Products ==
    \A n, p \in Nat \ {0} : /\ n * p \in Nat /\ p <= n * p
                            /\ (n - 1) * p = n * p - p /\ (n + 1) * p = n * p + p
  OBVIOUS

LEMMA Monotone == \A m, n, p \in Nat : m <= n => m * p <= n * p
  OBVIOUS

LEMMA Division ==
    ASSUME NEW l \in Nat, NEW p \in Nat \ {0}
    PROVE  /\ (l + p - 1) \div p \in Nat
           /\ p * ((l + p - 1) \div p) <= l + p - 1
           /\ l <= p * ((l + p - 1) \div p)
  OBVIOUS

LEMMA Slice ==
    ASSUME NEW s \in Seq(Editions), NEW f \in Nat, NEW m \in Nat, m <= Len(s)
    PROVE  /\ SubSeq(s, f + 1, m) \in Seq(Editions)
           /\ Len(SubSeq(s, f + 1, m)) = IF f < m THEN m - f ELSE 0
           /\ \A i \in DOMAIN SubSeq(s, f + 1, m) :
                 f + i \in 1..m /\ SubSeq(s, f + 1, m)[i] = s[f + i]
  <1>1. PICK k \in Int : k = f + 1
    OBVIOUS
  <1>2. \A i \in k..m : s[i] \in Editions
    BY <1>1
  <1>3. /\ SubSeq(s, k, m) \in Seq(Editions)
        /\ Len(SubSeq(s, k, m)) = IF k <= m THEN m - k + 1 ELSE 0
        /\ \A i \in 1..m - k + 1 : SubSeq(s, k, m)[i] = s[k + i - 1]
    BY <1>2, SubSeqProperties
  <1>4. PICK t : t = SubSeq(s, k, m)
    OBVIOUS
  <1>5. t \in Seq(Editions) /\ Len(t) = IF f < m THEN m - f ELSE 0
    BY <1>1, <1>3, <1>4
  <1>6. ASSUME NEW i \in DOMAIN t PROVE f + i \in 1..m /\ t[i] = s[f + i]
    <2>1. i \in 1..m - k + 1 /\ f + i = k + i - 1 /\ f + i \in 1..m
      BY <1>1, <1>5
    <2> QED
      BY <1>3, <1>4, <2>1
  <1> QED
    BY <1>1, <1>4, <1>5, <1>6

(* page is the n-th of pages of p books.                                   *)
IsPage(page, n, p) ==
    /\ p \in Nat \ {0} /\ n * p \in Nat /\ (n - 1) * p = n * p - p
    /\ page \in Seq(Editions)
    /\ \A i \in DOMAIN page :
          (n - 1) * p + i \in DOMAIN lib /\ page[i] = lib[(n - 1) * p + i]
    /\ \A j \in DOMAIN lib : (n - 1) * p < j /\ j <= n * p =>
          j - (n - 1) * p \in DOMAIN page /\ page[j - (n - 1) * p] = lib[j]
    /\ Len(page) < p => Len(lib) <= n * p
    /\ (n - 1) * p < Len(lib) => page # <<>>

LEMMA PageOf ==
    ASSUME lib \in Seq(Editions), NEW n \in Nat \ {0}, NEW limit \in Nat
    PROVE  IsPage(Page(n, limit), n, PageSize(limit))
  <1>p. PICK p : p = PageSize(limit)
    OBVIOUS
  <1>1. p \in Nat \ {0}
    BY <1>p, PagingAssumption DEF PageSize
  <1>2. PICK last : last = n * p
    OBVIOUS
  <1>3. last \in Nat /\ p <= last /\ (n - 1) * p = last - p
    BY <1>1, <1>2, Products
  <1>4. PICK m : m = IF last < Len(lib) THEN last ELSE Len(lib)
    OBVIOUS
  <1>5. m \in Nat /\ m <= Len(lib) /\ m <= last /\ (m = last \/ m = Len(lib))
    BY <1>3, <1>4
  <1>f. PICK f \in Nat : f = last - p
    BY <1>1, <1>3
  <1>6. Page(n, limit) = SubSeq(lib, f + 1, m)
    BY <1>2, <1>4, <1>f, <1>p DEF Page
  <1>g. PICK g : g = Page(n, limit)
    OBVIOUS
  <1>8. /\ g \in Seq(Editions) /\ Len(g) = IF f < m THEN m - f ELSE 0
        /\ \A i \in DOMAIN g : f + i \in 1..m /\ g[i] = lib[f + i]
    BY <1>5, <1>6, <1>g, Slice
  <1>9. \A i \in DOMAIN g : f + i \in DOMAIN lib
    BY <1>5, <1>8
  <1>10. ASSUME NEW j \in DOMAIN lib, f < j, j <= last
         PROVE  j - f \in DOMAIN g /\ g[j - f] = lib[j]
    <2>0. j \in Nat /\ j <= Len(lib)
      BY <1>10
    <2>1. j - f \in 1..m - f /\ f + (j - f) = j /\ f < m
      BY <1>3, <1>4, <1>10, <2>0
    <2>2. j - f \in DOMAIN g
      BY <1>8, <2>1
    <2> QED
      BY <1>8, <2>1, <2>2
  <1>11. Len(g) < p => Len(lib) <= last
    BY <1>1, <1>3, <1>4, <1>5, <1>8, <1>f
  <1>12. f < Len(lib) => Len(g) # 0
    BY <1>1, <1>3, <1>4, <1>5, <1>8, <1>f
  <1> QED
    <2>1. (n - 1) * p = f /\ n * p = last
      BY <1>2, <1>3, <1>f
    <2>2. IsPage(g, n, p)
      BY <1>1, <1>3, <1>8, <1>9, <1>10, <1>11, <1>12, <1>f, <2>1 DEF IsPage
    <2> QED
      BY <1>g, <1>p, <2>2

(* A book is added between two places, or taken out of one.                *)
LEMMA Inserted ==
    ASSUME NEW s \in Seq(Editions), NEW i \in 1..Len(s) + 1, NEW e \in Editions
    PROVE  /\ InsertAt(s, i, e) \in Seq(Editions)
           /\ Len(InsertAt(s, i, e)) = Len(s) + 1
           /\ \A j \in 1..Len(s) + 1 : InsertAt(s, i, e)[j] =
                IF j < i THEN s[j] ELSE IF j = i THEN e ELSE s[j - 1]
  <1> DEFINE a == SubSeq(s, 1, i - 1)
             b == SubSeq(s, i, Len(s))
             c == a \o <<e>>
  <1>1. /\ a \in Seq(Editions) /\ Len(a) = i - 1
        /\ \A j \in 1..i - 1 : a[j] = s[j]
    BY SubSeqProperties
  <1>2. /\ b \in Seq(Editions) /\ Len(b) = Len(s) - i + 1
        /\ \A j \in 1..Len(s) - i + 1 : b[j] = s[i + j - 1]
    BY SubSeqProperties
  <1>3. <<e>> \in Seq(Editions) /\ Len(<<e>>) = 1 /\ <<e>>[1] = e
    OBVIOUS
  <1> HIDE DEF a, b
  <1>4. /\ c \in Seq(Editions) /\ Len(c) = i
        /\ \A j \in 1..i : c[j] = IF j < i THEN s[j] ELSE e
    BY <1>1, <1>3, ConcatProperties
  <1> HIDE DEF c
  <1>5. /\ c \o b \in Seq(Editions) /\ Len(c \o b) = Len(s) + 1
        /\ \A j \in 1..Len(s) + 1 :
             (c \o b)[j] = IF j < i THEN s[j] ELSE IF j = i THEN e ELSE s[j - 1]
    <2>1. /\ c \o b \in Seq(Editions) /\ Len(c \o b) = Len(c) + Len(b)
          /\ \A j \in 1..Len(c) + Len(b) :
               (c \o b)[j] = IF j <= Len(c) THEN c[j] ELSE b[j - Len(c)]
      BY <1>2, <1>4, ConcatProperties
    <2>2. Len(c) + Len(b) = Len(s) + 1
      BY <1>2, <1>4
    <2>3. ASSUME NEW j \in 1..Len(s) + 1, i < j PROVE b[j - i] = s[j - 1]
      <3>1. j - i \in 1..Len(s) - i + 1 /\ i + (j - i) - 1 = j - 1
        BY <2>3
      <3> QED
        BY <1>2, <3>1
    <2>4. ASSUME NEW j \in 1..Len(s) + 1
          PROVE  (c \o b)[j] = IF j < i THEN s[j] ELSE IF j = i THEN e ELSE s[j - 1]
      <3>0. j <= i \/ i < j
        BY <2>4
      <3>1. CASE j <= i
        BY <1>4, <2>1, <2>2, <2>4, <3>1
      <3>2. CASE i < j
        BY <1>4, <2>1, <2>2, <2>3, <2>4, <3>2
      <3> QED
        BY <3>0, <3>1, <3>2
    <2> QED
      BY <2>1, <2>2, <2>4
  <1>6. InsertAt(s, i, e) = c \o b
    BY DEF InsertAt, a, b, c
  <1> QED
    BY <1>5, <1>6

LEMMA Removed ==
    ASSUME NEW s \in Seq(Editions), NEW i \in 1..Len(s)
    PROVE  /\ RemoveAt(s, i) \in Seq(Editions)
           /\ Len(RemoveAt(s, i)) = Len(s) - 1
           /\ \A j \in 1..Len(s) - 1 : RemoveAt(s, i)[j] =
                IF j < i THEN s[j] ELSE s[j + 1]
  <1> DEFINE a == SubSeq(s, 1, i - 1)
             b == SubSeq(s, i + 1, Len(s))
  <1>1. /\ a \in Seq(Editions) /\ Len(a) = i - 1
        /\ \A j \in 1..i - 1 : a[j] = s[j]
    BY SubSeqProperties
  <1>2. /\ b \in Seq(Editions) /\ Len(b) = Len(s) - i
        /\ \A j \in 1..Len(s) - i : b[j] = s[i + j]
    BY SubSeqProperties
  <1> HIDE DEF a, b
  <1>3. /\ a \o b \in Seq(Editions) /\ Len(a \o b) = Len(s) - 1
        /\ \A j \in 1..Len(s) - 1 : (a \o b)[j] = IF j < i THEN s[j] ELSE s[j + 1]
    <2>1. /\ a \o b \in Seq(Editions) /\ Len(a \o b) = Len(a) + Len(b)
          /\ \A j \in 1..Len(a) + Len(b) :
               (a \o b)[j] = IF j <= Len(a) THEN a[j] ELSE b[j - Len(a)]
      BY <1>1, <1>2, ConcatProperties
    <2>2. Len(a) + Len(b) = Len(s) - 1
      BY <1>1, <1>2
    <2>3. ASSUME NEW j \in 1..Len(s) - 1, i <= j PROVE b[j - Len(a)] = s[j + 1]
      <3>1. j - Len(a) \in 1..Len(s) - i /\ i + (j - Len(a)) = j + 1
        BY <1>1, <2>3
      <3> QED
        BY <1>2, <3>1
    <2>4. ASSUME NEW j \in 1..Len(s) - 1
          PROVE  (a \o b)[j] = IF j < i THEN s[j] ELSE s[j + 1]
      <3>0. j < i \/ i <= j
        BY <2>4
      <3>1. CASE j < i
        BY <1>1, <2>1, <2>2, <2>4, <3>1
      <3>2. CASE i <= j
        BY <1>1, <2>1, <2>2, <2>3, <2>4, <3>2
      <3> QED
        BY <3>0, <3>1, <3>2
    <2> QED
      BY <2>1, <2>2, <2>4
  <1>4. RemoveAt(s, i) = a \o b
    BY DEF RemoveAt, a, b
  <1> QED
    BY <1>3, <1>4

(* The cursor after a page leads to the next one or nowhere; if it leads   *)
(* on, the page was not empty, and if not, the list ends with the page.    *)
Leads(next, n, page, p, trusted) ==
    /\ next \in {0, n + 1}
    /\ next # 0 => page # <<>>
    /\ next = 0 /\ trusted => Len(lib) <= n * p

(* The cursor after a page of genres may also lead back to the first page; *)
(* if it leads nowhere, the list ends with the page.                       *)
EndsAfter(next, n, p, trusted) ==
    /\ next \in {0, 1, n + 1}
    /\ next = 0 /\ trusted => Len(lib) <= n * p

LEMMA Cursors ==
    ASSUME lib \in Seq(Editions), NEW n \in Nat \ {0}, NEW limit \in Nat,
           NEW counted \in BOOLEAN, NEW echoed \in {0, n}
    PROVE  /\ Leads(NextCursor(n, limit, counted), n, Page(n, limit), PageSize(limit),
                    counted \/ limit > 0)
           /\ EndsAfter(NextGenres(echoed, limit, counted), n, PageSize(limit), counted)
  <1>1. PICK l, total, p, page :
          /\ l = Len(lib) /\ total = TotalPages(limit) /\ p = PageSize(limit)
          /\ page = Page(n, limit)
    OBVIOUS
  <1>2. /\ p \in Nat \ {0} /\ n * p \in Nat /\ (n - 1) * p = n * p - p /\ l \in Nat
        /\ page \in Seq(Editions)
        /\ Len(page) < p => l <= n * p
        /\ (n - 1) * p < l => page # <<>>
    <2>1. IsPage(page, n, p)
      BY <1>1, PageOf
    <2>2. l \in Nat /\ l = Len(lib)
      BY <1>1
    <2> QED
      BY <2>1, <2>2 DEF IsPage
  <1>3. total \in Nat /\ p * total <= l + p - 1 /\ l <= p * total
    <2>1. total = (l + p - 1) \div p
      BY <1>1 DEF TotalPages
    <2> QED
      BY <1>2, <2>1, Division
  <1>q. PICK np, tp : np = n * p /\ tp = total * p
    OBVIOUS
  <1>r. np \in Nat /\ tp \in Nat /\ tp = p * total
    <2>1. total * p \in Nat /\ total * p = p * total
      BY <1>2, <1>3
    <2> QED
      BY <1>2, <1>q, <2>1
  <1>4. n < total => (n - 1) * p < l
    <2> SUFFICES ASSUME n < total PROVE (n - 1) * p < l
      OBVIOUS
    <2>1. n + 1 \in Nat /\ n + 1 <= total
      BY <1>3
    <2>2. (n + 1) * p <= total * p
      BY <1>2, <1>3, <2>1, Monotone
    <2>3. (n + 1) * p = n * p + p
      BY <1>2, Products
    <2>4. np + p <= tp
      BY <1>q, <2>2, <2>3
    <2>5. np - p < l
      BY <1>2, <1>3, <1>r, <2>4
    <2> QED
      BY <1>2, <1>q, <2>5
  <1>5. ~(n < total) => l <= n * p
    <2> SUFFICES ASSUME ~(n < total) PROVE l <= n * p
      OBVIOUS
    <2>1. total <= n
      BY <1>3
    <2>2. total * p <= n * p
      BY <1>2, <1>3, <2>1, Monotone
    <2>3. l <= tp /\ tp <= np
      BY <1>3, <1>q, <1>r, <2>2
    <2>4. l <= np
      BY <1>2, <1>r, <2>3
    <2> QED
      BY <1>q, <2>4
  <1>6. ~(total > 0) => l <= n * p
    <2>1. ~(total > 0) => ~(n < total)
      BY <1>3
    <2> QED
      BY <1>5, <2>1
  <1>7. limit > 0 => p = limit
    BY <1>1 DEF PageSize
  <1>8. limit > 0 /\ Len(page) >= limit => page # <<>>
    <2>1. page = <<>> => Len(page) = 0
      OBVIOUS
    <2> QED
      BY <2>1
  <1>9. limit > 0 /\ ~(Len(page) >= limit) => l <= n * p
    <2>1. Len(page) \in Nat
      BY <1>2
    <2> QED
      BY <1>2, <1>7, <2>1
  <1>10. n + 1 # 0
    OBVIOUS
  <1>11. EndsAfter(NextGenres(echoed, limit, counted), n, p, counted)
    <2>1. NextGenres(echoed, limit, counted) =
            IF counted /\ echoed < total THEN echoed + 1 ELSE 0
      BY <1>1 DEF NextGenres
    <2>2. CASE echoed = n
      BY <1>1, <1>5, <1>10, <2>1, <2>2 DEF EndsAfter
    <2>3. CASE echoed = 0
      <3>1. 0 < total <=> total > 0
        BY <1>3
      <3>2. NextGenres(echoed, limit, counted) = IF counted /\ total > 0 THEN 1 ELSE 0
        BY <2>1, <2>3, <3>1
      <3> QED
        BY <1>1, <1>6, <3>2 DEF EndsAfter
    <2> QED
      BY <2>2, <2>3
  <1>12. CASE counted /\ total > 0
    <2>1. NextCursor(n, limit, counted) = IF n < total THEN n + 1 ELSE 0
      BY <1>1, <1>12 DEF NextCursor
    <2>2. Leads(NextCursor(n, limit, counted), n, page, p, counted \/ limit > 0)
      BY <1>1, <1>2, <1>4, <1>5, <1>10, <2>1 DEF Leads
    <2> QED
      BY <1>1, <1>11, <2>2
  <1>13. CASE ~(counted /\ total > 0)
    <2>1. NextCursor(n, limit, counted) =
            IF limit > 0 /\ Len(page) >= limit THEN n + 1 ELSE 0
      BY <1>1, <1>13 DEF NextCursor
    <2>2. counted => l <= n * p
      BY <1>6, <1>13
    <2>3. Leads(NextCursor(n, limit, counted), n, page, p, counted \/ limit > 0)
      BY <1>1, <1>8, <1>9, <1>10, <2>1, <2>2 DEF Leads
    <2> QED
      BY <1>1, <1>11, <2>3
  <1> QED
    BY <1>12, <1>13

-----------------------------------------------------------------------------
(* The scroll *)

LEMMA SameScroll ==
    ASSUME portal'.list = portal.list, portal'.limit = portal.limit
    PROVE  /\ CallLimit' = CallLimit /\ PageLen' = PageLen
           /\ \A c : Behind(c)' = Behind(c)
           /\ \A b, c : SameWork(b, c)' <=> SameWork(b, c)
  BY DEF CallLimit, PageLen, Behind, SameWork

LEMMA LimitType ==
    ASSUME ScrollTypes
    PROVE  /\ CallLimit \in Nat /\ portal.cursor \in Nat /\ call.cursor \in Nat
           /\ \A c \in Nat : Requested(c) \in Nat \ {0} /\ (c # 0 => Requested(c) = c)
  <1>1. portal.limit \in Nat
    BY PagingAssumption DEF ScrollTypes
  <1> QED
    BY <1>1, PagingAssumption DEF ScrollTypes, CallLimit, clampLimit, Requested

LEMMA PagingInit == Init => PagingInv
  <1> SUFFICES ASSUME Init PROVE PagingInv
    OBVIOUS
  <1>1. lib \in Seq(Editions) /\ IsInjective(lib)
    BY CatalogAssumption DEF Init
  <1>2. ScrollTypes
    BY <1>1 DEF Init, ScrollTypes, IdleCall, Range
  <1>3. CallOfScroll /\ OneCardPerWork /\ NothingSkipped /\ NoBlankPage
    BY DEF Init, CallOfScroll, IdleCall, OneCardPerWork, NothingSkipped, NoBlankPage
  <1>4. Behind(0) = 0
    BY <1>2, LimitType, PagingAssumption DEF Behind, Requested, PageLen, PageSize
  <1>5. NoGap
    BY <1>1, <1>4 DEF Init, NoGap, IdleCall, PassedAreShown
  <1> QED
    BY <1>2, <1>3, <1>5 DEF PagingInv

LEMMA ListKeeps ==
    ASSUME PagingInv, List \/ ListFails
    PROVE  PagingInv'
  <1>1. UNCHANGED <<lib, portal, since, steady>> /\ ~portal.done
    BY DEF List, ListFails, PagingInv, CallOfScroll
  <1>2. /\ CallLimit' = CallLimit /\ \A c : Behind(c)' = Behind(c)
        /\ \A b, c : SameWork(b, c)' <=> SameWork(b, c)
    BY <1>1, SameScroll
  <1>t. /\ CallLimit \in Nat /\ portal.cursor \in Nat
        /\ maxFanout \in Nat \ {0} /\ <<>> \in Seq(Editions)
    BY LimitType, PagingAssumption DEF PagingInv
  <1>c. \/ call' = [active |-> TRUE, cursor |-> portal.cursor, limit |-> CallLimit,
                    left |-> maxFanout, items |-> <<>>]
        \/ call' = [active |-> FALSE, cursor |-> 0, limit |-> 0, left |-> 0, items |-> <<>>]
    BY DEF List, ListFails, IdleCall, CallLimit
  <1>a. call'.active => /\ call'.limit = CallLimit /\ call'.items = <<>>
                        /\ call'.cursor = portal.cursor /\ call'.left # 0
    BY <1>c, <1>t
  <1>3. call' \in [active : BOOLEAN, cursor : Nat, limit : Nat, left : Nat,
                   items : Seq(Editions)]
    <2>1. CASE call' = [active |-> TRUE, cursor |-> portal.cursor, limit |-> CallLimit,
                        left |-> maxFanout, items |-> <<>>]
      BY <1>t, <2>1
    <2>2. CASE call' = [active |-> FALSE, cursor |-> 0, limit |-> 0, left |-> 0,
                        items |-> <<>>]
      BY <1>t, <2>2
    <2> QED
      BY <1>c, <2>1, <2>2
  <1>4. ScrollTypes' /\ CallOfScroll'
    <2>1. ScrollTypes'
      BY <1>1, <1>3 DEF PagingInv, ScrollTypes
    <2>2. CallOfScroll'
      <3>1. call'.active => portal'.cursor <= call'.cursor
        BY <1>1, <1>a, <1>t
      <3> QED
        BY <1>1, <1>2, <1>a, <3>1 DEF PagingInv, CallOfScroll, OneCardEach
    <2> QED
      BY <2>1, <2>2
  <1>5. \A c, items : PassedAreShown(c, items)' <=> PassedAreShown(c, items)
    BY <1>1, <1>2 DEF PassedAreShown, IsShown
  <1>6. NoGap'
    BY <1>1, <1>a, <1>5 DEF PagingInv, NoGap
  <1>7. OneCardPerWork' /\ NothingSkipped' /\ NoBlankPage'
    BY <1>1, <1>2 DEF PagingInv, OneCardPerWork, NothingSkipped, NoBlankPage
  <1> QED
    BY <1>4, <1>6, <1>7 DEF PagingInv

(* An edition on the first n pages is on the page or has been shown.       *)
Covered(n, items) ==
    \A i \in DOMAIN lib : i <= n * PageLen /\ lib[i] \in since => IsShown(lib[i], items)

(* The answer of either list keeps the invariant if it is a page of one    *)
(* card for each work that leaves nothing out of the n pages read so far.  *)
Answers(n, items, next) ==
    /\ call.active /\ Shown(items, next) /\ next \in {0, 1, n + 1}
    /\ UNCHANGED <<lib, since>> /\ steady' \in BOOLEAN
    /\ steady' => steady
    /\ \A i, j \in DOMAIN items : SameWork(items[i], items[j]) => i = j
    /\ steady => Covered(n, items)
    /\ portal.list = "books" /\ next # 0 => items # <<>>
    /\ next = 0 /\ steady' => Len(lib) <= n * PageLen

LEMMA ShownKeeps ==
    ASSUME PagingInv, NEW n \in Nat \ {0}, NEW items \in Seq(Editions), NEW next,
           Answers(n, items, next)
    PROVE  PagingInv'
  <1>1. /\ portal'.list = portal.list /\ portal'.limit = portal.limit
        /\ portal'.cursor = next /\ portal'.page = items
        /\ portal'.shown = portal.shown \cup Range(items)
        /\ portal'.done <=> next = 0
        /\ call' = IdleCall
    BY DEF PagingInv, ScrollTypes, Shown, Answers
  <1>2. /\ PageLen' = PageLen /\ \A c : Behind(c)' = Behind(c)
        /\ \A b, c : SameWork(b, c)' <=> SameWork(b, c)
    BY <1>1, SameScroll
  <1>3. ScrollTypes'
    <2>1. Range(items) \subseteq Editions
      BY DEF Range
    <2>2. portal' \in [list : Lists, limit : Limits, cursor : Nat, done : BOOLEAN,
                       page : Seq(Editions), shown : SUBSET Editions]
      <3>1. next \in Nat /\ (next = 0) \in BOOLEAN
        BY DEF Answers
      <3>2. portal.shown \cup Range(items) \in SUBSET Editions
        BY <2>1 DEF PagingInv, ScrollTypes
      <3> QED
        BY <3>1, <3>2 DEF PagingInv, ScrollTypes, Shown, Answers
    <2>3. call' \in [active : BOOLEAN, cursor : Nat, limit : Nat, left : Nat,
                     items : Seq(Editions)]
      BY <1>1 DEF IdleCall
    <2> QED
      BY <2>2, <2>3 DEF PagingInv, ScrollTypes, Answers
  <1>4. CallOfScroll' /\ ~call'.active
    BY <1>1 DEF CallOfScroll, IdleCall
  <1>5. \A e : IsShown(e, items) => IsShown(e, <<>>)'
    BY <1>1, <1>2 DEF IsShown
  <1>6. NoGap'
    <2> SUFFICES ASSUME steady', ~portal'.done
                 PROVE  since' \subseteq Range(lib') /\ PassedAreShown(portal.cursor, <<>>)'
      BY <1>4 DEF NoGap
    <2>1. /\ since \subseteq Range(lib) /\ Covered(n, items)
      BY DEF PagingInv, NoGap, CallOfScroll, Answers
    <2>0. PageLen \in Nat
      BY LimitType, PagingAssumption DEF PagingInv, PageLen, PageSize
    <2>2. Behind(next) = n * PageLen \/ Behind(next) = 0
      <3>1. next = n + 1 \/ next = 1
        BY <1>1 DEF Answers
      <3>2. CASE next = n + 1
        <4>1. Requested(next) - 1 = n
          BY <3>2 DEF Requested
        <4> QED
          BY <4>1 DEF Behind
      <3>3. CASE next = 1
        <4>1. Requested(next) - 1 = 0
          BY <3>3 DEF Requested
        <4> QED
          BY <2>0, <4>1 DEF Behind
      <3> QED
        BY <3>1, <3>2, <3>3
    <2>3. n * PageLen \in Nat
      BY <2>0
    <2>4. \A i \in DOMAIN lib : i <= Behind(next) => i <= n * PageLen
      BY <2>2, <2>3 DEF PagingInv, ScrollTypes
    <2>5. Behind(portal.cursor)' = Behind(next)
      BY <1>1, <1>2 DEF Behind
    <2>6. ASSUME NEW i \in DOMAIN lib, i <= Behind(next), lib[i] \in since
          PROVE  IsShown(lib[i], <<>>)'
      <3>1. IsShown(lib[i], items)
        BY <2>1, <2>4, <2>6 DEF Covered
      <3>2. PICK s \in portal.shown \cup Range(items) : SameWork(lib[i], s)
        BY <3>1 DEF IsShown
      <3>3. s \in portal'.shown /\ SameWork(lib[i], s)' /\ lib' = lib
        BY <1>1, <1>2, <3>2 DEF Answers
      <3> QED
        BY <3>3 DEF IsShown, SameWork
    <2>7. lib' = lib /\ since' = since
      BY DEF Answers
    <2>8. PassedAreShown(portal.cursor, <<>>)'
      <3> SUFFICES ASSUME NEW i \in DOMAIN lib', i <= Behind(portal.cursor)', lib'[i] \in since'
                   PROVE  IsShown(lib[i], <<>>)'
        BY DEF PassedAreShown
      <3> QED
        BY <2>5, <2>6, <2>7
    <2> QED
      BY <2>1, <2>7, <2>8
  <1>7. OneCardPerWork'
    BY <1>1, <1>2 DEF OneCardPerWork, Answers
  <1>8. NothingSkipped'
    <2> SUFFICES ASSUME portal'.done, steady', NEW e \in since'
                 PROVE  (\E s \in portal.shown : SameWork(e, s))'
      BY DEF NothingSkipped
    <2>1. since \subseteq Range(lib) /\ Covered(n, items)
      BY DEF PagingInv, NoGap, CallOfScroll, Answers
    <2>2. PICK i \in DOMAIN lib : lib[i] = e /\ e \in since
      BY <2>1 DEF Range, Answers
    <2>3. i <= n * PageLen
      <3>1. Len(lib) <= n * PageLen /\ n * PageLen \in Nat
        BY <1>1, LimitType, PagingAssumption, Products DEF PagingInv, PageLen, PageSize, Answers
      <3> QED
        BY <2>2, <3>1 DEF PagingInv, ScrollTypes
    <2>4. IsShown(e, items)
      BY <2>1, <2>2, <2>3 DEF Covered
    <2> QED
      BY <1>1, <1>2, <2>4 DEF IsShown, Answers
  <1>9. NoBlankPage'
    BY <1>1 DEF NoBlankPage, Answers
  <1> QED
    BY <1>3, <1>4, <1>6, <1>7, <1>8, <1>9 DEF PagingInv

LEMMA BooksKeeps ==
    ASSUME PagingInv, ListBooks
    PROVE  PagingInv'
  <1>1. PICK counted \in Counting :
          LET n == Requested(call.cursor)
              items == Deduped(call.items, Page(n, call.limit))
              next == NextCursor(n, call.limit, counted)
          IN  /\ IF Len(items) >= Target(call.limit) \/ next = 0 \/ call.left = 1
                 THEN Shown(items, next)
                 ELSE /\ call' = [call EXCEPT !.cursor = next, !.left = @ - 1,
                                             !.items = items]
                      /\ UNCHANGED portal
              /\ steady' = (steady /\ (counted \/ call.limit > 0))
    BY DEF ListBooks
  <1>2. PICK n, page, items, next :
          /\ n = Requested(call.cursor) /\ page = Page(n, call.limit)
          /\ items = Deduped(call.items, page)
          /\ next = NextCursor(n, call.limit, counted)
    OBVIOUS
  <1>3. /\ call.active /\ portal.list = "books" /\ ~portal.done /\ call.left # 0
        /\ UNCHANGED <<lib, faults, since>>
        /\ PageSize(call.limit) = PageLen /\ OneCardEach(call.items)
        /\ \/ Shown(items, next)
           \/ /\ next # 0 /\ call.left # 1 /\ UNCHANGED portal
              /\ call' = [call EXCEPT !.cursor = next, !.left = @ - 1, !.items = items]
        /\ steady' = (steady /\ (counted \/ call.limit > 0))
    BY <1>1, <1>2 DEF ListBooks, PagingInv, CallOfScroll, PageLen
  <1>4. /\ n \in Nat \ {0} /\ call.limit \in Nat /\ counted \in BOOLEAN
        /\ lib \in Seq(Editions) /\ call.items \in Seq(Editions)
    BY <1>2, LimitType, PagingAssumption DEF PagingInv, ScrollTypes
  <1>5. IsPage(page, n, PageLen)
    BY <1>2, <1>3, <1>4, PageOf
  <1>6. Leads(next, n, page, PageLen, counted \/ call.limit > 0)
    BY <1>2, <1>3, <1>4, Cursors
  <1>7. /\ items \in Seq(Editions) /\ OneCardEach(items)
        /\ Range(call.items) \subseteq Range(items)
        /\ \A i \in DOMAIN page : \E s \in Range(items) : dedupKey(s) = dedupKey(page[i])
    <2>1. page \in Seq(Editions)
      BY <1>5 DEF IsPage
    <2>2. LET d == Deduped(call.items, page)
          IN  /\ d \in Seq(Editions) /\ OneCardEach(d)
              /\ Range(call.items) \subseteq Range(d)
              /\ \A i \in DOMAIN page : \E s \in Range(d) : dedupKey(s) = dedupKey(page[i])
      BY <1>3, <1>4, <2>1, DedupedPage
    <2> QED
      BY <1>2, <2>2
  <1>8. page # <<>> => items # <<>>
    <2> SUFFICES ASSUME page # <<>> PROVE items # <<>>
      OBVIOUS
    <2>1. 1 \in DOMAIN page
      BY <1>5 DEF IsPage
    <2> QED
      BY <1>7, <2>1 DEF Range
  <1>9. steady => Covered(n, items)
    <2> SUFFICES ASSUME steady, NEW i \in DOMAIN lib, i <= n * PageLen, lib[i] \in since
                 PROVE  IsShown(lib[i], items)
      BY DEF Covered
    <2>1. PICK f : f = (n - 1) * PageLen
      OBVIOUS
    <2>2. Behind(call.cursor) = f
      BY <1>2, <2>1 DEF Behind
    <2>3. i \in Int /\ f \in Int
      BY <1>4, <1>5, <2>1 DEF IsPage
    <2>4. CASE i <= f
      <3>1. IsShown(lib[i], call.items)
        BY <1>3, <2>2, <2>4 DEF PagingInv, NoGap, PassedAreShown
      <3> QED
        BY <1>7, <3>1 DEF IsShown
    <2>5. CASE f < i
      <3>1. i - f \in DOMAIN page /\ page[i - f] = lib[i]
        BY <1>5, <2>1, <2>5 DEF IsPage
      <3>2. PICK s \in Range(items) : dedupKey(s) = dedupKey(lib[i])
        BY <1>7, <3>1
      <3>3. s \in Editions /\ lib[i] \in Editions
        BY <1>4, <1>7 DEF Range
      <3>4. SameWork(lib[i], s)
        BY <1>3, <3>2, <3>3, KeysAreWorks DEF SameWork
      <3> QED
        BY <3>4 DEF IsShown
    <2> QED
      BY <2>3, <2>4, <2>5
  <1>10. CASE Shown(items, next)
    <2>1. \A i, j \in DOMAIN items : SameWork(items[i], items[j]) => i = j
      BY <1>7, KeysAreWorks DEF OneCardEach
    <2>2. /\ next \in {0, 1, n + 1}
          /\ next # 0 => items # <<>>
      BY <1>6, <1>8 DEF Leads
    <2>3. /\ steady' \in BOOLEAN
          /\ steady' => steady
          /\ next = 0 /\ steady' => Len(lib) <= n * PageLen
      BY <1>3, <1>6 DEF Leads, PagingInv, ScrollTypes
    <2>a. UNCHANGED <<lib, since>> /\ call.active
      BY <1>3
    <2>4. Answers(n, items, next)
      BY <1>9, <1>10, <2>a, <2>1, <2>2, <2>3 DEF Answers
    <2> QED
      BY <1>4, <1>7, <2>4, ShownKeeps
  <1>11. CASE /\ next # 0 /\ call.left # 1 /\ UNCHANGED portal
              /\ call' = [call EXCEPT !.cursor = next, !.left = @ - 1, !.items = items]
    <2>1. next = n + 1 /\ next \in Nat
      BY <1>4, <1>6, <1>11 DEF Leads
    <2>2. /\ PageLen' = PageLen /\ CallLimit' = CallLimit /\ \A c : Behind(c)' = Behind(c)
          /\ \A b, c : SameWork(b, c)' <=> SameWork(b, c)
      BY <1>11, SameScroll
    <2>3. /\ call'.cursor = next /\ call'.items = items
          /\ call'.limit = call.limit /\ call'.left = call.left - 1 /\ call'.active
      BY <1>3, <1>11 DEF PagingInv, ScrollTypes
    <2>4. ScrollTypes'
      <3>1. call.left \in Nat /\ call.left - 1 \in Nat
        BY <1>3 DEF PagingInv, ScrollTypes
      <3>2. call' \in [active : BOOLEAN, cursor : Nat, limit : Nat, left : Nat,
                       items : Seq(Editions)]
        BY <1>7, <1>11, <2>1, <3>1 DEF PagingInv, ScrollTypes
      <3>3. lib' = lib /\ since' = since /\ portal' = portal /\ steady' \in BOOLEAN
        BY <1>3, <1>11
      <3> QED
        BY <3>2, <3>3 DEF PagingInv, ScrollTypes
    <2>5. CallOfScroll'
      <3>1. call'.left # 0
        BY <1>3, <1>11, <2>3 DEF PagingInv, ScrollTypes
      <3>2. OneCardEach(call.items)'
        BY <1>7, <2>3 DEF OneCardEach, dedupKey
      <3>3. portal'.cursor <= call'.cursor
        <4>1. /\ portal.cursor <= call.cursor /\ portal.cursor \in Nat
              /\ call.cursor \in Nat
          BY <1>3, LimitType DEF PagingInv, CallOfScroll
        <4>2. call.cursor <= n
          BY <1>2, <4>1 DEF Requested
        <4>3. portal.cursor <= next
          BY <1>4, <2>1, <4>1, <4>2
        <4> QED
          BY <1>11, <2>3, <4>3
      <3> QED
        BY <1>3, <1>11, <2>2, <2>3, <3>1, <3>2, <3>3 DEF PagingInv, CallOfScroll
    <2>6. NoGap'
      <3> SUFFICES ASSUME steady' PROVE /\ since \subseteq Range(lib)
                                        /\ PassedAreShown(portal.cursor, <<>>)'
                                        /\ PassedAreShown(call.cursor, call.items)'
        BY <1>3 DEF NoGap
      <3>1. /\ since \subseteq Range(lib) /\ PassedAreShown(portal.cursor, <<>>)
            /\ Covered(n, items)
        BY <1>3, <1>9 DEF PagingInv, NoGap
      <3>2. \A c, l : PassedAreShown(c, l)' <=> PassedAreShown(c, l)
        BY <1>3, <1>11, <2>2 DEF PassedAreShown, IsShown
      <3>3. Behind(next) = n * PageLen
        <4>1. Requested(next) - 1 = n
          BY <1>4, <2>1 DEF Requested
        <4> QED
          BY <4>1 DEF Behind
      <3>4. PassedAreShown(next, items)
        BY <3>1, <3>3 DEF PassedAreShown, Covered
      <3>5. PassedAreShown(next, items)'
        BY <3>2, <3>4
      <3>6. PassedAreShown(call.cursor, call.items)'
        BY <2>3, <3>5 DEF PassedAreShown, Behind
      <3>7. PassedAreShown(portal.cursor, <<>>)'
        BY <1>11, <3>1, <3>2
      <3> QED
        BY <3>1, <3>6, <3>7
    <2>7. OneCardPerWork' /\ NothingSkipped' /\ NoBlankPage'
      BY <1>3, <1>11, <2>2 DEF PagingInv, OneCardPerWork, NothingSkipped, NoBlankPage
    <2> QED
      BY <2>4, <2>5, <2>6, <2>7 DEF PagingInv
  <1> QED
    BY <1>3, <1>10, <1>11

LEMMA GenresKeeps ==
    ASSUME PagingInv, ListGenres
    PROVE  PagingInv'
  <1>1. PICK counted \in Counting, reads \in ReadsCursor, echoes \in Echoing :
          LET n == GenrePage(call.cursor, reads)
              echoed == IF echoes THEN n ELSE 0
          IN  /\ Shown(Page(n, call.limit), NextGenres(echoed, call.limit, counted))
              /\ steady' = (steady /\ counted)
    BY DEF ListGenres
  <1>2. /\ call.active /\ portal.list = "genres" /\ ~portal.done /\ call.items = <<>>
        /\ UNCHANGED <<lib, faults, since>> /\ PageSize(call.limit) = PageLen
    BY DEF ListGenres, PagingInv, CallOfScroll, PageLen
  <1>n. PICK n, echoed, page, next :
          /\ n = GenrePage(call.cursor, reads) /\ echoed = IF echoes THEN n ELSE 0
          /\ page = Page(n, call.limit)
          /\ next = NextGenres(echoed, call.limit, counted)
    OBVIOUS
  <1>s. Shown(page, next) /\ steady' = (steady /\ counted)
    BY <1>1, <1>n
  <1>3. /\ n \in Nat \ {0} /\ call.limit \in Nat /\ counted \in BOOLEAN
        /\ lib \in Seq(Editions) /\ IsInjective(lib)
        /\ n = Requested(call.cursor) \/ n = 1
        /\ echoed \in {0, n}
    BY <1>n, LimitType, PagingAssumption DEF PagingInv, ScrollTypes, GenrePage
  <1>4. IsPage(page, n, PageLen)
    BY <1>2, <1>3, <1>n, PageOf
  <1>5. EndsAfter(next, n, PageLen, counted)
    BY <1>2, <1>3, <1>n, Cursors
  <1>f. PICK f : f = (n - 1) * PageLen
    OBVIOUS
  <1>6. f \in Int /\ page \in Seq(Editions) /\ (f = 0 \/ Behind(call.cursor) = f)
    <2>1. (n - 1) * PageLen \in Int /\ page \in Seq(Editions) /\ PageLen \in Nat
      BY <1>4 DEF IsPage
    <2>2. CASE n = Requested(call.cursor)
      BY <1>f, <2>1, <2>2 DEF Behind
    <2>3. CASE n = 1
      BY <1>f, <2>1, <2>3
    <2> QED
      BY <1>3, <2>2, <2>3
  <1>7. steady => Covered(n, page)
    <2> SUFFICES ASSUME steady, NEW i \in DOMAIN lib, i <= n * PageLen, lib[i] \in since
                 PROVE  IsShown(lib[i], page)
      BY DEF Covered
    <2>1. i \in Nat \ {0}
      BY <1>3
    <2>2. CASE i <= f
      <3>1. Behind(call.cursor) = f
        BY <1>6, <2>1, <2>2
      <3> QED
        BY <1>2, <2>2, <3>1 DEF PagingInv, NoGap, PassedAreShown, IsShown, Range
    <2>3. CASE f < i
      <3>1. i - f \in DOMAIN page /\ page[i - f] = lib[i]
        BY <1>4, <1>f, <2>3 DEF IsPage
      <3> QED
        BY <3>1 DEF IsShown, SameWork, Range
    <2> QED
      BY <1>6, <2>1, <2>2, <2>3
  <1>8. \A i, j \in DOMAIN page : SameWork(page[i], page[j]) => i = j
    <2> SUFFICES ASSUME NEW i \in DOMAIN page, NEW j \in DOMAIN page, page[i] = page[j]
                 PROVE  i = j
      BY <1>2 DEF SameWork
    <2>1. f + i \in DOMAIN lib /\ f + j \in DOMAIN lib /\ lib[f + i] = lib[f + j]
      BY <1>4, <1>f DEF IsPage
    <2>2. f + i = f + j
      BY <1>3, <2>1 DEF IsInjective
    <2> QED
      BY <1>6, <2>2
  <1>9. /\ next \in {0, 1, n + 1}
        /\ steady' \in BOOLEAN
        /\ steady' => steady
        /\ next = 0 /\ steady' => Len(lib) <= n * PageLen
    BY <1>3, <1>5, <1>s DEF EndsAfter, PagingInv, ScrollTypes
  <1>10. /\ UNCHANGED <<lib, since>> /\ call.active /\ Shown(page, next)
         /\ portal.list # "books"
    BY <1>2, <1>s
  <1>11. Answers(n, page, next)
    BY <1>7, <1>8, <1>9, <1>10 DEF Answers
  <1> QED
    BY <1>3, <1>6, <1>11, ShownKeeps

(* A book that is added moves others to later places, never to one that    *)
(* the scroll has passed.                                                  *)
LEMMA AddKeeps ==
    ASSUME PagingInv, NEW e \in Editions, AddEdition(e)
    PROVE  PagingInv'
  <1>1. PICK i \in 1..Len(lib) + 1 : lib' = InsertAt(lib, i, e)
    BY DEF AddEdition
  <1>2. /\ UNCHANGED <<portal, call, since, steady>> /\ ~portal.done /\ e \notin Range(lib)
        /\ lib \in Seq(Editions) /\ IsInjective(lib) /\ Len(lib) \in Nat
    BY DEF AddEdition, PagingInv, ScrollTypes
  <1>3. /\ lib' \in Seq(Editions) /\ Len(lib') = Len(lib) + 1
        /\ \A j \in 1..Len(lib) + 1 :
             lib'[j] = IF j < i THEN lib[j] ELSE IF j = i THEN e ELSE lib[j - 1]
    <2>1. LET t == InsertAt(lib, i, e)
          IN  /\ t \in Seq(Editions) /\ Len(t) = Len(lib) + 1
              /\ \A j \in 1..Len(lib) + 1 :
                   t[j] = IF j < i THEN lib[j] ELSE IF j = i THEN e ELSE lib[j - 1]
      BY <1>2, Inserted
    <2> QED
      BY <1>1, <2>1
  <1>4. /\ DOMAIN lib = 1..Len(lib) /\ DOMAIN lib' = 1..Len(lib) + 1
        /\ \A j \in DOMAIN lib : lib[j] # e
    BY <1>2, <1>3 DEF Range
  <1>5. IsInjective(lib')
    <2> SUFFICES ASSUME NEW j \in DOMAIN lib', NEW k \in DOMAIN lib', lib'[j] = lib'[k]
                 PROVE  j = k
      BY DEF IsInjective
    <2> DEFINE was(m) == IF m < i THEN m ELSE m - 1
    <2>1. \A m \in DOMAIN lib' : m # i => was(m) \in DOMAIN lib /\ lib'[m] = lib[was(m)]
      BY <1>2, <1>3, <1>4
    <2>2. lib'[i] = e
      BY <1>3
    <2>3. CASE j = i \/ k = i
      BY <1>4, <2>1, <2>2, <2>3
    <2>4. CASE j # i /\ k # i
      <3>1. was(j) = was(k)
        BY <1>2, <2>1, <2>4 DEF IsInjective
      <3>2. j \in Int /\ k \in Int /\ i \in Int
        BY <1>4
      <3> QED
        BY <2>4, <3>1, <3>2
    <2> QED
      BY <2>3, <2>4
  <1>6. Range(lib) \subseteq Range(lib')
    <2> SUFFICES ASSUME NEW j \in DOMAIN lib PROVE \E k \in DOMAIN lib' : lib'[k] = lib[j]
      BY DEF Range
    <2>1. CASE j < i
      BY <1>3, <1>4, <2>1
    <2>2. CASE ~(j < i)
      <3>1. j + 1 \in DOMAIN lib' /\ lib'[j + 1] = lib[j]
        BY <1>2, <1>3, <1>4, <2>2
      <3> QED
        BY <3>1
    <2> QED
      BY <2>1, <2>2
  <1>7. /\ PageLen' = PageLen /\ CallLimit' = CallLimit /\ \A c : Behind(c)' = Behind(c)
        /\ \A b, c : SameWork(b, c)' <=> SameWork(b, c)
    BY <1>2, SameScroll
  <1>8. ASSUME NEW c \in Nat, NEW items, since \subseteq Range(lib), PassedAreShown(c, items)
        PROVE  PassedAreShown(c, items)'
    <2> SUFFICES ASSUME NEW j \in DOMAIN lib', j <= Behind(c), lib'[j] \in since
                 PROVE  \E k \in DOMAIN lib : k <= Behind(c) /\ lib'[j] = lib[k]
      BY <1>2, <1>7, <1>8 DEF PassedAreShown, IsShown
    <2>1. Behind(c) \in Int
      <3>1. Requested(c) \in Nat \ {0} /\ PageLen \in Nat \ {0}
        BY LimitType, PagingAssumption DEF PagingInv, PageLen, PageSize
      <3> QED
        BY <3>1, Products DEF Behind
    <2>2. j # i
      BY <1>2, <1>3, <1>8
    <2>3. CASE j < i
      BY <1>3, <1>4, <2>3
    <2>4. CASE ~(j < i)
      <3>1. j - 1 \in DOMAIN lib /\ j - 1 <= Behind(c) /\ lib'[j] = lib[j - 1]
        BY <1>2, <1>3, <1>4, <2>1, <2>2, <2>4
      <3> QED
        BY <3>1
    <2> QED
      BY <2>3, <2>4
  <1>9. ScrollTypes'
    BY <1>2, <1>3, <1>5 DEF PagingInv, ScrollTypes
  <1>10. CallOfScroll'
    BY <1>2, <1>7 DEF PagingInv, CallOfScroll, OneCardEach, dedupKey
  <1>11. NoGap'
    <2>1. portal.cursor \in Nat /\ call.cursor \in Nat
      BY LimitType DEF PagingInv
    <2> QED
      BY <1>2, <1>6, <1>8, <2>1 DEF PagingInv, NoGap
  <1>12. OneCardPerWork' /\ NothingSkipped' /\ NoBlankPage'
    BY <1>2, <1>7 DEF PagingInv, OneCardPerWork, NothingSkipped, NoBlankPage
  <1> QED
    BY <1>9, <1>10, <1>11, <1>12 DEF PagingInv

(* Once a book is removed the scroll promises nothing about gaps.          *)
LEMMA RemoveKeeps ==
    ASSUME PagingInv, NEW e \in Editions, RemoveEdition(e)
    PROVE  PagingInv'
  <1>1. PICK i \in DOMAIN lib : lib' = RemoveAt(lib, i)
    BY DEF RemoveEdition
  <1>2. /\ UNCHANGED <<portal, call>> /\ ~steady' /\ steady' \in BOOLEAN
        /\ since' \subseteq Editions
        /\ lib \in Seq(Editions) /\ IsInjective(lib) /\ i \in 1..Len(lib)
    <2>1. /\ UNCHANGED <<portal, call>> /\ steady' = FALSE
          /\ since' \subseteq since
      BY DEF RemoveEdition
    <2>2. since \subseteq Editions /\ lib \in Seq(Editions) /\ IsInjective(lib)
      BY DEF PagingInv, ScrollTypes
    <2>3. i \in 1..Len(lib)
      BY <2>2
    <2> QED
      BY <2>1, <2>2, <2>3
  <1>3. /\ lib' \in Seq(Editions) /\ Len(lib') = Len(lib) - 1
        /\ \A j \in 1..Len(lib) - 1 : lib'[j] = IF j < i THEN lib[j] ELSE lib[j + 1]
    <2>1. LET t == RemoveAt(lib, i)
          IN  /\ t \in Seq(Editions) /\ Len(t) = Len(lib) - 1
              /\ \A j \in 1..Len(lib) - 1 : t[j] = IF j < i THEN lib[j] ELSE lib[j + 1]
      BY <1>2, Removed
    <2> QED
      BY <1>1, <2>1
  <1>4. IsInjective(lib')
    <2> SUFFICES ASSUME NEW j \in DOMAIN lib', NEW k \in DOMAIN lib', lib'[j] = lib'[k]
                 PROVE  j = k
      BY DEF IsInjective
    <2> DEFINE was(m) == IF m < i THEN m ELSE m + 1
    <2>1. \A m \in DOMAIN lib' : was(m) \in DOMAIN lib /\ lib'[m] = lib[was(m)]
      BY <1>2, <1>3
    <2>2. was(j) = was(k)
      BY <1>2, <2>1 DEF IsInjective
    <2>3. j \in Int /\ k \in Int /\ i \in Int
      BY <1>2, <1>3
    <2> QED
      BY <2>2, <2>3
  <1>5. /\ CallLimit' = CallLimit /\ \A b, c : SameWork(b, c)' <=> SameWork(b, c)
    BY <1>2, SameScroll
  <1>6. ScrollTypes'
    BY <1>2, <1>3, <1>4 DEF PagingInv, ScrollTypes
  <1>7. CallOfScroll'
    BY <1>2, <1>5 DEF PagingInv, CallOfScroll, OneCardEach, dedupKey
  <1>8. NoGap' /\ NothingSkipped'
    BY <1>2 DEF NoGap, NothingSkipped
  <1>9. OneCardPerWork' /\ NoBlankPage'
    BY <1>2, <1>5 DEF PagingInv, OneCardPerWork, NoBlankPage
  <1> QED
    BY <1>6, <1>7, <1>8, <1>9 DEF PagingInv

LEMMA PagingNext ==
    ASSUME PagingInv, [Next]_vars
    PROVE  PagingInv'
  <1>1. CASE List \/ ListFails
    BY <1>1, ListKeeps
  <1>2. CASE ListBooks
    BY <1>2, BooksKeeps
  <1>3. CASE ListGenres
    BY <1>3, GenresKeeps
  <1>4. ASSUME NEW e \in Editions, AddEdition(e) \/ RemoveEdition(e)
        PROVE  PagingInv'
    BY <1>4, AddKeeps, RemoveKeeps
  <1>5. CASE UNCHANGED vars
    <2>1. UNCHANGED <<lib, portal, call, since, steady>>
      BY <1>5 DEF vars
    <2>2. /\ CallLimit' = CallLimit /\ \A c : Behind(c)' = Behind(c)
          /\ \A b, c : SameWork(b, c)' <=> SameWork(b, c)
      BY <2>1, SameScroll
    <2>3. ScrollTypes' /\ CallOfScroll'
      BY <2>1, <2>2 DEF PagingInv, ScrollTypes, CallOfScroll, OneCardEach, dedupKey
    <2>4. \A c, items : PassedAreShown(c, items)' <=> PassedAreShown(c, items)
      BY <2>1, <2>2 DEF PassedAreShown, IsShown
    <2>5. NoGap'
      BY <2>1, <2>4 DEF PagingInv, NoGap
    <2>6. OneCardPerWork' /\ NothingSkipped' /\ NoBlankPage'
      BY <2>1, <2>2 DEF PagingInv, OneCardPerWork, NothingSkipped, NoBlankPage
    <2> QED
      BY <2>3, <2>5, <2>6 DEF PagingInv
  <1> QED
    BY <1>1, <1>2, <1>3, <1>4, <1>5 DEF Next

(* The invariant of a scroll.                                              *)
LEMMA PagingHolds == Spec => []PagingInv
  BY PagingInit, PagingNext, PTL DEF Spec

LEMMA CursorStep ==
    ASSUME PagingInv, [Next]_vars, portal' # portal, portal.list = "books"
    PROVE  portal'.cursor = 0 \/ portal'.cursor > portal.cursor
  <1>1. ListBooks
    BY DEF Next, List, ListGenres, ListFails, AddEdition, RemoveEdition, vars
  <1>2. PICK counted, n, items :
          /\ n = Requested(call.cursor) /\ call.active
          /\ \/ Shown(items, NextCursor(n, call.limit, counted))
             \/ UNCHANGED portal
    BY <1>1 DEF ListBooks
  <1>3. portal'.cursor = NextCursor(n, call.limit, counted)
    BY <1>2 DEF Shown, PagingInv, ScrollTypes
  <1>4. NextCursor(n, call.limit, counted) \in {0, n + 1}
    BY DEF NextCursor
  <1>5. portal.cursor <= call.cursor /\ portal.cursor \in Nat /\ call.cursor \in Nat
    BY <1>2, LimitType DEF PagingInv, CallOfScroll
  <1>6. n \in Nat /\ call.cursor <= n
    BY <1>2, <1>5 DEF Requested
  <1> QED
    BY <1>3, <1>4, <1>5, <1>6

(* Whatever editions the upstream lists, and whatever comes to its library *)
(* or leaves it during the fan-out, no page that the catalog answers shows *)
(* two cards of one work (ListBooksDeduped, catalog.go:82-87).             *)
THEOREM OneCardOfAWork == Spec => []OneCardPerWork
  <1>1. PagingInv => OneCardPerWork
    BY DEF PagingInv
  <1> QED
    BY <1>1, PagingHolds, PTL

(* For any limit, page size and fan-out, a scroll that has come to its end *)
(* has shown every work, or genre, that was in the list all the time, as   *)
(* long as no row was removed and the upstream counted the pages when it   *)
(* had to (catalog.go:101-107, ListBooks and ListGenres).                  *)
THEOREM ScrollsSkipNothing == Spec => []NothingSkipped
  <1>1. PagingInv => NothingSkipped
    BY DEF PagingInv
  <1> QED
    BY <1>1, PagingHolds, PTL

(* A page of books with a cursor to a next one shows at least a card, also *)
(* if books were removed since the page before (handler.go:124-128).       *)
THEOREM PagesAreNotBlank == Spec => []NoBlankPage
  <1>1. PagingInv => NoBlankPage
    BY DEF PagingInv
  <1> QED
    BY <1>1, PagingHolds, PTL

(* No cursor that a list of books hands out leads back to a page that was  *)
(* asked for (catalog.go:206-209), for any limit, page size and fan-out:   *)
(* what an end of the scroll rests on.  Of the genres it is not true.      *)
THEOREM CursorsLeadOn == Spec => CursorsGoOn
  <1>1. PagingInv /\ [Next]_vars =>
          [portal.list = "books" =>
             portal'.cursor = 0 \/ portal'.cursor > portal.cursor]_portal
    BY CursorStep
  <1> QED
    BY <1>1, PagingHolds, PTL DEF Spec, CursorsGoOn
=============================================================================

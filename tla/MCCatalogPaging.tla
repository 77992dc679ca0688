--------------------------- MODULE MCCatalogPaging ---------------------------
(***************************************************************************)
(* CatalogPaging for TLC: two editions of one work, a work with a single   *)
(* edition, and two books without a title, in lists of any order (editions *)
(* that are alike are taken in a fixed order).                             *)
(***************************************************************************)
EXTENDS CatalogPaging

CONSTANTS hardcover, paperback, novel, scan1, scan2, w1, w2, untitled

MCEditions == {hardcover, paperback, novel, scan1, scan2}

MCWork == [e \in MCEditions |->
             CASE e \in {hardcover, paperback} -> w1
               [] e = novel -> w2
               [] OTHER -> untitled]

Ordered(l, a, b) ==
    \A j \in DOMAIN l : l[j] = b => \E i \in 1..j : l[i] = a

MCLibraries ==
    {l \in UNION {[1..n -> MCEditions] : n \in 0..3} :
       IsInjective(l) /\ Ordered(l, hardcover, paperback) /\ Ordered(l, scan1, scan2)}
=============================================================================

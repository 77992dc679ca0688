--------------------------- MODULE MCMediaDelivery ---------------------------
(***************************************************************************)
(* MediaDelivery for TLC: files of one to three chunks, of which two       *)
(* arrive in time, covers of one or two; and a reader that has kept a good *)
(* link, or that of another book, of the cover for the file or the other   *)
(* way round, of an audiobook, or one signed with an old secret.           *)
(***************************************************************************)
EXTENDS MediaDelivery

CONSTANTS b1, b2, s1, s2

MCRoutes == {"file", "cover"}
MCLengths == [route \in MCRoutes |-> IF route = "file" THEN 1..3 ELSE 1..2]

Link(secret, aud, book, idx) ==
    [secret |-> secret, live |-> TRUE, aud |-> aud, book |-> book, idx |-> idx]

MCOldLinks ==
    {Link(s1, "ebook_backend", b1, FileFileIdx),
     Link(s1, "ebook_backend", b1, CoverFileIdx),
     Link(s1, "ebook_backend", b2, FileFileIdx),
     Link(s1, "audiobook_backend", b1, FileFileIdx)}
=============================================================================

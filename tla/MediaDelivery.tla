---------------------------- MODULE MediaDelivery ----------------------------
(***************************************************************************)
(* A reader downloads a book's file, or its cover, with a signed link of   *)
(* the portal: GET /api/v1/file/... and /cover/... through                 *)
(*   - internal/httproutes/server.go: Handle, which works with the HTTP    *)
(*     handler that is in force when the request arrives and buffers the   *)
(*     whole answer;                                                       *)
(*   - internal/tokens/verify.go: Verify;                                  *)
(*   - internal/catalog/handler.go: Cover and File;                        *)
(*   - internal/bookwarehouse/client.go: GetStreamWithRange, whose timeout *)
(*     covers the body;                                                    *)
(*   - external: the upstream's file, which may be replaced, the portal    *)
(*     that signs links, and a reader that resumes what broke off by Range *)
(*     and ETag, as HTTP has it.                                           *)
(*                                                                         *)
(* Bytes are chunks, numbered from 1, of a version of the file; a Range    *)
(* header is the number of chunks the reader has.  The upstream serves     *)
(* ranges and sends a strong ETag, here the version.  Of the settings only *)
(* the signing secret matters; how it comes into force is PluginConfig's,  *)
(* and a download that continues from another upstream is one of a file    *)
(* that was replaced.  HEAD, several ranges in one request, and bodies of  *)
(* requests do not occur.                                                  *)
(***************************************************************************)
EXTENDS Integers, Sequences

CONSTANTS
    Book,          \* the book the reader wants
    Secrets, None,
    OldLinks,      \* links the reader may have kept from before
    Routes,        \* "file", "cover"
    Lengths,       \* route -> what the file may have for a length
    Declares,      \* whether an answer of the upstream has Content-Length
    Window,        \* chunks that arrive within defaultTimeout
    MaxFaults

ASSUME LinkAssumption ==
    /\ None \notin Secrets
    /\ \A l \in OldLinks : l.secret \in Secrets /\ l.live \in BOOLEAN
ASSUME TransferAssumption ==
    /\ Lengths \in [Routes -> SUBSET (Nat \ {0})]
    /\ Declares \subseteq BOOLEAN
    /\ Window \in Nat \ {0} /\ MaxFaults \in Nat

VARIABLES
    plugin,   \* whether the handler in force serves media, and its secret
    agreed,   \* the secret the portal signs with and the host configures
    files,    \* the lengths of the versions the upstream's file has had
    reader,   \* what it wants, its link, what it has of which version
    call,     \* the request in progress
    faults

vars == <<plugin, agreed, files, reader, call, faults>>

(* The version the upstream has now.                                       *)
Version == Len(files)
Length == files[Version]

-----------------------------------------------------------------------------
CoverFileIdx == -1
FileFileIdx == 0
Audience == "ebook_backend"

FileIdx(route) == IF route = "cover" THEN CoverFileIdx ELSE FileFileIdx

(* A link that the portal signs for the reader now.                        *)
Signed == [secret |-> agreed, live |-> TRUE, aud |-> Audience,
           book |-> Book, idx |-> FileIdx(reader.route)]

Verify(secret, link, book, idx) ==
    CASE secret = None -> 503
      [] /\ secret # None
         /\ link.secret = secret /\ link.live /\ link.aud = Audience
         /\ link.book = book /\ link.idx = idx -> 200
      [] OTHER -> 401

(* Before Configure the router has no media routes at all.                 *)
Gate == IF plugin.mounted
        THEN Verify(plugin.secret, reader.link, Book, FileIdx(reader.route))
        ELSE 404

(* A faulty variant: the reader's Range header stops at the plugin.        *)
RangeDropped(route, range) == 0

(* Only File passes the Range header on.                                   *)
Forwarded(route, range) == IF route = "file" THEN range ELSE 0

(* The upstream's answer to a request from this chunk on.                  *)
Answer(range, declared) ==
    [status |-> CASE range = 0 -> 200 [] range \in 1..Length - 1 -> 206
                  [] OTHER -> 416,
     tag |-> Version, first |-> range, total |-> Length,
     declared |-> declared,
     left |-> IF range < Length THEN Length - range ELSE 0]

NoAnswer == [status |-> 500, tag |-> 0, first |-> 0, total |-> 0,
             declared |-> FALSE, left |-> 0]

(* A faulty variant: 416 is an error like the others.                      *)
AnyError(status) == status >= 400

StreamError(status) == status >= 400 /\ status # 416

(* Faulty variants: Content-Length is that of the buffered body; and ETag  *)
(* is not among the headers that are copied.                               *)
RelayedAsBuffered(answer, body) ==
    [status |-> answer.status, tag |-> answer.tag, first |-> answer.first,
     total |-> answer.total, length |-> Len(body), body |-> body]
RelayedWithoutTag(answer, body) ==
    [status |-> answer.status, tag |-> 0, first |-> answer.first,
     total |-> answer.total, body |-> body,
     length |-> IF answer.declared THEN answer.total - answer.first ELSE 0]

(* The status and the headers are the upstream's (0 is none), the body     *)
(* what could be copied: io.Copy's error is dropped.                       *)
Relayed(answer, body) ==
    [status |-> answer.status, tag |-> answer.tag, first |-> answer.first,
     total |-> answer.total, body |-> body,
     length |-> IF answer.declared THEN answer.total - answer.first ELSE 0]

IdleCall == [pc |-> "idle", range |-> 0, answer |-> NoAnswer, body |-> <<>>]

Fault == faults < MaxFaults /\ faults' = faults + 1

-----------------------------------------------------------------------------
(* The reader asks for what it has not got.  Without a secret it is told   *)
(* to wait; any other refusal makes it fetch a new link.                   *)
Request ==
    /\ call.pc = "idle" /\ ~reader.done
    /\ \/ /\ Gate = 200
          /\ call' = [IdleCall EXCEPT !.pc = "get",
                        !.range = Forwarded(reader.route, Len(reader.have))]
          /\ UNCHANGED reader
       \/ /\ Gate \in {401, 404}
          /\ reader' = [reader EXCEPT !.link = Signed]
          /\ UNCHANGED call
    /\ UNCHANGED <<plugin, agreed, files, faults>>

(* The headers of the answer; an error is a 502 to the reader.             *)
GetStream ==
    /\ call.pc = "get"
    /\ \E answer \in {NoAnswer} \cup {Answer(call.range, d) : d \in Declares} :
         /\ IF answer = NoAnswer THEN Fault ELSE UNCHANGED faults
         /\ call' = IF StreamError(answer.status) THEN IdleCall
                    ELSE [call EXCEPT !.pc = "copy", !.answer = answer]
    /\ UNCHANGED <<plugin, agreed, files, reader>>

Copied == Len(call.body) = call.answer.left

CopyChunk ==
    call' = [call EXCEPT !.body =
               Append(@, <<call.answer.tag, call.answer.first + Len(@) + 1>>)]

(* A faulty variant: a client without a timeout.                           *)
CopyUntimed ==
    /\ call.pc = "copy" /\ ~Copied
    /\ CopyChunk
    /\ UNCHANGED <<plugin, agreed, files, reader, faults>>

(* defaultTimeout runs on while the body is read.                          *)
Copy ==
    /\ call.pc = "copy" /\ ~Copied /\ Len(call.body) < Window
    /\ CopyChunk
    /\ UNCHANGED <<plugin, agreed, files, reader, faults>>

(* What a reader makes of an answer.  It appends a part of the version it  *)
(* has that begins where it broke off; it starts over with a whole file,   *)
(* and from nothing if the part does not fit or there is none.             *)
Received(r, resp) ==
    LET fits == resp.tag = r.tag /\ resp.first = Len(r.have)
        all  == r.have \o resp.body
    IN  CASE resp.status = 200 ->
               [r EXCEPT !.have = resp.body, !.tag = resp.tag,
                         !.declared = resp.length # 0,
                         !.done = resp.length \in {0, Len(resp.body)}]
          [] resp.status = 206 /\ fits ->
               [r EXCEPT !.have = all, !.done = Len(all) = resp.total]
          [] OTHER -> [r EXCEPT !.have = <<>>, !.tag = 0]

Deliver ==
    /\ reader' = Received(reader, Relayed(call.answer, call.body))
    /\ call' = IdleCall

(* The body is complete; or the client's timeout, or a broken connection,  *)
(* ends it before.  The reader is answered all the same.                   *)
Finish ==
    /\ call.pc = "copy" /\ (Copied \/ Len(call.body) = Window)
    /\ Deliver
    /\ UNCHANGED <<plugin, agreed, files, faults>>

BreakOff ==
    /\ call.pc = "copy" /\ ~Copied
    /\ Fault
    /\ Deliver
    /\ UNCHANGED <<plugin, agreed, files>>

-----------------------------------------------------------------------------
(* The host configures the plugin, at first perhaps without a secret.      *)
(* Requests in progress go on with what they have.                         *)
Configure ==
    /\ \/ plugin' = [mounted |-> TRUE, secret |-> agreed] /\ UNCHANGED faults
       \/ /\ ~plugin.mounted /\ Fault
          /\ plugin' = [mounted |-> TRUE, secret |-> None]
    /\ UNCHANGED <<agreed, files, reader, call>>

Crash ==
    /\ plugin.mounted
    /\ Fault
    /\ plugin' = [mounted |-> FALSE, secret |-> None]
    /\ call' = IdleCall
    /\ UNCHANGED <<agreed, files, reader>>

ChangeSecret ==
    /\ Fault
    /\ agreed' \in Secrets \ {agreed}
    /\ UNCHANGED <<plugin, files, reader, call>>

Expire ==
    /\ reader.link.live
    /\ Fault
    /\ reader' = [reader EXCEPT !.link.live = FALSE]
    /\ UNCHANGED <<plugin, agreed, files, call>>

(* The upstream's file is replaced; what is being sent is still the old.   *)
Replace ==
    /\ ~reader.done
    /\ Fault
    /\ \E n \in Lengths[reader.route] :
         files' = Append(files, n)
    /\ UNCHANGED <<plugin, agreed, reader, call>>

-----------------------------------------------------------------------------
Init ==
    /\ plugin = [mounted |-> FALSE, secret |-> None]
    /\ agreed \in Secrets
    /\ \E route \in Routes, link \in OldLinks :
         /\ reader = [route |-> route, link |-> link, have |-> <<>>, tag |-> 0,
                      declared |-> FALSE, done |-> FALSE]
         /\ \E n \in Lengths[route] : files = <<n>>
    /\ call = IdleCall
    /\ faults = 0

Transfer == Request \/ GetStream \/ Copy \/ Finish

Next == \/ Transfer \/ BreakOff
        \/ Configure \/ Crash \/ ChangeSecret \/ Expire \/ Replace

Spec == Init /\ [][Next]_vars

(* The reader asks again, calls return, and the host configures a process  *)
(* it started and a secret that was changed.                               *)
FairSpec == Spec /\ WF_vars(Transfer)
                 /\ WF_vars(plugin.secret # agreed /\ Configure)

-----------------------------------------------------------------------------
(* Properties *)

(* Every variable keeps its type; no answer has more chunks than arrive in *)
(* time.                                                                   *)
Chunks == (1..MaxFaults + 1) \X (Nat \ {0})
MediaTypeOK ==
    /\ plugin \in [mounted : BOOLEAN, secret : Secrets \cup {None}]
    /\ agreed \in Secrets
    /\ files \in Seq(Lengths[reader.route]) /\ Version \in 1..faults + 1
    /\ reader.have \in Seq(Chunks) /\ reader.tag \in 0..Version
    /\ call.pc \in {"idle", "get", "copy"} /\ call.body \in Seq(Chunks)
    /\ Len(call.body) <= Window
    /\ faults \in 0..MaxFaults

(* However a download is cut up, by timeouts, crashes and replaced files,  *)
(* what the reader has is a beginning of one version of the file.          *)
OneVersion ==
    \A i \in DOMAIN reader.have : reader.have[i] = <<reader.tag, i>>

(* An answer that was cut off is not taken for a whole file: who has done  *)
(* has all of one version the upstream had.  It takes the upstream's       *)
(* Content-Length: the plugin's own answer is a 200 with what it copied.   *)
CompleteIsWhole ==
    reader.done /\ reader.declared
        => reader.tag > 0 /\ Len(reader.have) = files[reader.tag]

(* handler.go:303-305: a resumed download goes on where it broke off.      *)
(* Of a file, nothing the reader has is fetched again unless the upstream  *)
(* replaced it; a cover always comes anew.                                 *)
ProgressKept ==
    [][reader.route = "file" /\ Len(reader'.have) < Len(reader.have)
         => reader.tag # Version]_vars

(* Every download comes to its end, also of a file that takes longer than  *)
(* one request may: through crashes, expired links, a change of the secret *)
(* and files that shrink.                                                  *)
DownloadEnds == <>reader.done
=============================================================================

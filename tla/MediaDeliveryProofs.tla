------------------------- MODULE MediaDeliveryProofs -------------------------
(***************************************************************************)
(* Proofs about MediaDelivery: what a reader puts together from answers    *)
(* that were cut off is a beginning of one version of the file, a finished *)
(* download is whole, and a resumed one loses nothing, for files of any    *)
(* length, any timeout and any number of failures.                         *)
(***************************************************************************)
EXTENDS MediaDelivery, SequenceTheorems, TLAPS

-----------------------------------------------------------------------------
(* Types, also of the fields that MediaTypeOK does not bound.              *)
Answers == [status : {200, 206, 416, 500}, tag : Nat, first : Nat, total : Nat,
            declared : BOOLEAN, left : Nat]
Calls == [pc : {"idle", "get", "copy"}, range : Nat, answer : Answers,
          body : Seq(Chunks)]

MediaTypes ==
    /\ MediaTypeOK
    /\ reader.route \in Routes
    /\ reader.done \in BOOLEAN /\ reader.declared \in BOOLEAN
    /\ DOMAIN reader = {"route", "link", "have", "tag", "declared", "done"}
    /\ call \in Calls

(* What the reader has: a beginning of version tag, and all of it only if  *)
(* it has done.                                                            *)
ReaderInv ==
    /\ reader.tag = 0 => reader.have = <<>>
    /\ reader.tag > 0 /\ ~reader.done => Len(reader.have) < files[reader.tag]
    /\ OneVersion
    /\ CompleteIsWhole

(* What the call in progress knows: it asks for what the reader has not    *)
(* got, and its answer is of a version that is not older than the reader's *)
(* and consistent in itself.                                               *)
AnswerOf(a, range, versions) ==
    /\ a.tag \in 1..Len(versions) /\ a.total = versions[a.tag] /\ a.first = range
    /\ a.status = 200 => range = 0
    /\ a.status = 206 => range < a.total
    /\ a.status = 416 => range >= a.total
    /\ a.status # 500
    /\ a.left = IF range < a.total THEN a.total - range ELSE 0

CallInv ==
    /\ reader.done => call.pc = "idle"
    /\ call.pc # "idle" =>
         call.range = Forwarded(reader.route, Len(reader.have))
    /\ call.pc = "get" => call.body = <<>>
    /\ call.pc = "copy" =>
         /\ AnswerOf(call.answer, call.range, files)
         /\ reader.tag <= call.answer.tag
         /\ Len(call.body) <= call.answer.left
         /\ \A i \in DOMAIN call.body :
              call.body[i] = <<call.answer.tag, call.answer.first + i>>

MediaInv == MediaTypes /\ ReaderInv /\ CallInv

-----------------------------------------------------------------------------
(* Facts about single operators.                                           *)

LEMMA NoAnswerType == NoAnswer \in Answers
  BY DEF NoAnswer, Answers

LEMMA IdleType == IdleCall \in Calls /\ IdleCall.pc = "idle"
  <1>1. <<>> \in Seq(Chunks)
    BY EmptySeq
  <1> QED
    BY <1>1, NoAnswerType DEF IdleCall, Calls

LEMMA FaultCounts == ASSUME MediaTypeOK, Fault PROVE faults' \in 0..MaxFaults /\ faults' = faults + 1
  BY TransferAssumption DEF Fault, MediaTypeOK

(* The versions are lengths, and a length is never 0.                      *)
LEMMA FilesTyped ==
    ASSUME MediaTypes
    PROVE  /\ Version \in Nat \ {0}
           /\ \A v \in 1..Version : files[v] \in Nat \ {0}
           /\ files[Version] \in Nat \ {0}
  <1>1. Lengths[reader.route] \subseteq Nat \ {0}
    BY TransferAssumption DEF MediaTypes
  <1>2. files \in Seq(Lengths[reader.route]) /\ Version \in Nat \ {0}
    BY TransferAssumption DEF MediaTypes, MediaTypeOK, Version
  <1>3. \A v \in 1..Version : files[v] \in Lengths[reader.route]
    BY <1>2, ElementOfSeq DEF Version
  <1> QED
    BY <1>1, <1>2, <1>3

(* Once sent, a version stays what it was.                                 *)
LEMMA FilesGrow ==
    ASSUME MediaTypes, [Next]_vars
    PROVE  /\ Version' \in Nat /\ Version' >= Version
           /\ \A v \in 1..Version : files'[v] = files[v]
  <1> DEFINE Goal == /\ Version' \in Nat /\ Version' >= Version
                     /\ \A v \in 1..Version : files'[v] = files[v]
  <1>1. Version \in Nat
    BY FilesTyped
  <1>2. CASE UNCHANGED files
    BY <1>1, <1>2 DEF Version
  <1>3. ASSUME NEW n \in Lengths[reader.route], files' = Append(files, n)
        PROVE  Goal
    <2>1. files \in Seq(Lengths[reader.route])
      BY DEF MediaTypes, MediaTypeOK
    <2> QED
      BY <1>3, <2>1, AppendProperties DEF Version
  <1>4. UNCHANGED files \/ \E n \in Lengths[reader.route] : files' = Append(files, n)
    BY DEF Next, Transfer, Request, GetStream, Copy, Finish, BreakOff, Configure, Crash,
           ChangeSecret, Expire, Replace, vars
  <1> QED
    BY <1>2, <1>3, <1>4

(* The upstream's answer is one of its present version.                    *)
LEMMA AnswerFits ==
    ASSUME MediaTypes, NEW range \in Nat, NEW declared \in BOOLEAN
    PROVE  /\ Answer(range, declared) \in Answers
           /\ Answer(range, declared).tag = Version
           /\ AnswerOf(Answer(range, declared), range, files)
  <1>1. Version \in Nat \ {0} /\ Length \in Nat \ {0}
    BY FilesTyped DEF Length
  <1> QED
    BY <1>1 DEF Answer, Answers, AnswerOf, Length, Version

(* What the reader has stays as good as it was while it gets no answer.    *)
LEMMA ReaderKept ==
    ASSUME MediaTypes, ReaderInv, [Next]_vars,
           reader'.have = reader.have, reader'.tag = reader.tag,
           reader'.done = reader.done, reader'.declared = reader.declared
    PROVE  ReaderInv'
  <1>1. Version \in Nat /\ reader.tag \in 0..Version
    BY FilesTyped DEF MediaTypes, MediaTypeOK
  <1>2. reader.tag > 0 => files'[reader.tag] = files[reader.tag]
    BY <1>1, FilesGrow
  <1> QED
    BY <1>2 DEF ReaderInv, OneVersion, CompleteIsWhole

(* An answer stays consistent while the files grow.                        *)
LEMMA AnswerKept ==
    ASSUME MediaTypes, [Next]_vars, NEW a, NEW range, AnswerOf(a, range, files)
    PROVE  AnswerOf(a, range, files')
  <1>1. /\ Version \in Nat /\ Version' \in Nat /\ Version' >= Version
        /\ files'[a.tag] = files[a.tag]
    BY FilesTyped, FilesGrow DEF AnswerOf, Version
  <1> QED
    BY <1>1 DEF AnswerOf, Version

-----------------------------------------------------------------------------
(* The answer that the reader gets.                                        *)

(* Received, field by field.                                               *)
Fits(r, a) == a.tag = r.tag /\ a.first = Len(r.have)

LEMMA ReceivedFields ==
    ASSUME MediaTypes, NEW a \in Answers, NEW body,
           reader' = Received(reader, Relayed(a, body))
    PROVE  /\ DOMAIN reader' = DOMAIN reader /\ reader'.route = reader.route
           /\ a.status = 200 =>
                /\ reader'.have = body /\ reader'.tag = a.tag
                /\ reader'.declared = (a.declared /\ a.total - a.first # 0)
                /\ reader'.done = (~a.declared \/ a.total - a.first \in {0, Len(body)})
           /\ a.status = 206 /\ Fits(reader, a) =>
                /\ reader'.have = reader.have \o body /\ reader'.tag = reader.tag
                /\ reader'.declared = reader.declared
                /\ reader'.done = (Len(reader.have \o body) = a.total)
           /\ a.status # 200 /\ ~(a.status = 206 /\ Fits(reader, a)) =>
                /\ reader'.have = <<>> /\ reader'.tag = 0
                /\ reader'.declared = reader.declared
                /\ reader'.done = reader.done
  <1> DEFINE resp == Relayed(a, body)
  <1>1. /\ resp.status = a.status /\ resp.tag = a.tag /\ resp.first = a.first
        /\ resp.total = a.total /\ resp.body = body
        /\ resp.length = IF a.declared THEN a.total - a.first ELSE 0
    BY DEF Relayed
  <1>2. DOMAIN reader = {"route", "link", "have", "tag", "declared", "done"}
    BY DEF MediaTypes
  <1>3. a.total \in Nat /\ a.first \in Nat
    BY DEF Answers
  <1> HIDE DEF resp
  <1>4. CASE a.status = 200
    <2>1. reader' = [reader EXCEPT !.have = resp.body, !.tag = resp.tag,
                       !.declared = resp.length # 0,
                       !.done = resp.length \in {0, Len(resp.body)}]
      BY <1>1, <1>4 DEF Received, resp
    <2> QED
      BY <1>1, <1>2, <1>3, <1>4, <2>1
  <1>5. CASE a.status = 206 /\ Fits(reader, a)
    <2>1. reader' = [reader EXCEPT !.have = reader.have \o body,
                       !.done = Len(reader.have \o body) = a.total]
      BY <1>1, <1>5 DEF Received, Fits, resp
    <2> QED
      BY <1>2, <1>5, <2>1
  <1>6. CASE a.status # 200 /\ ~(a.status = 206 /\ Fits(reader, a))
    <2>1. reader' = [reader EXCEPT !.have = <<>>, !.tag = 0]
      BY <1>1, <1>6 DEF Received, Fits, resp
    <2> QED
      BY <1>2, <1>6, <2>1
  <1> QED
    BY <1>4, <1>5, <1>6

(* An answer is delivered: a whole file, a part that fits, or none.        *)
LEMMA DeliverKeeps ==
    ASSUME MediaInv, call.pc = "copy", Deliver, UNCHANGED files
    PROVE  /\ reader'.have \in Seq(Chunks) /\ reader'.tag \in 0..Version
           /\ reader'.done \in BOOLEAN /\ reader'.declared \in BOOLEAN
           /\ DOMAIN reader' = DOMAIN reader /\ reader'.route = reader.route
           /\ ReaderInv'
           /\ reader.route = "file" /\ Len(reader'.have) < Len(reader.have)
                => reader.tag # Version
  <1> DEFINE a == call.answer
             body == call.body
             have == reader.have
  <1>1. /\ a \in Answers /\ body \in Seq(Chunks) /\ have \in Seq(Chunks)
        /\ call.range \in Nat /\ reader.tag \in 0..Version
        /\ reader.done \in BOOLEAN /\ reader.declared \in BOOLEAN
    BY DEF MediaInv, MediaTypes, MediaTypeOK, Calls
  <1>2. /\ AnswerOf(a, call.range, files) /\ reader.tag <= a.tag /\ Len(body) <= a.left
        /\ \A i \in DOMAIN body : body[i] = <<a.tag, a.first + i>>
        /\ call.range = Forwarded(reader.route, Len(have)) /\ ~reader.done
    BY DEF MediaInv, CallInv
  <1>3. /\ Version \in Nat \ {0} /\ \A v \in 1..Version : files[v] \in Nat \ {0}
        /\ Version' = Version
    BY FilesTyped DEF MediaInv, Version
  <1>4. /\ a.status \in {200, 206, 416, 500} /\ a.tag \in Nat /\ a.first \in Nat
        /\ a.total \in Nat /\ a.left \in Nat /\ a.declared \in BOOLEAN
    BY <1>1 DEF Answers
  <1>5. /\ Len(have) \in Nat /\ DOMAIN have = 1..Len(have)
        /\ Len(body) \in Nat /\ DOMAIN body = 1..Len(body)
    BY <1>1, LenProperties
  <1>6. /\ reader.tag = 0 => have = <<>>
        /\ reader.tag > 0 => Len(have) < files[reader.tag]
        /\ \A i \in DOMAIN have : have[i] = <<reader.tag, i>>
    BY <1>2 DEF MediaInv, ReaderInv, OneVersion
  <1>7. reader' = Received(reader, Relayed(a, body)) /\ MediaTypes
    BY DEF Deliver, MediaInv
  <1>8. a.tag \in 1..Version /\ a.total = files[a.tag] /\ a.total \in Nat \ {0}
    BY <1>2, <1>3 DEF AnswerOf, Version
  <1> HIDE DEF a, body, have
  <1>9. CASE a.status = 200
    <2>1. call.range = 0 /\ a.first = 0 /\ a.left = a.total
      BY <1>2, <1>3, <1>4, <1>8, <1>9 DEF AnswerOf
    <2>2. /\ reader'.have = body /\ reader'.tag = a.tag
          /\ reader'.declared = (a.declared /\ a.total - a.first # 0)
          /\ reader'.done = (~a.declared \/ a.total - a.first \in {0, Len(body)})
          /\ DOMAIN reader' = DOMAIN reader /\ reader'.route = reader.route
      BY <1>1, <1>7, <1>9, ReceivedFields
    <2>3. /\ reader'.declared = a.declared
          /\ reader'.done = (~a.declared \/ Len(body) = a.total)
      <3>1. a.total - a.first = a.total /\ a.total # 0
        BY <1>8, <2>1
      <3> QED
        BY <1>4, <2>2, <3>1
    <2>4. reader'.have \in Seq(Chunks) /\ reader'.tag \in 1..Version
          /\ reader'.done \in BOOLEAN /\ reader'.declared \in BOOLEAN
      BY <1>1, <1>4, <1>8, <2>2
    <2>5. OneVersion'
      <3>1. \A i \in 1..Len(body) : a.first + i = i
        BY <1>5, <2>1
      <3>2. \A i \in DOMAIN body : body[i] = <<a.tag, i>>
        BY <1>2, <1>5, <3>1
      <3> QED
        BY <2>2, <3>2 DEF OneVersion
    <2>6. ReaderInv'
      <3>1. reader'.tag > 0 /\ files'[reader'.tag] = a.total
        BY <1>8, <2>2
      <3>2. ~reader'.done => Len(body) < a.total
        <4>1. ~reader'.done => Len(body) # a.total
          BY <2>3
        <4> QED
          BY <1>2, <1>4, <1>5, <2>1, <4>1
      <3>3. reader'.done /\ reader'.declared => Len(body) = a.total
        BY <2>3
      <3> QED
        BY <1>4, <1>8, <2>2, <2>5, <3>1, <3>2, <3>3 DEF ReaderInv, CompleteIsWhole
    <2>7. reader.route = "file" => Len(have) = 0
      BY <1>2, <1>5, <2>1 DEF Forwarded
    <2> QED
      BY <1>3, <1>5, <2>2, <2>4, <2>6, <2>7 DEF have
  <1>10. CASE a.status = 206 /\ Fits(reader, a)
    <2> DEFINE all == have \o body
    <2>1. a.tag = reader.tag /\ a.first = Len(have) /\ a.left = a.total - Len(have)
      BY <1>2, <1>4, <1>5, <1>8, <1>10 DEF AnswerOf, Fits, have
    <2>2. /\ reader'.have = all /\ reader'.tag = reader.tag
          /\ reader'.declared = reader.declared
          /\ reader'.done = (Len(all) = a.total)
          /\ DOMAIN reader' = DOMAIN reader /\ reader'.route = reader.route
      BY <1>1, <1>7, <1>10, ReceivedFields DEF have
    <2>3. /\ all \in Seq(Chunks) /\ Len(all) = Len(have) + Len(body)
          /\ \A i \in 1..Len(have) + Len(body) :
               all[i] = IF i <= Len(have) THEN have[i] ELSE body[i - Len(have)]
      BY <1>1, ConcatProperties
    <2>4. Len(all) <= a.total /\ Len(all) \in Nat /\ DOMAIN all = 1..Len(all)
      BY <1>2, <1>4, <1>5, <2>1, <2>3, LenProperties
    <2> HIDE DEF all
    <2>5. \A i \in 1..Len(all) : all[i] = <<reader.tag, i>>
      <3> TAKE i \in 1..Len(all)
      <3>1. CASE i <= Len(have)
        BY <1>5, <1>6, <2>3, <3>1
      <3>2. CASE ~(i <= Len(have))
        <4>1. i - Len(have) \in DOMAIN body /\ a.first + (i - Len(have)) = i
          BY <1>5, <2>1, <2>3, <3>2
        <4>2. body[i - Len(have)] = <<a.tag, i>>
          BY <1>2, <4>1
        <4> QED
          BY <2>1, <2>3, <3>2, <4>2
      <3> QED
        BY <3>1, <3>2
    <2>6. OneVersion'
      BY <2>2, <2>4, <2>5 DEF OneVersion
    <2>7. ReaderInv'
      <3>1. reader'.tag > 0 /\ files'[reader'.tag] = a.total
        BY <1>3, <1>4, <1>8, <2>1, <2>2
      <3>2. ~reader'.done => Len(all) < a.total
        <4>1. ~reader'.done => Len(all) # a.total
          BY <2>2
        <4> QED
          BY <1>4, <2>4, <4>1
      <3>3. reader'.done => Len(all) = a.total
        BY <2>2
      <3> QED
        BY <2>2, <2>6, <3>1, <3>2, <3>3 DEF ReaderInv, CompleteIsWhole
    <2>8. Len(all) >= Len(have)
      BY <1>5, <2>3
    <2> QED
      BY <1>1, <1>4, <1>5, <2>2, <2>3, <2>4, <2>7, <2>8 DEF have
  <1>11. CASE a.status # 200 /\ ~(a.status = 206 /\ Fits(reader, a))
    <2>1. /\ reader'.have = <<>> /\ reader'.tag = 0
          /\ reader'.declared = reader.declared /\ reader'.done = reader.done
          /\ DOMAIN reader' = DOMAIN reader /\ reader'.route = reader.route
      BY <1>1, <1>7, <1>11, ReceivedFields
    <2>2. ReaderInv'
      BY <1>2, <2>1 DEF ReaderInv, OneVersion, CompleteIsWhole
    <2>3. ASSUME reader.route = "file", Len(<<>>) < Len(have), reader.tag = Version
          PROVE  FALSE
      <3>1. call.range = Len(have) /\ a.tag = Version /\ a.first = Len(have)
        BY <1>2, <1>3, <1>4, <1>8, <2>3 DEF AnswerOf, Forwarded
      <3>2. a.status # 206
        BY <1>11, <2>3, <3>1 DEF Fits, have
      <3>3. a.status = 416
        BY <1>2, <1>4, <1>11, <3>2 DEF AnswerOf
      <3> QED
        BY <1>2, <1>3, <1>5, <1>6, <1>8, <2>3, <3>1, <3>3 DEF AnswerOf
    <2>4. <<>> \in Seq(Chunks)
      BY EmptySeq
    <2> QED
      BY <1>1, <1>3, <2>1, <2>2, <2>3, <2>4 DEF have
  <1> QED
    BY <1>9, <1>10, <1>11

-----------------------------------------------------------------------------
(* The steps.  Most leave alone what the reader has; then what it has, and *)
(* what a call knows, is as good as before.                                *)
Unread == /\ reader'.have = reader.have /\ reader'.tag = reader.tag
          /\ reader'.done = reader.done /\ reader'.declared = reader.declared
          /\ reader'.route = reader.route /\ DOMAIN reader' = DOMAIN reader

LEMMA CallKept ==
    ASSUME MediaInv, [Next]_vars, Unread, UNCHANGED call
    PROVE  CallInv'
  <1>1. AnswerOf(call.answer, call.range, files) => AnswerOf(call.answer, call.range, files')
    BY AnswerKept DEF MediaInv
  <1> QED
    BY <1>1 DEF MediaInv, CallInv, Unread

LEMMA CallEnds == ASSUME call' = IdleCall PROVE CallInv' /\ call' \in Calls
  BY IdleType DEF CallInv

LEMMA TypesKept ==
    ASSUME MediaInv, [Next]_vars, Unread, call' \in Calls, Len(call'.body) <= Window,
           plugin' \in [mounted : BOOLEAN, secret : Secrets \cup {None}],
           agreed' \in Secrets, faults' \in faults..MaxFaults,
           files' = files \/ /\ faults' = faults + 1
                             /\ \E n \in Lengths[reader.route] : files' = Append(files, n)
    PROVE  MediaTypes'
  <1>1. /\ files \in Seq(Lengths[reader.route]) /\ Version \in 1..faults + 1
        /\ reader.tag \in 0..Version /\ faults \in 0..MaxFaults
    BY DEF MediaInv, MediaTypes, MediaTypeOK
  <1>2. files' \in Seq(Lengths[reader.route]) /\ Version' \in 1..faults' + 1
        /\ Version' >= Version
    <2>1. CASE files' = files
      BY <1>1, <2>1 DEF Version
    <2>2. ASSUME NEW n \in Lengths[reader.route], files' = Append(files, n),
                 faults' = faults + 1
          PROVE  /\ files' \in Seq(Lengths[reader.route]) /\ Version' \in 1..faults' + 1
                 /\ Version' >= Version
      BY <1>1, <2>2, AppendProperties DEF Version
    <2> QED
      BY <2>1, <2>2
  <1>3. reader'.tag \in 0..Version' /\ faults' \in 0..MaxFaults
    BY <1>1, <1>2 DEF Unread
  <1> QED
    BY <1>2, <1>3 DEF MediaInv, MediaTypes, MediaTypeOK, Unread, Calls

Step == MediaInv' /\ (reader.route = "file" /\ Len(reader'.have) < Len(reader.have)
                        => reader.tag # Version)

(* A step that delivers nothing is good if the call and the types are.     *)
LEMMA UnreadStep ==
    ASSUME MediaInv, [Next]_vars, Unread, MediaTypes', CallInv' PROVE Step
  <1>1. ReaderInv'
    BY ReaderKept DEF MediaInv, Unread
  <1>2. Len(reader.have) \in Nat /\ reader'.have = reader.have
    BY LenProperties DEF MediaInv, MediaTypes, MediaTypeOK, Unread
  <1> QED
    BY <1>1, <1>2 DEF Step, MediaInv

LEMMA RequestStep == ASSUME MediaInv, Request PROVE Step
  <1>n. [Next]_vars
    BY DEF Next, Transfer
  <1>1. /\ faults \in 0..MaxFaults /\ Window \in Nat /\ Len(reader.have) \in Nat
        /\ Len(call.body) <= Window
    BY TransferAssumption, LenProperties DEF MediaInv, MediaTypes, MediaTypeOK
  <1>2. ASSUME call' = [IdleCall EXCEPT !.pc = "get",
                          !.range = Forwarded(reader.route, Len(reader.have))],
               UNCHANGED reader
        PROVE  Step
    <2>1. /\ call'.pc = "get" /\ call'.body = <<>> /\ Len(call'.body) = 0
          /\ call'.range = Forwarded(reader.route, Len(reader.have))
          /\ call' \in Calls
      BY <1>1, <1>2, NoAnswerType, EmptySeq DEF IdleCall, Calls, Forwarded
    <2>2. CallInv'
      BY <1>2, <2>1 DEF CallInv, Request
    <2>3. MediaTypes'
      BY <1>1, <1>2, <1>n, <2>1, TypesKept
         DEF Request, Unread, MediaInv, MediaTypes, MediaTypeOK
    <2> QED
      BY <1>2, <1>n, <2>2, <2>3, UnreadStep DEF Unread
  <1>3. ASSUME reader' = [reader EXCEPT !.link = Signed], UNCHANGED call PROVE Step
    <2>1. Unread
      BY <1>3 DEF Unread, MediaInv, MediaTypes
    <2>2. MediaTypes'
      BY <1>1, <1>3, <1>n, <2>1, TypesKept DEF Request, MediaInv, MediaTypes, MediaTypeOK
    <2> QED
      BY <1>3, <1>n, <2>1, <2>2, CallKept, UnreadStep
  <1> QED
    BY <1>2, <1>3 DEF Request

LEMMA GetStreamStep == ASSUME MediaInv, GetStream PROVE Step
  <1>n. [Next]_vars
    BY DEF Next, Transfer
  <1>1. /\ call \in Calls /\ call.range \in Nat /\ call.body = <<>> /\ Window \in Nat
        /\ Len(call.body) = 0 /\ Declares \subseteq BOOLEAN /\ ~reader.done
        /\ faults \in 0..MaxFaults
    BY TransferAssumption, EmptySeq
       DEF MediaInv, MediaTypes, MediaTypeOK, Calls, CallInv, GetStream
  <1>2. PICK answer \in {NoAnswer} \cup {Answer(call.range, d) : d \in Declares} :
          /\ IF answer = NoAnswer THEN Fault ELSE UNCHANGED faults
          /\ call' = IF StreamError(answer.status) THEN IdleCall
                     ELSE [call EXCEPT !.pc = "copy", !.answer = answer]
    BY DEF GetStream
  <1>3. Unread /\ UNCHANGED <<plugin, agreed, files>> /\ faults' \in faults..MaxFaults
    BY <1>1, <1>2, FaultCounts DEF GetStream, Unread, MediaInv, MediaTypes
  <1>4. CallInv' /\ call' \in Calls /\ Len(call'.body) <= Window
    <2>1. CASE StreamError(answer.status)
      <3>1. IdleCall.body = <<>> /\ Len(<<>>) = 0
        BY EmptySeq DEF IdleCall
      <3> QED
        BY <1>1, <1>2, <2>1, <3>1, CallEnds
    <2>2. CASE ~StreamError(answer.status)
      <3>1. answer # NoAnswer
        BY <2>2 DEF StreamError, NoAnswer
      <3>2. PICK d \in BOOLEAN : answer = Answer(call.range, d)
        BY <1>1, <1>2, <3>1
      <3>3. answer \in Answers /\ answer.tag = Version /\ AnswerOf(answer, call.range, files)
        BY <1>1, <3>2, AnswerFits DEF MediaInv
      <3>4. call' = [call EXCEPT !.pc = "copy", !.answer = answer]
        BY <1>2, <2>2
      <3>5. /\ call'.pc = "copy" /\ call'.answer = answer /\ call'.range = call.range
            /\ call'.body = <<>> /\ call' \in Calls
        BY <1>1, <3>3, <3>4 DEF Calls
      <3>6. AnswerOf(answer, call.range, files')
        BY <1>n, <3>3, AnswerKept DEF MediaInv
      <3>7. answer.left \in Nat /\ DOMAIN <<>> = {} /\ reader.tag <= answer.tag
        BY <3>3 DEF Answers, MediaInv, MediaTypes, MediaTypeOK
      <3>8. call.range = Forwarded(reader.route, Len(reader.have))
        BY DEF GetStream, MediaInv, CallInv
      <3>9. UNCHANGED reader
        BY DEF GetStream
      <3>10. CallInv'
        BY <1>1, <3>5, <3>6, <3>7, <3>8, <3>9 DEF CallInv
      <3> QED
        BY <1>1, <3>5, <3>10
    <2> QED
      BY <2>1, <2>2
  <1>5. MediaTypes'
    BY <1>n, <1>3, <1>4, TypesKept DEF MediaInv, MediaTypes, MediaTypeOK
  <1> QED
    BY <1>n, <1>3, <1>4, <1>5, UnreadStep

LEMMA CopyStep == ASSUME MediaInv, Copy PROVE Step
  <1>n. [Next]_vars
    BY DEF Next, Transfer
  <1> DEFINE a == call.answer
             n == Len(call.body)
             chunk == <<a.tag, a.first + n + 1>>
  <1>1. /\ call \in Calls /\ a \in Answers /\ call.body \in Seq(Chunks) /\ Window \in Nat
        /\ a.left \in Nat /\ a.first \in Nat /\ n \in Nat /\ n < Window
        /\ faults \in 0..MaxFaults /\ Version \in 1..faults + 1
    BY TransferAssumption, LenProperties
       DEF MediaInv, MediaTypes, MediaTypeOK, Calls, Copy, Answers
  <1>2. /\ AnswerOf(a, call.range, files) /\ reader.tag <= a.tag /\ n <= a.left /\ n # a.left
        /\ \A i \in DOMAIN call.body : call.body[i] = <<a.tag, a.first + i>>
        /\ call.range = Forwarded(reader.route, Len(reader.have)) /\ ~reader.done
        /\ call.pc = "copy"
    BY DEF MediaInv, CallInv, Copy, Copied
  <1>3. chunk \in Chunks
    <2>1. a.tag \in 1..MaxFaults + 1
      BY <1>1, <1>2, TransferAssumption DEF AnswerOf, Version
    <2> QED
      BY <1>1, <2>1 DEF Chunks
  <1>4. call' = [call EXCEPT !.body = Append(call.body, chunk)]
    BY DEF Copy, CopyChunk
  <1> HIDE DEF a, n, chunk
  <1>5. /\ call'.pc = "copy" /\ call'.answer = a /\ call'.range = call.range
        /\ call'.body = Append(call.body, chunk) /\ call' \in Calls
        /\ Len(call'.body) = n + 1 /\ DOMAIN call'.body = 1..n + 1
    <2>1. /\ Append(call.body, chunk) \in Seq(Chunks)
          /\ Len(Append(call.body, chunk)) = n + 1
      BY <1>1, <1>3, AppendProperties DEF n
    <2>2. DOMAIN Append(call.body, chunk) = 1..n + 1
      BY <2>1, LenProperties
    <2> QED
      BY <1>1, <1>2, <1>4, <2>1, <2>2 DEF Calls, a
  <1>6. \A i \in 1..n + 1 : call'.body[i] = <<a.tag, a.first + i>>
    <2>1. /\ \A i \in 1..n : call'.body[i] = call.body[i]
          /\ call'.body[n + 1] = <<a.tag, a.first + (n + 1)>>
      <3>1. /\ \A i \in 1..n : Append(call.body, chunk)[i] = call.body[i]
            /\ Append(call.body, chunk)[n + 1] = chunk
        BY <1>1, <1>3, AppendProperties DEF n
      <3>2. a.first + n + 1 = a.first + (n + 1)
        BY <1>1
      <3> QED
        BY <1>5, <3>1, <3>2 DEF chunk
    <2>2. \A i \in 1..n : i \in DOMAIN call.body
      BY <1>1, LenProperties DEF n
    <2>3. \A i \in 1..n + 1 : i \in 1..n \/ i = n + 1
      BY <1>1
    <2> QED
      BY <1>2, <2>1, <2>2, <2>3
  <1>7. UNCHANGED <<plugin, agreed, files, reader, faults>>
    BY DEF Copy
  <1>8. AnswerOf(a, call.range, files')
    BY <1>n, <1>2, AnswerKept DEF MediaInv
  <1>9. n + 1 <= a.left /\ n + 1 <= Window
    BY <1>1, <1>2
  <1>10. CallInv'
    BY <1>2, <1>5, <1>6, <1>7, <1>8, <1>9 DEF CallInv
  <1>11. MediaTypes'
    BY <1>n, <1>1, <1>5, <1>7, <1>9, TypesKept DEF Unread, MediaInv, MediaTypes, MediaTypeOK
  <1> QED
    BY <1>n, <1>7, <1>10, <1>11, UnreadStep DEF Unread

(* Both ends of a copy deliver what there is.                              *)
LEMMA DeliverStep == ASSUME MediaInv, Finish \/ BreakOff PROVE Step
  <1>1. /\ call.pc = "copy" /\ Deliver /\ UNCHANGED <<plugin, agreed, files>>
        /\ UNCHANGED faults \/ Fault
    BY DEF Finish, BreakOff
  <1>2. /\ reader'.have \in Seq(Chunks) /\ reader'.tag \in 0..Version
        /\ reader'.done \in BOOLEAN /\ reader'.declared \in BOOLEAN
        /\ DOMAIN reader' = DOMAIN reader /\ reader'.route = reader.route
        /\ ReaderInv'
        /\ reader.route = "file" /\ Len(reader'.have) < Len(reader.have)
             => reader.tag # Version
    BY <1>1, DeliverKeeps
  <1>3. call' = IdleCall /\ CallInv' /\ call' \in Calls
    BY <1>1, CallEnds DEF Deliver
  <1>4. IdleCall.body = <<>> /\ Len(<<>>) = 0 /\ Window \in Nat
    BY EmptySeq, TransferAssumption DEF IdleCall
  <1>5. faults \in 0..MaxFaults /\ faults' \in faults..MaxFaults
    BY <1>1, FaultCounts DEF MediaInv, MediaTypes, MediaTypeOK
  <1>6. Version' = Version /\ Version \in 1..faults' + 1 /\ faults' \in 0..MaxFaults
    BY <1>1, <1>5 DEF Version, MediaInv, MediaTypes, MediaTypeOK
  <1>7. call'.pc \in {"idle", "get", "copy"} /\ call'.body \in Seq(Chunks)
        /\ Len(call'.body) <= Window
    BY <1>3, <1>4, EmptySeq, IdleType DEF Calls
  <1>8. files' \in Seq(Lengths[reader'.route]) /\ Version' \in 1..faults' + 1
        /\ reader'.tag \in 0..Version'
    BY <1>1, <1>2, <1>6 DEF MediaInv, MediaTypes, MediaTypeOK
  <1>9. MediaTypes'
    BY <1>1, <1>2, <1>3, <1>6, <1>7, <1>8 DEF MediaInv, MediaTypes, MediaTypeOK
  <1> QED
    BY <1>2, <1>3, <1>9 DEF Step, MediaInv

(* The environment: it moves neither what the reader has nor an answer.    *)
LEMMA EnvironmentStep ==
    ASSUME MediaInv, Configure \/ Crash \/ ChangeSecret \/ Expire \/ Replace \/ UNCHANGED vars
    PROVE  Step
  <1>n. [Next]_vars
    BY DEF Next
  <1>1. /\ faults \in 0..MaxFaults /\ MaxFaults \in Nat /\ agreed \in Secrets
        /\ plugin \in [mounted : BOOLEAN, secret : Secrets \cup {None}]
        /\ call \in Calls /\ Len(call.body) <= Window /\ Window \in Nat
        /\ DOMAIN reader = {"route", "link", "have", "tag", "declared", "done"}
        /\ MediaTypeOK
    BY TransferAssumption DEF MediaInv, MediaTypes, MediaTypeOK
  <1>2. Unread
    BY <1>1 DEF Unread, Configure, Crash, ChangeSecret, Expire, Replace, vars
  <1>3. UNCHANGED call \/ call' = IdleCall
    BY DEF Configure, Crash, ChangeSecret, Expire, Replace, vars
  <1>4. CallInv' /\ call' \in Calls /\ Len(call'.body) <= Window
    <2>1. IdleCall.body = <<>> /\ Len(<<>>) = 0
      BY EmptySeq DEF IdleCall
    <2> QED
      BY <1>n, <1>1, <1>2, <1>3, <2>1, CallKept, CallEnds
  <1>5. /\ plugin' \in [mounted : BOOLEAN, secret : Secrets \cup {None}]
        /\ agreed' \in Secrets
    <2>1. \/ UNCHANGED plugin
          \/ plugin' = [mounted |-> TRUE, secret |-> agreed]
          \/ plugin' = [mounted |-> TRUE, secret |-> None]
          \/ plugin' = [mounted |-> FALSE, secret |-> None]
      BY DEF Configure, Crash, ChangeSecret, Expire, Replace, vars
    <2>2. UNCHANGED agreed \/ agreed' \in Secrets
      BY DEF Configure, Crash, ChangeSecret, Expire, Replace, vars
    <2>3. plugin' \in [mounted : BOOLEAN, secret : Secrets \cup {None}]
      <3>1. CASE UNCHANGED plugin
        BY <1>1, <3>1
      <3>2. CASE plugin' = [mounted |-> TRUE, secret |-> agreed]
        BY <1>1, <3>2
      <3>3. CASE plugin' = [mounted |-> TRUE, secret |-> None]
        BY <3>3
      <3>4. CASE plugin' = [mounted |-> FALSE, secret |-> None]
        BY <3>4
      <3> QED
        BY <2>1, <3>1, <3>2, <3>3, <3>4
    <2> QED
      BY <1>1, <2>2, <2>3
  <1>6. faults' \in faults..MaxFaults
    BY <1>1, FaultCounts DEF Configure, Crash, ChangeSecret, Expire, Replace, vars
  <1>7. files' = files \/ /\ faults' = faults + 1
                          /\ \E n \in Lengths[reader.route] : files' = Append(files, n)
    BY <1>1, FaultCounts DEF Configure, Crash, ChangeSecret, Expire, Replace, vars
  <1>8. MediaTypes'
    BY <1>n, <1>2, <1>4, <1>5, <1>6, <1>7, TypesKept
  <1> QED
    BY <1>n, <1>2, <1>4, <1>8, UnreadStep

LEMMA EveryStep == MediaInv /\ [Next]_vars => Step
  BY RequestStep, GetStreamStep, CopyStep, DeliverStep, EnvironmentStep DEF Next, Transfer

LEMMA Single == ASSUME NEW S, NEW e \in S PROVE <<e>> \in Seq(S) /\ Len(<<e>>) = 1
  OBVIOUS

LEMMA MediaInit == Init => MediaInv
  <1> SUFFICES ASSUME Init PROVE MediaInv
    OBVIOUS
  <1>1. PICK route \in Routes, link \in OldLinks :
          /\ reader = [route |-> route, link |-> link, have |-> <<>>, tag |-> 0,
                       declared |-> FALSE, done |-> FALSE]
          /\ \E n \in Lengths[route] : files = <<n>>
    BY DEF Init
  <1>2. PICK n \in Lengths[route] : files = <<n>>
    BY <1>1
  <1>3. /\ files \in Seq(Lengths[reader.route]) /\ Version = 1
        /\ reader.have \in Seq(Chunks) /\ DOMAIN reader.have = {}
    <2>1. reader.route = route /\ reader.have = <<>>
      BY <1>1
    <2>2. <<n>> \in Seq(Lengths[route]) /\ Len(<<n>>) = 1
      BY Single
    <2>3. <<>> \in Seq(Chunks) /\ DOMAIN <<>> = {}
      BY EmptySeq
    <2> QED
      BY <1>2, <2>1, <2>2, <2>3 DEF Version
  <1>4. call = IdleCall /\ call \in Calls /\ Len(call.body) = 0 /\ Window \in Nat
    BY IdleType, TransferAssumption, EmptySeq DEF Init, IdleCall
  <1>5. plugin \in [mounted : BOOLEAN, secret : Secrets \cup {None}] /\ agreed \in Secrets
        /\ faults = 0 /\ MaxFaults \in Nat
    BY TransferAssumption DEF Init
  <1>6. MediaTypes
    BY <1>1, <1>3, <1>4, <1>5 DEF MediaTypes, MediaTypeOK, Calls
  <1>7. ReaderInv
    BY <1>1, <1>3 DEF ReaderInv, OneVersion, CompleteIsWhole
  <1>8. CallInv
    BY <1>4, IdleType DEF CallInv
  <1> QED
    BY <1>6, <1>7, <1>8 DEF MediaInv

-----------------------------------------------------------------------------
(* The inductive invariant.                                                *)
LEMMA MediaInvariance == Spec => []MediaInv
  <1>1. MediaInv /\ [Next]_vars => MediaInv'
    BY EveryStep DEF Step
  <1> QED
    BY <1>1, MediaInit, PTL DEF Spec

(* Every variable keeps its type, and no answer outlasts the timeout.      *)
THEOREM MediaIsTyped == Spec => []MediaTypeOK
  <1>1. MediaInv => MediaTypeOK
    BY DEF MediaInv, MediaTypes
  <1> QED
    BY <1>1, MediaInvariance, PTL

(* What a reader has put together is a beginning of one version of the     *)
(* file: Range, ETag and the dropped error of io.Copy never mix two.       *)
THEOREM DownloadsAreOfOneVersion == Spec => []OneVersion
  <1>1. MediaInv => OneVersion
    BY DEF MediaInv, ReaderInv
  <1> QED
    BY <1>1, MediaInvariance, PTL

(* Who has done has a whole version, if the upstream declared its length.  *)
THEOREM CompleteDownloadsAreWhole == Spec => []CompleteIsWhole
  <1>1. MediaInv => CompleteIsWhole
    BY DEF MediaInv, ReaderInv
  <1> QED
    BY <1>1, MediaInvariance, PTL

(* A resumed download of a file loses nothing it has unless the upstream   *)
(* replaced the file.                                                      *)
THEOREM ProgressIsKept == Spec => ProgressKept
  <1>1. MediaInv /\ [Next]_vars
          => [reader.route = "file" /\ Len(reader'.have) < Len(reader.have)
                => reader.tag # Version]_vars
    BY EveryStep DEF Step
  <1> QED
    BY <1>1, MediaInvariance, PTL DEF Spec, ProgressKept
=============================================================================

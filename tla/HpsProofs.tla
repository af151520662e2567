------------------------------- MODULE HpsProofs -------------------------------
(***************************************************************************)
(* Proofs about Hps, for all calls, replies, providers and sizes of a read: *)
(* the proxy service and its client implement RemoteCall.                   *)
(*                                                                          *)
(* The argument follows a request through the variables of the device.  As  *)
(* long as no write is lost they hold, while the URL and the body are       *)
(* written, exactly what was written (PreparedInv), since the URL clears    *)
(* what earlier requests left.  Once a good status can be read, by a call   *)
(* that was carried out or has lost no write, the body holds the reply of   *)
(* the execution that the call caused (AnsweredInv); and what was received  *)
(* is the part of it before the cursor (CursorInv), so that an empty read   *)
(* comes at its end.  All of this is known only while the connection is up: *)
(* a device that restarts loses its variables, and the connection with them.*)
(***************************************************************************)
EXTENDS Hps, SequenceTheorems, TLAPS

RequestBody == RequestOf(hpsCall).body

\* What is kept of the URL and the body is what this request has written.
PreparedInv ==
  (link = "up" /\ ~writeLost) =>
    /\ pc \in {"body", "control"} => curUrl = hpsCall.url
    /\ pc = "body" => hpsCall.body # NoBody /\ curBody \o unsent = hpsCall.body
    /\ (pc = "body" /\ FitsOneWrite) => curBody = <<>>
    /\ pc = "control" => /\ curBody = RequestBody
                         /\ ~hpsCall.chunking => lastBodyChunk = RequestBody

LatestReply == Head(hpsExecutions).reply

\* What is read belongs to the call: it has lost no write, or was carried out anyway.
Answering == link = "up" /\ (~writeLost \/ hpsExecutions # <<>>)

\* A good status is that of this request, whose reply is kept for it.
AnsweredInv ==
  (Answering /\ pc \in {"status", "reply"} /\ StatusIsGood) =>
    /\ hpsExecutions # <<>> /\ LatestReply = curBody /\ curBody # <<>>
    /\ curReplyIsChunked = hpsCall.chunking

\* The cursor starts at the reply's beginning; what was received is what is before it.
CursorInv ==
  /\ pc # "reply" => received = <<>>
  /\ (Answering /\ pc = "status") => curBodyReadOffset = 0
  /\ (Answering /\ pc = "reply") =>
       /\ StatusIsGood
       /\ curReplyIsChunked =>
            /\ curBodyReadOffset \in 0 .. Len(curBody)
            /\ received = SubSeq(curBody, 1, curBodyReadOffset)

\* Nothing is executed before the control point is written, or returned before the end.
ProgressInv ==
  /\ pc \in {"url", "body", "control"} => hpsExecutions = <<>>
  /\ pc # "idle" => hpsResult = NoHpsReply

HpsIInv == HpsTypeOK /\ PreparedInv /\ AnsweredInv /\ CursorInv /\ ProgressInv


\* The part of HpsTypeOK that is about the device.
DeviceTypeOK ==
  /\ curUrl \in CalledUrls
  /\ curBody \in Seq(Units) /\ lastBodyChunk \in Seq(Units)
  /\ curReplyIsChunked \in BOOLEAN
  /\ curBodyReadOffset \in Nat
  /\ curHttpStatus \in {0, 200, 400, 404, 413}
  /\ curDataStatus \in {"EMPTY", "BodyReceived", "BodyTruncated"}

--------------------------------------------------------------------------------

(* Sequences that are written and read in parts. *)

LEMMA MinOfTwo ==
  ASSUME NEW a \in Nat, NEW b \in Nat
  PROVE  Min({a, b}) = IF a <= b THEN a ELSE b
  BY DEF Min

\* A part of at most n units and the rest make the whole.
LEMMA SplitSequence ==
  ASSUME NEW s \in Seq(Units), NEW n \in Nat \ {0}
  PROVE  LET part == SubSeq(s, 1, Min({n, Len(s)}))
             rest == SubSeq(s, n + 1, Len(s))
         IN  part \in Seq(Units) /\ rest \in Seq(Units) /\ part \o rest = s
<1> DEFINE part == SubSeq(s, 1, Min({n, Len(s)}))
           rest == SubSeq(s, n + 1, Len(s))
<1>1. Len(s) \in Nat /\ \A i \in 1 .. Len(s) : s[i] \in Units
  BY LenProperties
<1>2. Min({n, Len(s)}) = IF n <= Len(s) THEN n ELSE Len(s)
  BY <1>1, MinOfTwo
<1>3. part \in Seq(Units)
  <2> DEFINE m == Min({n, Len(s)})
  <2>1. m \in 0 .. Len(s) /\ part = SubSeq(s, 1, m)
    BY <1>1, <1>2
  <2> HIDE DEF m
  <2>2. \A i \in 1 .. m : s[i] \in Units
    BY <1>1, <2>1
  <2>3. SubSeq(s, 1, m) \in Seq(Units)
    BY <2>1, <2>2, SubSeqProperties
  <2> QED
    BY <2>1, <2>3
<1>4. rest \in Seq(Units)
  BY <1>1, SubSeqProperties
<1>5. ASSUME n <= Len(s) PROVE part \o rest = s
  <2>1. part = SubSeq(s, 1, n)
    BY <1>2, <1>5
  <2>2. /\ 1 \in 1 .. Len(s) + 1 /\ n \in 1 - 1 .. Len(s) /\ Len(s) \in n .. Len(s)
    BY <1>1, <1>5
  <2>3. part \o rest = SubSeq(s, 1, Len(s))
    BY <2>1, <2>2, ConcatAdjacentSubSeq
  <2> QED
    BY <2>3, SubSeqFull
<1>6. ASSUME n > Len(s) PROVE part \o rest = s
  <2>1. rest = <<>>
    BY <1>1, <1>6, SubSeqEmpty
  <2>2. part = s
    BY <1>1, <1>2, <1>6, SubSeqFull
  <2> QED
    BY <2>1, <2>2, ConcatEmptySeq
<1> HIDE DEF part, rest
<1>7. part \o rest = s
  BY <1>1, <1>5, <1>6
<1> QED
  BY <1>3, <1>4, <1>7 DEF part, rest

\* Reads of slices are adjacent, stay in the body, and are empty only at its end.
LEMMA Slices ==
  ASSUME HpsTypeOK, curReplyIsChunked, BodyIsReadable
  PROVE  LET next == curBodyReadOffset + Len(BodyRead)
         IN  /\ BodyRead \in Seq(Units)
             /\ next \in 0 .. Len(curBody)
             /\ SubSeq(curBody, 1, curBodyReadOffset) \o BodyRead = SubSeq(curBody, 1, next)
             /\ BodyRead = <<>> => curBodyReadOffset = Len(curBody)
<1> DEFINE off == curBodyReadOffset
           end == Min({off + HPSMaxBodySize, Len(curBody)})
<1>1. /\ curBody \in Seq(Units) /\ Len(curBody) \in Nat
      /\ \A i \in 1 .. Len(curBody) : curBody[i] \in Units
  BY LenProperties DEF HpsTypeOK
<1>2. off \in 0 .. Len(curBody) /\ HPSMaxBodySize \in Nat \ {0}
  BY HpsAssumption DEF HpsTypeOK, BodyIsReadable
<1>3. end = IF off + HPSMaxBodySize <= Len(curBody) THEN off + HPSMaxBodySize ELSE Len(curBody)
  BY <1>1, <1>2, MinOfTwo
<1>4. end \in off .. Len(curBody) /\ (off < Len(curBody) => off < end)
  BY <1>1, <1>2, <1>3
<1>5. BodyRead = SubSeq(curBody, off + 1, end)
  BY DEF BodyRead
<1> HIDE DEF end
<1>6. BodyRead \in Seq(Units) /\ Len(BodyRead) = end - off
  BY <1>1, <1>2, <1>4, <1>5, SubSeqProperties
<1>7. SubSeq(curBody, 1, off) \o BodyRead = SubSeq(curBody, 1, end)
  BY <1>1, <1>2, <1>4, <1>5, ConcatAdjacentSubSeq
<1>8. BodyRead = <<>> => off = Len(curBody)
  BY <1>1, <1>2, <1>4, <1>6, EmptySeq
<1> QED
  BY <1>1, <1>2, <1>4, <1>6, <1>7, <1>8

--------------------------------------------------------------------------------

(* The invariant, one lemma per action. *)

LEMMA InitIInv == HpsInit => HpsIInv
<1>1. <<>> \in Seq(Units) /\ Len(<<>>) = 0
  BY EmptySeq
<1>2. ASSUME HpsInit PROVE HpsTypeOK
  <2> USE <1>2 DEF HpsInit
  <2>1. (pc = "idle") = (hpsCall = NoHpsCall)
    OBVIOUS
  <2>2. curUrl \in CalledUrls
    BY DEF CalledUrls
  <2>3. curReplyIsChunked \in BOOLEAN /\ curBodyReadOffset \in Nat
    OBVIOUS
  <2> QED
    BY <1>1, <2>1, <2>2, <2>3 DEF HpsTypeOK
<1> QED
  BY <1>2 DEF HpsInit, HpsIInv, PreparedInv, AnsweredInv, CursorInv, ProgressInv, Answering

\* The end of a call leaves nothing to be known but the types.
LEMMA EndsPreserves ==
  ASSUME NEW v, Ends(v), DeviceTypeOK', link' \in {"none", "up", "lost"}
  PROVE  HpsIInv'
<1>1. <<>> \in Seq(Units)
  BY EmptySeq
<1>2. HpsTypeOK'
  BY <1>1 DEF Ends, DeviceTypeOK, HpsTypeOK
<1> QED
  BY <1>2 DEF Ends, HpsIInv, PreparedInv, AnsweredInv, CursorInv, ProgressInv, Answering

LEMMA FailsPreserves == HpsIInv /\ Fails => HpsIInv'
<1> SUFFICES ASSUME HpsIInv, Fails PROVE HpsIInv'
  OBVIOUS
<1>1. DeviceTypeOK' /\ link' \in {"none", "up", "lost"}
  BY DEF HpsIInv, HpsTypeOK, Fails, deviceVars, bodyVars, replyVars, DeviceTypeOK
<1> QED
  BY <1>1, EndsPreserves DEF Fails

LEMMA CallPreserves == ASSUME NEW c \in HpsCalls, HpsIInv, Call(c) PROVE HpsIInv'
<1> USE DEF HpsIInv, Call, deviceVars, bodyVars, replyVars
<1>1. HpsTypeOK'
  BY HpsAssumption DEF HpsTypeOK, BodyIsReadable
<1>2. PreparedInv' /\ AnsweredInv' /\ ProgressInv'
  BY DEF PreparedInv, AnsweredInv, ProgressInv, Answering
<1>3. CursorInv'
  BY DEF CursorInv, Answering
<1> QED
  BY <1>1, <1>2, <1>3

LEMMA WriteUrlPreserves == HpsIInv /\ WriteUrl => HpsIInv'
<1> SUFFICES ASSUME HpsIInv, WriteUrl PROVE HpsIInv'
  OBVIOUS
<1> USE DEF HpsIInv, WriteUrl, deviceVars, bodyVars, replyVars, UrlWritten, SetFails
<1>1. <<>> \in Seq(Units) /\ hpsCall \in HpsCallType
  BY EmptySeq, HpsAssumption DEF HpsTypeOK
<1>2. HpsTypeOK'
  <2>3. hpsCall \in HpsCalls
    BY DEF HpsTypeOK
  <2>4. hpsCall.url \in CalledUrls
    BY <2>3 DEF CalledUrls
  <2>1. unsent' \in Seq(Units) /\ curUrl' \in CalledUrls
    BY <1>1, <2>4 DEF HpsTypeOK, HpsCallType
  <2>2. curBody' \in Seq(Units) /\ lastBodyChunk' \in Seq(Units)
    BY <1>1 DEF HpsTypeOK
  <2>5. writeLost' \in BOOLEAN
    BY DEF HpsTypeOK
  <2>6. pc' \in {"body", "control"} /\ hpsCall' = hpsCall /\ hpsCall # NoHpsCall
    BY DEF HpsTypeOK
  <2>7. DeviceTypeOK'
    BY <2>1, <2>2 DEF HpsTypeOK, DeviceTypeOK
  <2>8. received' = received /\ httpStatus' = httpStatus /\ link' = link
    OBVIOUS
  <2> QED
    BY <2>1, <2>5, <2>6, <2>7, <2>8 DEF HpsTypeOK, DeviceTypeOK
<1>3. PreparedInv'
  <2> SUFFICES ASSUME link' = "up", ~writeLost' PROVE PreparedInv'
    BY DEF PreparedInv
  <2>1. curUrl' = hpsCall'.url /\ curBody' = <<>> /\ lastBodyChunk' = <<>>
    OBVIOUS
  <2>2. CASE hpsCall.body = NoBody
    BY <2>1, <2>2 DEF PreparedInv, RequestBody, RequestOf
  <2>3. CASE hpsCall.body # NoBody
    <3>1. hpsCall.body \in Seq(Units)
      BY <1>1, <2>3 DEF HpsCallType
    <3>2. <<>> \o hpsCall.body = hpsCall.body
      BY <3>1, ConcatEmptySeq
    <3> QED
      BY <2>1, <2>3, <3>2 DEF PreparedInv
  <2> QED
    BY <2>2, <2>3
<1>4. AnsweredInv' /\ CursorInv' /\ ProgressInv'
  BY DEF AnsweredInv, CursorInv, ProgressInv, Answering
<1> QED
  BY <1>2, <1>3, <1>4

LEMMA WriteBodyPreserves == HpsIInv /\ WriteBody => HpsIInv'
<1> SUFFICES ASSUME HpsIInv, WriteBody PROVE HpsIInv'
  OBVIOUS
<1> USE DEF HpsIInv, WriteBody, deviceVars, bodyVars, replyVars, BodyWritten, SetFails
<1>1. <<>> \in Seq(Units) /\ unsent \in Seq(Units) /\ curBody \in Seq(Units)
  BY EmptySeq DEF HpsTypeOK
<1>2. curBody \o unsent \in Seq(Units)
  BY <1>1, ConcatProperties
<1>3. HpsTypeOK'
  <2>1. curBody' \in Seq(Units) /\ lastBodyChunk' \in Seq(Units) /\ unsent' \in Seq(Units)
    BY <1>1, <1>2 DEF HpsTypeOK
  <2>2. UNCHANGED <<curUrl, curReplyIsChunked, curBodyReadOffset, curHttpStatus, curDataStatus>>
    OBVIOUS
  <2>3. writeLost' \in BOOLEAN
    BY DEF HpsTypeOK
  <2>4. DeviceTypeOK'
    BY <2>1, <2>2 DEF HpsTypeOK, DeviceTypeOK
  <2>5. pc' = "control" /\ hpsCall' = hpsCall /\ hpsCall # NoHpsCall
    BY DEF HpsTypeOK
  <2>6. received' = received /\ httpStatus' = httpStatus /\ link' = link
    OBVIOUS
  <2> QED
    BY <2>1, <2>3, <2>4, <2>5, <2>6 DEF HpsTypeOK, DeviceTypeOK
<1>4. PreparedInv'
  <2> SUFFICES ASSUME link' = "up", ~writeLost' PROVE PreparedInv'
    BY DEF PreparedInv
  <2>1. curBody \o unsent = RequestBody /\ curBody = <<>>
    BY DEF PreparedInv, RequestBody, RequestOf
  <2>2. unsent = RequestBody
    BY <1>1, <2>1, ConcatEmptySeq
  <2>3. hpsCall' = hpsCall /\ RequestBody' = RequestBody
    BY DEF RequestBody
  <2> QED
    BY <2>1, <2>2, <2>3 DEF PreparedInv
<1>5. AnsweredInv' /\ CursorInv' /\ ProgressInv'
  BY DEF AnsweredInv, CursorInv, ProgressInv, Answering
<1> QED
  BY <1>3, <1>4, <1>5

LEMMA StreamBodyPreserves == HpsIInv /\ StreamBody => HpsIInv'
<1> SUFFICES ASSUME HpsIInv, StreamBody PROVE HpsIInv'
  OBVIOUS
<1> DEFINE part == SubSeq(unsent, 1, Min({StreamMTU, Len(unsent)}))
           rest == SubSeq(unsent, StreamMTU + 1, Len(unsent))
<1>1. StreamMTU \in Nat \ {0}
  BY HpsAssumption
<1>2. unsent \in Seq(Units) /\ curBody \in Seq(Units)
  BY DEF HpsIInv, HpsTypeOK
<1>3. part \in Seq(Units) /\ rest \in Seq(Units) /\ part \o rest = unsent
  BY <1>1, <1>2, SplitSequence
<1>4. lastBodyChunk' = part /\ curBody' = curBody \o part /\ unsent' = rest
  BY DEF StreamBody, BodyWritten
<1>5. /\ UNCHANGED <<pc, hpsCall, httpStatus, received, hpsResult, writeLost, link, curUrl,
                     hpsExecutions>>
      /\ UNCHANGED <<curReplyIsChunked, curBodyReadOffset, curHttpStatus, curDataStatus>>
      /\ pc = "body" /\ ~FitsOneWrite /\ link = "up"
  BY DEF StreamBody, BodyWritten, replyVars
<1> HIDE DEF part, rest
<1>6. curBody \o part \in Seq(Units)
  BY <1>2, <1>3, ConcatProperties
<1>7. (curBody \o part) \o rest = curBody \o unsent
  <2>1. \A s, t, u \in Seq(Units) : (s \o t) \o u = s \o (t \o u)
    BY ConcatAssociative
  <2>2. (curBody \o part) \o rest = curBody \o (part \o rest)
    BY <1>2, <1>3, <2>1, Zenon
  <2> QED
    BY <1>3, <2>2
<1>8. HpsTypeOK'
  BY <1>3, <1>4, <1>5, <1>6 DEF HpsIInv, HpsTypeOK
<1>9. PreparedInv'
  BY <1>4, <1>5, <1>7 DEF HpsIInv, PreparedInv, FitsOneWrite
<1>10. AnsweredInv' /\ CursorInv' /\ ProgressInv'
  BY <1>5 DEF HpsIInv, AnsweredInv, CursorInv, ProgressInv, Answering
<1> QED
  BY <1>8, <1>9, <1>10 DEF HpsIInv

LEMMA StreamingEndsPreserves == HpsIInv /\ StreamingEnds => HpsIInv'
<1> SUFFICES ASSUME HpsIInv, StreamingEnds PROVE HpsIInv'
  OBVIOUS
<1> USE DEF HpsIInv, StreamingEnds, deviceVars, bodyVars, replyVars
<1>1. HpsTypeOK'
  BY DEF HpsTypeOK
<1>2. PreparedInv'
  <2>1. curBody \in Seq(Units)
    BY DEF HpsTypeOK
  <2>2. (link = "up" /\ ~writeLost) => curBody = RequestBody
    BY <2>1, ConcatEmptySeq DEF PreparedInv, RequestBody, RequestOf
  <2>3. RequestBody' = RequestBody
    BY DEF RequestBody
  <2> QED
    BY <2>2, <2>3 DEF PreparedInv
<1>3. AnsweredInv' /\ CursorInv' /\ ProgressInv'
  BY DEF AnsweredInv, CursorInv, ProgressInv, Answering
<1> QED
  BY <1>1, <1>2, <1>3

\* The request that the device finds in its variables.
FoundRequest ==
  [method |-> hpsCall.method, url |-> curUrl,
   body |-> IF hpsCall.chunking THEN curBody ELSE lastBodyChunk]

\* If no write was lost, it is the one that was made.
LEMMA FindsTheRequest ==
  ASSUME HpsIInv, pc = "control", link = "up", ~writeLost
  PROVE  FoundRequest = RequestOf(hpsCall)
<1>1. curUrl = hpsCall.url
  BY DEF HpsIInv, PreparedInv
<1>2. (IF hpsCall.chunking THEN curBody ELSE lastBodyChunk) = RequestBody
  BY DEF HpsIInv, PreparedInv
<1> QED
  BY <1>1, <1>2 DEF FoundRequest, RequestBody, RequestOf

\* What the device does for it: nothing, or exactly that request.
LEMMA ProcessesTheRequest ==
  ASSUME HpsIInv, pc = "control", ProcessRequest(hpsCall.method, hpsCall.chunking)
  PROVE  \/ /\ hpsExecutions' = <<>>
            /\ Refused(404) \/ Refused(413)
         \/ \E reply \in HpsReplies :
              /\ hpsExecutions' = <<[request |-> FoundRequest, reply |-> reply]>>
              /\ Refused(400) \/ Refused(413) \/ Answered(hpsCall.chunking, reply)
<1>1. hpsExecutions = <<>>
  BY DEF HpsIInv, ProgressInv
<1>2. CASE hpsExecutions' = hpsExecutions /\ (Refused(404) \/ Refused(413))
  BY <1>1, <1>2
<1>3. CASE \E reply \in HpsReplies :
             /\ Executed(hpsCall.method, hpsCall.chunking, reply)
             /\ Refused(400) \/ Refused(413) \/ Answered(hpsCall.chunking, reply)
  <2>1. PICK reply \in HpsReplies :
          /\ Executed(hpsCall.method, hpsCall.chunking, reply)
          /\ Refused(400) \/ Refused(413) \/ Answered(hpsCall.chunking, reply)
    BY <1>3
  <2>2. hpsExecutions' = Append(<<>>, [request |-> FoundRequest, reply |-> reply])
    BY <1>1, <2>1 DEF Executed, FoundRequest
  <2>3. hpsExecutions' = <<[request |-> FoundRequest, reply |-> reply]>>
    BY <2>2
  <2> QED
    BY <2>1, <2>3
<1> QED
  BY <1>2, <1>3 DEF ProcessRequest

LEMMA WriteControlPointPreserves == HpsIInv /\ WriteControlPoint => HpsIInv'
<1> SUFFICES ASSUME HpsIInv, WriteControlPoint PROVE HpsIInv'
  OBVIOUS
<1>1. /\ pc = "control" /\ pc' = "status"
      /\ UNCHANGED <<hpsCall, unsent, httpStatus, received, hpsResult, link>>
  BY DEF WriteControlPoint
<1>2. HpsTypeOK /\ received = <<>> /\ hpsResult = NoHpsReply
  BY <1>1 DEF HpsIInv, CursorInv, ProgressInv
<1>3. CASE SetFails /\ UNCHANGED hpsExecutions
  <2>1. hpsExecutions' = <<>> /\ writeLost' = TRUE
    BY <1>1, <1>3 DEF SetFails, HpsIInv, ProgressInv
  <2> QED
    BY <1>1, <1>2, <1>3, <2>1 DEF SetFails, deviceVars, bodyVars, replyVars, HpsIInv,
       HpsTypeOK, PreparedInv, AnsweredInv, CursorInv, ProgressInv, Answering
<1>4. CASE /\ link = "up" /\ ProcessRequest(hpsCall.method, hpsCall.chunking)
           /\ UNCHANGED writeLost
  <2>1. /\ curReplyIsChunked' = hpsCall.chunking /\ curBodyReadOffset' = 0
        /\ UNCHANGED <<curUrl, lastBodyChunk>>
    BY <1>4 DEF ProcessRequest
  <2>2. hpsCall.chunking \in BOOLEAN
    BY <1>1, <1>2, HpsAssumption DEF HpsTypeOK, HpsCallType
  <2>3. CASE Refused(400) \/ Refused(404) \/ Refused(413)
    <3>1. HpsTypeOK'
      <4>1. <<>> \in Seq(Units)
        BY EmptySeq
      <4>2. /\ curHttpStatus' \in {400, 404, 413} /\ curDataStatus' = "EMPTY"
            /\ curBody' \in Seq(Units)
        BY <2>3, <4>1 DEF Refused
      <4> QED
        BY <1>1, <1>2, <1>4, <2>1, <2>2, <4>2 DEF HpsTypeOK
    <3>2. ~StatusIsGood'
      BY <2>3 DEF Refused, StatusIsGood
    <3> QED
      BY <1>1, <1>2, <2>1, <3>1, <3>2
      DEF HpsIInv, PreparedInv, AnsweredInv, CursorInv, ProgressInv, Answering
  <2>4. ASSUME NEW reply \in HpsReplies, Answered(hpsCall.chunking, reply),
               hpsExecutions' = <<[request |-> FoundRequest, reply |-> reply]>>
        PROVE  HpsIInv'
    <3>1. reply \in Seq(Units) /\ reply # <<>> /\ HPSMaxBodySize \in Nat
      BY HpsAssumption
    <3>2. (~hpsCall.chunking /\ Len(reply) > HPSMaxBodySize)
            => SubSeq(reply, 1, HPSMaxBodySize) \in Seq(Units)
      BY <3>1, LenProperties, SubSeqProperties
    <3>3. curBody' \in Seq(Units) /\ curHttpStatus' = 200
          /\ curDataStatus' \in {"BodyReceived", "BodyTruncated"}
      BY <2>4, <3>1, <3>2 DEF Answered
    <3>4. HpsTypeOK'
      BY <1>1, <1>2, <1>4, <2>1, <2>2, <3>3 DEF HpsTypeOK
    <3>5. AnsweredInv'
      <4>1. StatusIsGood' => curBody' = reply
        BY <2>4 DEF Answered, StatusIsGood
      <4>2. hpsExecutions' # <<>> /\ LatestReply' = reply
        BY <2>4 DEF LatestReply
      <4> QED
        BY <1>1, <2>1, <3>1, <4>1, <4>2 DEF AnsweredInv
    <3> QED
      BY <1>1, <1>2, <2>1, <3>4, <3>5 DEF HpsIInv, PreparedInv, CursorInv, ProgressInv
  <2> QED
    BY <1>1, <1>4, <2>3, <2>4, ProcessesTheRequest
<1> QED
  BY <1>3, <1>4 DEF WriteControlPoint

LEMMA ReadStatusPreserves == HpsIInv /\ ReadStatus => HpsIInv'
<1> SUFFICES ASSUME HpsIInv, ReadStatus PROVE HpsIInv'
  OBVIOUS
<1> USE DEF HpsIInv, ReadStatus, deviceVars, bodyVars, replyVars
<1>1. StatusIsGood' /\ curHttpStatus = 200
  BY DEF StatusIsGood
<1>2. received = <<>> /\ Len(curBody) \in Nat /\ (Answering => curBodyReadOffset = 0)
  BY LenProperties DEF CursorInv, HpsTypeOK
<1>3. SubSeq(curBody, 1, 0) = <<>>
  BY SubSeqEmpty
<1>4. HpsTypeOK'
  BY <1>1, <1>2 DEF HpsTypeOK, BodyIsReadable, Answering
<1>5. PreparedInv' /\ ProgressInv'
  BY DEF PreparedInv, ProgressInv
<1>6. AnsweredInv'
  BY DEF AnsweredInv, StatusIsGood, LatestReply, Answering
<1>7. CursorInv'
  BY <1>1, <1>2, <1>3 DEF CursorInv, Answering, StatusIsGood
<1> QED
  BY <1>4, <1>5, <1>6, <1>7

\* Reading the body gives units, and keeps the types.
LEMMA BodyReadType ==
  ASSUME HpsTypeOK, BodyIsReadable
  PROVE  BodyRead \in Seq(Units)
<1>1. CASE curReplyIsChunked
  BY <1>1, Slices
<1>2. CASE ~curReplyIsChunked
  BY <1>2 DEF BodyRead, HpsTypeOK
<1> QED
  BY <1>1, <1>2

LEMMA BodyServedKeepsTypes ==
  ASSUME HpsTypeOK, BodyServed
  PROVE  DeviceTypeOK'
<1>1. curReplyIsChunked => curBodyReadOffset' \in Nat
  <2> SUFFICES ASSUME curReplyIsChunked PROVE curBodyReadOffset' \in Nat
    OBVIOUS
  <2>1. curBodyReadOffset + Len(BodyRead) \in 0 .. Len(curBody)
    BY Slices DEF BodyServed
  <2>2. Len(curBody) \in Nat
    BY LenProperties DEF HpsTypeOK
  <2> QED
    BY <2>1, <2>2 DEF BodyServed
<1>2. curBodyReadOffset' \in Nat
  BY <1>1 DEF BodyServed, HpsTypeOK
<1> QED
  BY <1>2 DEF BodyServed, bodyVars, HpsTypeOK, DeviceTypeOK

\* A call moves the cursor by what it reads, if the reply is its own; else only the types
\* are kept.
LEMMA ReadReplyPreserves == HpsIInv /\ ReadReply => HpsIInv'
<1> SUFFICES ASSUME HpsIInv, ReadReply PROVE HpsIInv'
  OBVIOUS
<1>1. /\ HpsTypeOK /\ BodyServed /\ BodyIsReadable /\ DeviceTypeOK'
      /\ pc = "reply" /\ link = "up" /\ link' = "up" /\ hpsExecutions' = hpsExecutions
      /\ hpsCall.chunking
  BY BodyServedKeepsTypes DEF HpsIInv, ReadReply, BodyServed
<1>2. CASE Ends(Returned(received))
  BY <1>1, <1>2, EndsPreserves
<1>3. ASSUME received' = received \o BodyRead,
             UNCHANGED <<pc, hpsCall, unsent, httpStatus, hpsResult, writeLost>>
      PROVE  HpsIInv'
  <2>1. /\ UNCHANGED <<curUrl, curBody, lastBodyChunk, curReplyIsChunked, curHttpStatus,
                       curDataStatus>>
        /\ received' \in Seq(Units)
    <3>1. BodyRead \in Seq(Units) /\ received \in Seq(Units)
      BY <1>1, BodyReadType DEF HpsTypeOK
    <3> QED
      BY <1>1, <1>3, <3>1, ConcatProperties DEF BodyServed, bodyVars
  <2>2. PreparedInv' /\ ProgressInv'
    BY <1>1, <1>3 DEF HpsIInv, PreparedInv, ProgressInv
  <2>3. AnsweredInv'
    BY <1>1, <1>3, <2>1 DEF HpsIInv, AnsweredInv, Answering, StatusIsGood, LatestReply
  <2>4. CASE ~Answering
    <3>1. ~Answering' /\ writeLost'
      BY <1>1, <1>3, <2>4 DEF Answering
    <3>2. HpsTypeOK'
      BY <1>1, <1>3, <2>1, <3>1 DEF HpsTypeOK, DeviceTypeOK
    <3>3. CursorInv'
      BY <1>1, <1>3, <3>1 DEF CursorInv
    <3> QED
      BY <2>2, <2>3, <3>2, <3>3 DEF HpsIInv
  <2>5. CASE Answering
    <3>1. curReplyIsChunked /\ received = SubSeq(curBody, 1, curBodyReadOffset) /\ StatusIsGood
      BY <1>1, <2>5 DEF HpsIInv, AnsweredInv, CursorInv
    <3>2. curBodyReadOffset' = curBodyReadOffset + Len(BodyRead)
      BY <1>1, <3>1 DEF BodyServed
    <3>3. /\ curBodyReadOffset' \in 0 .. Len(curBody)
          /\ SubSeq(curBody, 1, curBodyReadOffset) \o BodyRead = SubSeq(curBody, 1, curBodyReadOffset')
      BY <1>1, <3>1, <3>2, Slices
    <3>4. CursorInv'
      BY <1>1, <1>3, <2>1, <3>1, <3>3 DEF CursorInv, StatusIsGood
    <3>5. Len(curBody) \in Nat
      BY <1>1, LenProperties DEF HpsTypeOK
    <3>6. BodyIsReadable'
      BY <2>1, <3>3, <3>5 DEF BodyIsReadable
    <3>7. HpsTypeOK'
      BY <1>1, <1>3, <2>1, <3>6 DEF HpsTypeOK, DeviceTypeOK
    <3> QED
      BY <2>2, <2>3, <3>4, <3>7 DEF HpsIInv
  <2> QED
    BY <2>4, <2>5
<1> QED
  BY <1>2, <1>3 DEF ReadReply

LEMMA ReadWholeReplyPreserves == HpsIInv /\ ReadWholeReply => HpsIInv'
  BY EndsPreserves, BodyServedKeepsTypes DEF HpsIInv, HpsTypeOK, ReadWholeReply

\* Outside a call only the types matter.
LEMMA IdlePreserves ==
  ASSUME HpsIInv, pc = "idle", UNCHANGED <<clientVars, hpsExecutions>>, DeviceTypeOK',
         link' \in {"none", "up", "lost"}
  PROVE  HpsIInv'
  BY DEF HpsIInv, HpsTypeOK, PreparedInv, AnsweredInv, CursorInv, ProgressInv, Answering, DeviceTypeOK,
     clientVars

LEMMA RestartedKeepsTypes ==
  ASSUME HpsTypeOK, Restarted
  PROVE  DeviceTypeOK' /\ link' \in {"none", "lost"}
<1>1. <<>> \in Seq(Units) /\ "" \in CalledUrls
  BY EmptySeq DEF CalledUrls
<1>2. CalledUrls' = CalledUrls
  BY DEF CalledUrls
<1>3. curHttpStatus' \in {0, 200}
  BY Zenon DEF Restarted
<1>4. curHttpStatus' \in {0, 200, 400, 404, 413}
  BY <1>3
<1>5. link' \in {"none", "lost"}
  BY DEF Restarted
<1>6. /\ curUrl' = "" /\ curBody' = <<>> /\ lastBodyChunk' = <<>>
      /\ curReplyIsChunked' = FALSE /\ curBodyReadOffset' = 0 /\ curDataStatus' = "EMPTY"
  BY DEF Restarted
<1> QED
  BY <1>1, <1>2, <1>4, <1>5, <1>6 DEF DeviceTypeOK

LEMMA ReadPastEndPreserves == HpsIInv /\ ReadPastEnd => HpsIInv'
<1> SUFFICES ASSUME HpsIInv, ReadPastEnd PROVE HpsIInv'
  OBVIOUS
<1>1. DeviceTypeOK' /\ link' \in {"none", "lost"}
  BY RestartedKeepsTypes DEF ReadPastEnd, HpsIInv
<1> QED
  BY <1>1 DEF ReadPastEnd, clientVars, DeviceTypeOK, HpsIInv, HpsTypeOK, PreparedInv,
     AnsweredInv, CursorInv, ProgressInv, Answering

LEMMA PrintStatusPreserves == HpsIInv /\ PrintStatus => HpsIInv'
<1> SUFFICES ASSUME HpsIInv, PrintStatus PROVE HpsIInv'
  OBVIOUS
<1>1. DeviceTypeOK' /\ link' \in {"none", "up", "lost"}
  BY BodyServedKeepsTypes, RestartedKeepsTypes DEF PrintStatus, HpsIInv, HpsTypeOK
<1> QED
  BY <1>1, IdlePreserves DEF PrintStatus

\* Without a connection nothing is known of the device.
LEMMA ConnectionLostPreserves == HpsIInv /\ ConnectionLost => HpsIInv'
  BY DEF HpsIInv, HpsTypeOK, PreparedInv, AnsweredInv, CursorInv, ProgressInv, Answering, ConnectionLost,
     clientVars, deviceVars, bodyVars, replyVars

LEMMA DeviceRestartsPreserves == HpsIInv /\ DeviceRestarts => HpsIInv'
<1> SUFFICES ASSUME HpsIInv, DeviceRestarts PROVE HpsIInv'
  OBVIOUS
<1>1. DeviceTypeOK' /\ link' \in {"none", "lost"}
  BY RestartedKeepsTypes DEF DeviceRestarts, HpsIInv
<1> QED
  BY <1>1 DEF DeviceRestarts, clientVars, DeviceTypeOK, HpsIInv, HpsTypeOK, PreparedInv,
     AnsweredInv, CursorInv, ProgressInv, Answering

LEMMA ClientStopsPreserves == HpsIInv /\ ClientStops => HpsIInv'
<1> SUFFICES ASSUME HpsIInv, ClientStops PROVE HpsIInv'
  OBVIOUS
<1>1. DeviceTypeOK' /\ link' = "none"
  BY DEF ClientStops, deviceVars, bodyVars, replyVars, DeviceTypeOK, HpsIInv, HpsTypeOK
<1>2. CASE pc = "idle"
  BY <1>1, <1>2, IdlePreserves DEF ClientStops
<1>3. CASE pc # "idle"
  BY <1>1, <1>3, EndsPreserves DEF ClientStops
<1> QED
  BY <1>2, <1>3

LEMMA StutterPreserves == HpsIInv /\ UNCHANGED hpsVars => HpsIInv'
<1> SUFFICES ASSUME HpsIInv, UNCHANGED hpsVars PROVE HpsIInv'
  OBVIOUS
<1> USE DEF HpsIInv, hpsVars, clientVars, deviceVars, bodyVars, replyVars
<1>1. HpsTypeOK'
  BY DEF HpsTypeOK, BodyIsReadable
<1>2. PreparedInv' /\ AnsweredInv' /\ CursorInv' /\ ProgressInv'
  BY DEF PreparedInv, AnsweredInv, CursorInv, ProgressInv, Answering, RequestBody, FitsOneWrite,
     StatusIsGood, LatestReply
<1> QED
  BY <1>1, <1>2

LEMMA NextPreserves == HpsIInv /\ [HpsNext]_hpsVars => HpsIInv'
<1> SUFFICES ASSUME HpsIInv, [HpsNext]_hpsVars PROVE HpsIInv'
  OBVIOUS
<1>1. ASSUME NEW c \in HpsCalls, Call(c) PROVE HpsIInv'
  BY <1>1, CallPreserves
<1>2. ASSUME CannotConnect \/ StreamingFails \/ StatusFails \/ ReplyFails \/ OperationFails
      PROVE  HpsIInv'
  BY <1>2, FailsPreserves
     DEF CannotConnect, StreamingFails, StatusFails, ReplyFails, OperationFails
<1> QED
  BY <1>1, <1>2, WriteUrlPreserves, WriteBodyPreserves, StreamBodyPreserves,
     StreamingEndsPreserves, WriteControlPointPreserves, ReadStatusPreserves,
     ReadReplyPreserves, ReadWholeReplyPreserves, ReadPastEndPreserves, PrintStatusPreserves,
     ConnectionLostPreserves, ClientStopsPreserves, DeviceRestartsPreserves, StutterPreserves
  DEF HpsNext, RequestStep

\* Whatever clients, connections and restarts did before, and whatever writes they lost,
\* the variables of the device hold the request that is being made, as far as the call
\* has come, unless it has lost a write; and from a good status on they hold the whole
\* reply to what was carried out for it, even if it has.
THEOREM HpsInvariant == HpsSpec => []HpsIInv
  BY InitIInv, NextPreserves, PTL DEF HpsSpec

\* The variables of request() and of the service keep their types, and a read that a call
\* makes of the body never starts past its end, unless the call has lost a write.
THEOREM HpsTypes == HpsSpec => []HpsTypeOK
  BY HpsInvariant, PTL DEF HpsIInv

--------------------------------------------------------------------------------
(* The refinement of RemoteCall, one step per action. *)

\* request of RemoteCall, in the refinement mapping Callers.
request == IF hpsCall = NoHpsCall THEN NoHpsCall ELSE RequestOf(hpsCall)

LEMMA RequestIsMade ==
  ASSUME HpsTypeOK, pc # "idle"
  PROVE  request = RequestOf(hpsCall) /\ request # NoHpsCall
<1>1. hpsCall # NoHpsCall /\ hpsCall \in HpsCallType
  BY HpsAssumption DEF HpsTypeOK
<1>2. RequestOf(hpsCall) \in [method : HpsMethods, url : STRING, body : Seq(Units)]
  BY <1>1, EmptySeq DEF RequestOf, HpsCallType
<1> QED
  BY <1>1, <1>2, HpsAssumption DEF request

LEMMA InitRefines == HpsInit => Callers!CallInit
  BY DEF HpsInit, Callers!CallInit

LEMMA CallRefines == ASSUME NEW c \in HpsCalls, HpsIInv, Call(c) PROVE Callers!Call
<1>1. hpsCall = NoHpsCall /\ hpsCall' = c /\ c # NoHpsCall
  BY HpsAssumption DEF HpsIInv, HpsTypeOK, Call
<1>2. request = NoHpsCall /\ request' \in {RequestOf(d) : d \in HpsCalls}
  BY <1>1 DEF request
<1>3. hpsExecutions' = <<>> /\ hpsResult' = NoHpsReply /\ writeLost' = writeLost
  BY DEF Call
<1> QED
  BY <1>2, <1>3 DEF Callers!Call, request

LEMMA EndsRequest ==
  ASSUME NEW v, Ends(v)
  PROVE  request' = NoHpsCall /\ hpsResult' = v /\ writeLost' = FALSE
  BY DEF Ends, request

\* A call that ends without a reply has failed, whether it was executed or not.
LEMMA FailsRefines ==
  ASSUME HpsIInv, pc # "idle", Ends(NoHpsReply), UNCHANGED hpsExecutions
  PROVE  Callers!Fail
<1>1. /\ request # NoHpsCall /\ request' = NoHpsCall /\ hpsResult' = hpsResult
      /\ writeLost' = FALSE
  BY RequestIsMade, EndsRequest DEF HpsIInv, ProgressInv
<1> QED
  BY <1>1 DEF Callers!Fail, request

\* A call that ends with what was read returns the reply of its execution, if there was
\* one, and else it has lost a write.
LEMMA ReturnsRefines ==
  ASSUME HpsIInv, pc = "reply", link = "up", NEW body, Ends(Returned(body)),
         Answering => body = curBody, UNCHANGED hpsExecutions
  PROVE  Callers!Return
<1>1. /\ request # NoHpsCall /\ request' = NoHpsCall /\ hpsResult' = Returned(body)
      /\ writeLost' = FALSE
  BY RequestIsMade, EndsRequest DEF HpsIInv
<1>2. CASE Answering
  <2>1. hpsExecutions # <<>> /\ Head(hpsExecutions).reply = curBody /\ curBody # <<>>
    BY <1>2 DEF HpsIInv, CursorInv, AnsweredInv, LatestReply
  <2>2. Returned(body) = curBody
    BY <1>2, <2>1 DEF Returned
  <2> QED
    BY <1>1, <2>1, <2>2 DEF Callers!Return, request
<1>3. CASE ~Answering
  BY <1>1, <1>3 DEF Answering, Callers!Return, request
<1> QED
  BY <1>2, <1>3

\* A write that is lost spoils the call.
LEMMA SetFailsRefines ==
  ASSUME HpsIInv, pc \in {"url", "body", "control"}, SetFails,
         UNCHANGED <<hpsCall, hpsExecutions, hpsResult>>
  PROVE  Callers!Spoil
<1>1. hpsExecutions = <<>> /\ request # NoHpsCall
  BY RequestIsMade DEF HpsIInv, ProgressInv
<1> QED
  BY <1>1 DEF Callers!Spoil, request, SetFails

LEMMA WriteRefines ==
  ASSUME HpsIInv, WriteUrl \/ WriteBody
  PROVE  Callers!Spoil \/ UNCHANGED Callers!callVars
<1>1. pc \in {"url", "body"} /\ UNCHANGED <<hpsCall, hpsExecutions, hpsResult>>
  BY DEF WriteUrl, WriteBody
<1>2. CASE SetFails
  BY <1>1, <1>2, SetFailsRefines
<1>3. CASE UNCHANGED writeLost
  BY <1>1, <1>3 DEF Callers!callVars
<1> QED
  BY <1>2, <1>3 DEF WriteUrl, WriteBody

\* The write of the control point is the execution, or nothing when it is refused or lost.
LEMMA ExecutesRefines ==
  ASSUME HpsIInv, WriteControlPoint
  PROVE  Callers!Execute \/ Callers!Spoil \/ UNCHANGED Callers!callVars
<1>1. /\ pc = "control" /\ hpsExecutions = <<>> /\ UNCHANGED <<hpsCall, hpsResult>>
  BY DEF HpsIInv, ProgressInv, WriteControlPoint
<1>2. request = RequestOf(hpsCall) /\ request # NoHpsCall /\ request' = request
  BY <1>1, RequestIsMade DEF HpsIInv, request
<1>3. CASE SetFails /\ UNCHANGED hpsExecutions
  BY <1>1, <1>3, SetFailsRefines
<1>4. CASE /\ link = "up" /\ ProcessRequest(hpsCall.method, hpsCall.chunking)
           /\ UNCHANGED writeLost
  <2>1. CASE hpsExecutions' = <<>>
    BY <1>1, <1>2, <1>4, <2>1 DEF Callers!callVars, request
  <2>2. ASSUME NEW reply \in HpsReplies,
               hpsExecutions' = <<[request |-> FoundRequest, reply |-> reply]>>
        PROVE  Callers!Execute
    <3>1. Len(hpsExecutions') = 1
          /\ Head(hpsExecutions') = [request |-> FoundRequest, reply |-> reply]
      BY <2>2
    <3>2. ~writeLost => FoundRequest = RequestOf(hpsCall)
      BY <1>1, <1>4, FindsTheRequest
    <3>3. FoundRequest.method = RequestOf(hpsCall).method
      BY DEF FoundRequest, RequestOf
    <3> DEFINE found == FoundRequest
    <3> HIDE DEF found
    <3>4. /\ Head(hpsExecutions').reply \in HpsReplies
          /\ Head(hpsExecutions').request.method = request.method
          /\ ~writeLost => Head(hpsExecutions').request = request
      BY <1>2, <3>1, <3>2, <3>3
    <3> QED
      BY <1>1, <1>2, <1>4, <3>1, <3>4 DEF Callers!Execute, request
  <2> QED
    BY <1>1, <1>4, <2>1, <2>2, ProcessesTheRequest
<1> QED
  BY <1>3, <1>4 DEF WriteControlPoint

LEMMA ReadReplyRefines ==
  ASSUME HpsIInv, ReadReply
  PROVE  Callers!Return \/ UNCHANGED Callers!callVars
<1>1. /\ HpsTypeOK /\ BodyIsReadable /\ pc = "reply" /\ link = "up" /\ UNCHANGED hpsExecutions
  BY DEF HpsIInv, ReadReply, BodyServed
<1>2. CASE BodyRead = <<>>
  <2>1. ASSUME Answering PROVE received = curBody
    <3>1. curReplyIsChunked /\ received = SubSeq(curBody, 1, curBodyReadOffset)
      BY <1>1, <2>1 DEF HpsIInv, AnsweredInv, CursorInv, ReadReply
    <3>2. curBodyReadOffset = Len(curBody)
      BY <1>1, <1>2, <3>1, Slices
    <3> QED
      BY <1>1, <3>1, <3>2, SubSeqFull DEF HpsTypeOK
  <2> QED
    BY <1>1, <1>2, <2>1, ReturnsRefines DEF ReadReply
<1>3. CASE BodyRead # <<>>
  BY <1>3 DEF ReadReply, Callers!callVars
<1> QED
  BY <1>2, <1>3

LEMMA ReadWholeReplyRefines ==
  ASSUME HpsIInv, ReadWholeReply
  PROVE  Callers!Return
<1>1. pc = "reply" /\ link = "up" /\ ~hpsCall.chunking /\ UNCHANGED hpsExecutions
  BY DEF ReadWholeReply
<1>2. Answering => BodyRead = curBody
  BY <1>1 DEF HpsIInv, AnsweredInv, CursorInv, BodyRead
<1> QED
  BY <1>1, <1>2, ReturnsRefines DEF ReadWholeReply

LEMMA OthersRefine ==
  ASSUME \/ StreamBody \/ StreamingEnds \/ ReadStatus \/ ReadPastEnd
         \/ PrintStatus \/ ConnectionLost \/ DeviceRestarts \/ UNCHANGED hpsVars
  PROVE  UNCHANGED Callers!callVars
<1>1. UNCHANGED <<hpsCall, hpsExecutions, hpsResult, writeLost>>
  BY DEF StreamBody, StreamingEnds, ReadStatus, ReadPastEnd, PrintStatus,
     ConnectionLost, DeviceRestarts, hpsVars, clientVars
<1> QED
  BY <1>1 DEF Callers!callVars

LEMMA ClientStopsRefines ==
  ASSUME HpsIInv, ClientStops
  PROVE  Callers!Fail \/ UNCHANGED Callers!callVars
<1>1. CASE pc = "idle"
  BY <1>1 DEF ClientStops, clientVars, Callers!callVars
<1>2. CASE pc # "idle"
  BY <1>2, FailsRefines DEF ClientStops
<1> QED
  BY <1>1, <1>2

LEMMA NextRefines ==
  HpsIInv /\ [HpsNext]_hpsVars => [Callers!CallNext]_Callers!callVars
<1> SUFFICES ASSUME HpsIInv, [HpsNext]_hpsVars
             PROVE  Callers!CallNext \/ UNCHANGED Callers!callVars
  OBVIOUS
<1>1. ASSUME NEW c \in HpsCalls, Call(c) PROVE Callers!CallNext
  BY <1>1, CallRefines DEF Callers!CallNext
<1>2. ASSUME CannotConnect \/ StreamingFails \/ StatusFails \/ ReplyFails \/ OperationFails
      PROVE  Callers!CallNext
  <2>1. pc # "idle" /\ Ends(NoHpsReply) /\ UNCHANGED hpsExecutions
    BY <1>2 DEF CannotConnect, StreamingFails, StatusFails, ReplyFails, OperationFails, Fails
  <2> QED
    BY <2>1, FailsRefines DEF Callers!CallNext
<1>3. ASSUME \/ WriteUrl \/ WriteBody \/ WriteControlPoint
             \/ ReadReply \/ ReadWholeReply \/ ClientStops
      PROVE  Callers!CallNext \/ UNCHANGED Callers!callVars
  BY <1>3, WriteRefines, ExecutesRefines, ReadReplyRefines, ReadWholeReplyRefines,
     ClientStopsRefines
  DEF Callers!CallNext
<1> QED
  BY <1>1, <1>2, <1>3, OthersRefine DEF HpsNext, RequestStep

\* request() over the proxy service implements a remote call, for writes that fail at any
\* moment: a call is carried out at most once, with its own method, and returns the whole
\* reply to that; and a call that loses no write is carried out exactly as it was made,
\* whatever the calls before it have lost.
THEOREM HpsImplementsRemoteCall == HpsSpec => ImplementsRemoteCall
<1>1. HpsSpec => Callers!CallInit
  BY InitRefines DEF HpsSpec
<1>2. HpsSpec => [][Callers!CallNext]_Callers!callVars
  BY HpsInvariant, NextRefines, PTL DEF HpsSpec
<1> QED
  BY <1>1, <1>2, PTL DEF ImplementsRemoteCall, Callers!CallSpec

================================================================================

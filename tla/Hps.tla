---------------------------------- MODULE Hps ----------------------------------
(***************************************************************************)
(* REST requests over Bluetooth LE: the HTTP proxy service of the device    *)
(* (iotsaApiHps.cpp) and the request() of the Python client that uses it    *)
(* (protocols/hps.py, ble.py).  A request is a sequence of writes of        *)
(* characteristics - URL, body, control point - and reads of the status and *)
(* of the body of the reply.  Between them the device keeps what was        *)
(* written in variables that outlive the request, the client and the        *)
(* connection: the parts of a body are put one after the other, and the     *)
(* body of the reply is kept in the same variable and read in slices.       *)
(*                                                                          *)
(* A connection may be lost between any two steps, the client may stop, and *)
(* the device may restart.  Any read or write may fail with the connection  *)
(* up.  The failure of a read or of the write of a part ends the call; the  *)
(* failure of set() is printed and the call goes on, with a device that has *)
(* not taken the URL, the body or the command.  An operation that the       *)
(* device has carried out although the client is told it failed is, for a   *)
(* set(), one that did not fail, and else two steps: it and the failure of  *)
(* the next.                                                                *)
(*                                                                          *)
(* A second central that uses the service at the same time is left out, and *)
(* whether a piece of a reply is JSON: what is none fails the call, which   *)
(* it may do anyway.  Headers and security are never looked at.             *)
(*                                                                          *)
(* A handler runs in the task of the BLE stack, and the client waits for    *)
(* the response, so that each operation of the two is one step.             *)
(***************************************************************************)
EXTENDS Integers, SequencesExt

CONSTANTS
  HpsCalls,         \* the calls that are tried, records of HpsCallType
  HpsReplies,       \* the replies of providers, sequences of units
  Providers,        \* pairs of a method and a URL that there is a provider for
  HPSMaxBodySize,   \* the most that one read or write can carry, in units
  StreamMTU,        \* the parts that a longer body is written in
  MaxLeftOver,      \* bound: units kept in curBody, or received, that may grow still
  NoBody, NoHpsCall, NoHpsReply

Units == Nat
HpsMethods == {"GET", "PUT", "POST"}

HpsCallType ==
  [method : HpsMethods, url : STRING, body : Seq(Units) \cup {NoBody}, chunking : BOOLEAN]

ASSUME HpsAssumption ==
  /\ HpsCalls \subseteq HpsCallType
  /\ HpsReplies \subseteq Seq(Units) \ {<<>>}
  /\ HPSMaxBodySize \in Nat \ {0} /\ StreamMTU \in 1 .. HPSMaxBodySize
  /\ MaxLeftOver \in Nat
  /\ NoHpsCall \notin HpsCalls
  /\ NoHpsCall \notin [method : HpsMethods, url : STRING, body : Seq(Units)]

VARIABLES
  pc,                \* the step of request() that comes next
  hpsCall,           \* the arguments of request()
  unsent,            \* what is left of the body, in setStreamed()
  httpStatus,        \* what the client read
  received,          \* rv in getStreamed()
  hpsResult,         \* what the latest request() returned
  writeLost,         \* a set() of the request() being made has failed
  link,              \* "none", "up", or "lost" without the client's knowing
  curUrl, curBody, lastBodyChunk, curReplyIsChunked, curBodyReadOffset,
  curHttpStatus, curDataStatus,
  hpsExecutions      \* calls of a provider since the latest request() began

clientVars == <<pc, hpsCall, unsent, httpStatus, received, hpsResult, writeLost>>
bodyVars == <<curBody, lastBodyChunk>>
replyVars == <<curReplyIsChunked, curBodyReadOffset, curHttpStatus, curDataStatus>>
deviceVars == <<curUrl, bodyVars, replyVars>>
hpsVars == <<clientVars, link, deviceVars, hpsExecutions>>

--------------------------------------------------------------------------------
(* The device: blePutHandler() and bleGetHandler(). *)

\* Variant: the body of an earlier request stays.
UrlWrittenBodyStays(url) ==
  /\ curUrl' = url
  /\ lastBodyChunk' = <<>>
  /\ UNCHANGED <<curBody, replyVars>>

\* A URL starts a new request.
UrlWritten(url) ==
  /\ curUrl' = url
  /\ curBody' = <<>> /\ lastBodyChunk' = <<>>
  /\ UNCHANGED replyVars

\* A part of the body, or the whole of it: which of them is only known later.
BodyWritten(chunk) ==
  /\ lastBodyChunk' = chunk
  /\ curBody' = curBody \o chunk
  /\ UNCHANGED <<curUrl, replyVars>>

\* A request that is refused has no body.
Refused(status) ==
  /\ curHttpStatus' = status /\ curDataStatus' = "EMPTY"
  /\ curBody' = <<>>

Executed(method, chunking, reply) ==
  hpsExecutions' =
    Append(hpsExecutions,
           [request |-> [method |-> method, url |-> curUrl,
                         body |-> IF chunking THEN curBody ELSE lastBodyChunk],
            reply |-> reply])

Answered(chunking, reply) ==
  /\ curHttpStatus' = 200
  /\ IF ~chunking /\ Len(reply) > HPSMaxBodySize
     THEN /\ curDataStatus' = "BodyTruncated"
          /\ curBody' = SubSeq(reply, 1, HPSMaxBodySize)
     ELSE curDataStatus' = "BodyReceived" /\ curBody' = reply

\* Variant: the reply is read from where the previous one was left.
ProcessRequestOffsetStays(method, chunking) ==
  /\ curReplyIsChunked' = chunking
  /\ UNCHANGED <<curUrl, lastBodyChunk, curBodyReadOffset>>
  /\ \/ <<method, curUrl>> \notin Providers /\ Refused(404) /\ UNCHANGED hpsExecutions
     \/ /\ <<method, curUrl>> \in Providers
        /\ \/ Refused(413) /\ UNCHANGED hpsExecutions
           \/ \E reply \in HpsReplies :
                /\ Executed(method, chunking, reply)
                /\ Refused(400) \/ Refused(413) \/ Answered(chunking, reply)

\* _processRequest(), for a write of the control point: there may be no provider, the
\* request may not fit, the provider may refuse it, and the reply may not fit.
ProcessRequest(method, chunking) ==
  /\ curReplyIsChunked' = chunking /\ curBodyReadOffset' = 0
  /\ UNCHANGED <<curUrl, lastBodyChunk>>
  /\ \/ <<method, curUrl>> \notin Providers /\ Refused(404) /\ UNCHANGED hpsExecutions
     \/ /\ <<method, curUrl>> \in Providers
        /\ \/ Refused(413) /\ UNCHANGED hpsExecutions
           \/ \E reply \in HpsReplies :
                /\ Executed(method, chunking, reply)
                /\ Refused(400) \/ Refused(413) \/ Answered(chunking, reply)

\* What a read of the body returns: the next slice, or all of it.
BodyRead ==
  IF curReplyIsChunked
  THEN SubSeq(curBody, curBodyReadOffset + 1,
              Min({curBodyReadOffset + HPSMaxBodySize, Len(curBody)}))
  ELSE curBody

\* The slice is taken with substr(), which ends the program past the end of the body.
BodyIsReadable == ~curReplyIsChunked \/ curBodyReadOffset <= Len(curBody)

BodyServed ==
  /\ BodyIsReadable
  /\ curBodyReadOffset' =
       IF curReplyIsChunked THEN curBodyReadOffset + Len(BodyRead) ELSE curBodyReadOffset
  /\ UNCHANGED <<curUrl, bodyVars, curReplyIsChunked, curHttpStatus, curDataStatus>>

\* Power fails, or the program ends: nothing of this is kept.
\* The status is not initialised, and may be anything: 200, or what is not.
Restarted ==
  /\ curUrl' = "" /\ curBody' = <<>> /\ lastBodyChunk' = <<>>
  /\ curReplyIsChunked' = FALSE /\ curBodyReadOffset' = 0
  /\ curHttpStatus' \in {0, 200} /\ curDataStatus' = "EMPTY"
  /\ link' = IF link = "none" THEN "none" ELSE "lost"

--------------------------------------------------------------------------------
(* The client: request(). *)

\* The call ends, by a return or an exception.
Ends(value) ==
  /\ pc' = "idle" /\ hpsCall' = NoHpsCall
  /\ unsent' = <<>> /\ httpStatus' = 0 /\ received' = <<>> /\ writeLost' = FALSE
  /\ hpsResult' = value

Fails == Ends(NoHpsReply) /\ UNCHANGED <<deviceVars, link, hpsExecutions>>

\* A client that has no connection makes one, if it can.
Call(c) ==
  /\ pc = "idle"
  /\ pc' = "url" /\ hpsCall' = c
  /\ hpsResult' = NoHpsReply
  /\ hpsExecutions' = <<>>
  /\ link' \in IF link = "none" THEN {"none", "up"} ELSE {link}
  /\ UNCHANGED <<unsent, httpStatus, received, writeLost, deviceVars>>

\* set() catches the exception of a write that fails, and the call goes on.
SetFails == writeLost' = TRUE /\ UNCHANGED deviceVars

\* set() of the URL.  If it fails, an earlier body is kept, and may be added to.
WriteUrl ==
  /\ pc = "url" /\ link # "none"
  /\ pc' = IF hpsCall.body = NoBody THEN "control" ELSE "body"
  /\ unsent' = IF hpsCall.body = NoBody THEN <<>> ELSE hpsCall.body
  /\ \/ link = "up" /\ UrlWritten(hpsCall.url) /\ UNCHANGED writeLost
     \/ SetFails /\ (link = "up" => Len(curBody) <= MaxLeftOver)
  /\ UNCHANGED <<hpsCall, httpStatus, received, hpsResult, link, hpsExecutions>>

CannotConnect == pc = "url" /\ link = "none" /\ Fails

FitsOneWrite == Len(hpsCall.body) <= HPSMaxBodySize

\* set() of a body that fits one write.
WriteBody ==
  /\ pc = "body" /\ FitsOneWrite
  /\ pc' = "control" /\ unsent' = <<>>
  /\ \/ link = "up" /\ BodyWritten(unsent) /\ UNCHANGED writeLost
     \/ SetFails
  /\ UNCHANGED <<hpsCall, httpStatus, received, hpsResult, link, hpsExecutions>>

\* One write of setStreamed(), for a body that does not.
StreamBody ==
  /\ pc = "body" /\ ~FitsOneWrite /\ hpsCall.chunking /\ unsent # <<>>
  /\ link = "up"
  /\ BodyWritten(SubSeq(unsent, 1, Min({StreamMTU, Len(unsent)})))
  /\ unsent' = SubSeq(unsent, StreamMTU + 1, Len(unsent))
  /\ UNCHANGED <<pc, hpsCall, httpStatus, received, hpsResult, writeLost, link, hpsExecutions>>

StreamingEnds ==
  /\ pc = "body" /\ ~FitsOneWrite /\ hpsCall.chunking /\ unsent = <<>>
  /\ pc' = "control"
  /\ UNCHANGED <<hpsCall, unsent, httpStatus, received, hpsResult, writeLost, link, deviceVars,
                 hpsExecutions>>

\* The connection is lost, or the body is too large for a client that does not stream.
StreamingFails ==
  pc = "body" /\ ~FitsOneWrite /\ (link = "lost" \/ ~hpsCall.chunking) /\ Fails

\* set() of the control point: the device processes the request before it responds.
WriteControlPoint ==
  /\ pc = "control"
  /\ pc' = "status"
  /\ \/ link = "up" /\ ProcessRequest(hpsCall.method, hpsCall.chunking) /\ UNCHANGED writeLost
     \/ SetFails /\ UNCHANGED hpsExecutions
  /\ UNCHANGED <<hpsCall, unsent, httpStatus, received, hpsResult, link>>

StatusIsGood == curHttpStatus = 200 /\ curDataStatus # "BodyTruncated"

ReadStatus ==
  /\ pc = "status" /\ link = "up" /\ StatusIsGood
  /\ pc' = "reply" /\ httpStatus' = curHttpStatus
  /\ UNCHANGED <<hpsCall, unsent, received, hpsResult, writeLost, link, deviceVars,
                 hpsExecutions>>

\* The status cannot be read - get() returns None, which has no status - or is bad.
StatusFails == pc = "status" /\ (link = "up" => ~StatusIsGood) /\ Fails

\* Every read returns all of the body: getStreamed() finds no end.
EndlessReply ==
  pc = "reply" /\ hpsCall.chunking /\ ~curReplyIsChunked /\ curBody # <<>>

\* Variant: an empty read does not end the reply.
ReadReplyOn ==
  /\ pc = "reply" /\ link = "up" /\ hpsCall.chunking
  /\ EndlessReply => Len(received) <= MaxLeftOver
  /\ received' = received \o BodyRead
  /\ UNCHANGED <<pc, hpsCall, unsent, httpStatus, hpsResult, writeLost>>
  /\ BodyServed
  /\ UNCHANGED <<link, hpsExecutions>>

\* An empty reply is returned as None.
Returned(body) == IF body = <<>> THEN NoHpsReply ELSE body

\* getStreamed(): reads until one is empty, and then returns what was received.
ReadReply ==
  /\ pc = "reply" /\ link = "up" /\ hpsCall.chunking
  /\ EndlessReply => Len(received) <= MaxLeftOver
  /\ IF BodyRead = <<>> THEN Ends(Returned(received))
     ELSE /\ received' = received \o BodyRead
          /\ UNCHANGED <<pc, hpsCall, unsent, httpStatus, hpsResult, writeLost>>
  /\ BodyServed
  /\ UNCHANGED <<link, hpsExecutions>>

\* get(): one read.
ReadWholeReply ==
  /\ pc = "reply" /\ link = "up" /\ ~hpsCall.chunking
  /\ Ends(Returned(BodyRead))
  /\ BodyServed
  /\ UNCHANGED <<link, hpsExecutions>>

\* A read that starts past the end of what an earlier request left.
ReadPastEnd ==
  /\ pc = "reply" /\ link = "up" /\ ~BodyIsReadable
  /\ Restarted
  /\ UNCHANGED <<clientVars, hpsExecutions>>

\* A read that fails makes an empty reply of what was received: None is returned.
ReplyFails == pc = "reply" /\ link = "lost" /\ Fails

--------------------------------------------------------------------------------
(* What else happens. *)

\* printStatus(): a client that makes no request reads every characteristic.
PrintStatus ==
  /\ pc = "idle"
  /\ \/ BodyServed /\ UNCHANGED link
     \/ ~BodyIsReadable /\ Restarted
  /\ UNCHANGED <<clientVars, hpsExecutions>>

\* A read, or a write of a stream, fails although the connection stays up.
OperationFails ==
  /\ link = "up"
  /\ pc \in {"status", "reply"} \/ (pc = "body" /\ ~FitsOneWrite)
  /\ Fails

ConnectionLost ==
  /\ link = "up"
  /\ link' = "lost"
  /\ UNCHANGED <<clientVars, deviceVars, hpsExecutions>>

\* The client process ends, in a call or not; the next one has no connection.
ClientStops ==
  /\ IF pc = "idle" THEN UNCHANGED clientVars ELSE Ends(NoHpsReply)
  /\ link' = "none"
  /\ UNCHANGED <<deviceVars, hpsExecutions>>

DeviceRestarts == Restarted /\ UNCHANGED <<clientVars, hpsExecutions>>

--------------------------------------------------------------------------------

HpsInit ==
  /\ pc = "idle" /\ hpsCall = NoHpsCall
  /\ unsent = <<>> /\ httpStatus = 0 /\ received = <<>> /\ hpsResult = NoHpsReply
  /\ writeLost = FALSE
  /\ link = "none"
  /\ curUrl = "" /\ curBody = <<>> /\ lastBodyChunk = <<>>
  /\ curReplyIsChunked = FALSE /\ curBodyReadOffset = 0
  /\ curHttpStatus \in {0, 200} /\ curDataStatus = "EMPTY"
  /\ hpsExecutions = <<>>

\* The steps of a call that has begun.
RequestStep ==
  \/ WriteUrl \/ CannotConnect
  \/ WriteBody \/ StreamBody \/ StreamingEnds \/ StreamingFails
  \/ WriteControlPoint \/ ReadStatus \/ StatusFails
  \/ ReadReply \/ ReadWholeReply \/ ReadPastEnd \/ ReplyFails

HpsNext ==
  \/ \E c \in HpsCalls : Call(c)
  \/ RequestStep
  \/ PrintStatus \/ OperationFails \/ ConnectionLost \/ ClientStops \/ DeviceRestarts

HpsSpec == HpsInit /\ [][HpsNext]_hpsVars

\* A client that has begun a call goes on with it; nothing has to fail.
HpsFairSpec == HpsSpec /\ WF_hpsVars(RequestStep)

--------------------------------------------------------------------------------
(* Correctness. *)

CalledUrls == {c.url : c \in HpsCalls} \cup {""}

\* While a call is made that has lost no write, the reply's cursor is in the body.
HpsTypeOK ==
  /\ pc \in {"idle", "url", "body", "control", "status", "reply"}
  /\ hpsCall \in HpsCalls \cup {NoHpsCall} /\ (pc = "idle") = (hpsCall = NoHpsCall)
  /\ unsent \in Seq(Units) /\ received \in Seq(Units)
  /\ httpStatus \in {0, 200}
  /\ writeLost \in BOOLEAN /\ (pc = "idle" => ~writeLost)
  /\ link \in {"none", "up", "lost"}
  /\ curUrl \in CalledUrls
  /\ curBody \in Seq(Units) /\ lastBodyChunk \in Seq(Units)
  /\ curReplyIsChunked \in BOOLEAN
  /\ curBodyReadOffset \in Nat
  /\ curHttpStatus \in {0, 200, 400, 404, 413}
  /\ curDataStatus \in {"EMPTY", "BodyReceived", "BodyTruncated"}
  /\ (pc = "reply" /\ link = "up" /\ ~writeLost) => BodyIsReadable

\* What a provider is asked for.
RequestOf(c) ==
  [method |-> c.method, url |-> c.url, body |-> IF c.body = NoBody THEN <<>> ELSE c.body]

Callers ==
  INSTANCE RemoteCall WITH
    Requests <- {RequestOf(c) : c \in HpsCalls},
    Replies <- HpsReplies,
    NoRequest <- NoHpsCall, NoReply <- NoHpsReply,
    request <- IF hpsCall = NoHpsCall THEN NoHpsCall ELSE RequestOf(hpsCall),
    executions <- hpsExecutions,
    result <- hpsResult,
    spoiled <- writeLost

\* A call is carried out at most once and with its own method, and what it returns is
\* the whole reply of that execution, whatever earlier requests, clients, connections
\* and lost writes left in the variables of the device.  If no write of it was lost,
\* what is carried out is exactly the request that was made, and if one was lost, only
\* a call that was not carried out can return anything else.
ImplementsRemoteCall == Callers!CallSpec

\* "Silently continuing (e.g. on to a controlPoint write) would make the device process
\* an incomplete body as if it were complete, so let the exception propagate"
\* (ble.py:145-147): what the device carries out for a call is the request it makes.
CarriesOutTheRequest ==
  (hpsCall # NoHpsCall /\ hpsExecutions # <<>>)
    => Head(hpsExecutions).request = RequestOf(hpsCall)

\* A call ends: with a connection that works, that is lost or that never was, and in
\* the reading of a reply, whose length the client does not know - unless the device
\* has kept the reply to a request without chunking and the command of this one was
\* lost.
CallEnds == pc # "idle" ~> (pc = "idle" \/ EndlessReply)
================================================================================

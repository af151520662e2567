------------------------------- MODULE RemoteCall -------------------------------
(***************************************************************************)
(* What a program can rely on of IotsaHPSProtocolHandler.request() (hps.py).*)
(* As with any other protocol, the device carries out the request that was  *)
(* made, once or - if the call fails - perhaps not at all, and what the     *)
(* call returns is the whole reply of that execution.  But a call can be    *)
(* spoiled: the device has not taken all of the request, and the caller is  *)
(* not told.  Then another request with the same method may be carried out, *)
(* and a call that was not carried out may return something nevertheless.   *)
(***************************************************************************)
EXTENDS Sequences

CONSTANTS Requests, Replies, NoRequest, NoReply

VARIABLES
  request,     \* the request being made, or NoRequest
  executions,  \* what the device did for the latest request
  result,      \* what the latest call returned; NoReply for nothing or an exception
  spoiled      \* a part of the request being made was lost

callVars == <<request, executions, result, spoiled>>

CallInit == request = NoRequest /\ executions = <<>> /\ result = NoReply /\ spoiled = FALSE

Call ==
  /\ request = NoRequest
  /\ request' \in Requests
  /\ executions' = <<>> /\ result' = NoReply
  /\ UNCHANGED spoiled

\* A part of the request is lost before it is carried out.
Spoil ==
  /\ request # NoRequest /\ executions = <<>>
  /\ spoiled' = TRUE
  /\ UNCHANGED <<request, executions, result>>

Execute ==
  /\ request # NoRequest /\ executions = <<>>
  /\ Len(executions') = 1
  /\ LET execution == Head(executions')
     IN  /\ execution.reply \in Replies
         /\ execution.request.method = request.method
         /\ ~spoiled => execution.request = request
  /\ UNCHANGED <<request, result, spoiled>>

Return ==
  /\ request # NoRequest
  /\ \/ executions # <<>> /\ result' = Head(executions).reply
     \/ executions = <<>> /\ spoiled
  /\ request' = NoRequest /\ spoiled' = FALSE
  /\ UNCHANGED executions

Fail ==
  /\ request # NoRequest
  /\ request' = NoRequest /\ spoiled' = FALSE
  /\ UNCHANGED <<executions, result>>

CallNext == Call \/ Spoil \/ Execute \/ Return \/ Fail

CallSpec == CallInit /\ [][CallNext]_callVars
================================================================================

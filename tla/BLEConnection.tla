----------------------------- MODULE BLEConnection -----------------------------
(***************************************************************************)
(* One connection of the BLE client (iotsaBLEClientConnection.cpp) and the  *)
(* address of its device (iotsaBLEDeviceInfo.cpp).  The task of the         *)
(* application calls connect() and disconnect(); the host task of the BLE   *)
(* stack delivers advertisements, which may give the device another address *)
(* and then close the connection too, and reports its end.  Only the        *)
(* address has a lock; disconnectSettled and the counters have none, so     *)
(* connect() and disconnect() are cut where the host task can intervene.    *)
(* The handlers of the host task, which usually preempts the other, are     *)
(* single steps.                                                            *)
(*                                                                          *)
(* The scan that connect() and a failure hold off or ask for is in BLEScan. *)
(***************************************************************************)
EXTENDS Integers

CONSTANTS
  Addresses,     \* the addresses the device advertises with
  NoAddress,
  MaxCalls       \* bound: calls of connect() that count

ASSUME ConnectionAssumption == NoAddress \notin Addresses /\ MaxCalls \in Nat

VARIABLES
  connStep,               \* where the application's task is
  address,                \* address, or NoAddress when it is not valid
  reconfirm,              \* needsRescan
  connLink,               \* the stack's: "down", "up", "closing", or "dropped", with
                          \* onDisconnect() still to be called
  disconnectSettled,
  numConnectCalls, numConnectSkipped, numConnectAttempts,
  numConnectFailed, numConnectSucceeded,
  numConnectionFailed, numConnectionClosedLocally

callCounters == <<numConnectCalls, numConnectSkipped, numConnectAttempts>>
resultCounters == <<numConnectFailed, numConnectSucceeded>>
fateCounters == <<numConnectionFailed, numConnectionClosedLocally>>
connVars == <<connStep, address, reconfirm, connLink, disconnectSettled,
              callCounters, resultCounters, fateCounters>>

IsConnected == connLink = "up"
IsDisconnecting == ~disconnectSettled

--------------------------------------------------------------------------------
(* connect() *)

\* The address is copied under its lock: a later advertisement does not redirect the
\* attempt.  Without an address, or without the lock, connect() returns at once.
ConnectBegins ==
  /\ connStep = "idle" /\ address # NoAddress
  /\ numConnectCalls < MaxCalls
  /\ connStep' = "called"
  /\ numConnectCalls' = numConnectCalls + 1
  /\ UNCHANGED <<address, reconfirm, connLink, disconnectSettled, numConnectSkipped,
                 numConnectAttempts, resultCounters, fateCounters>>

ConnectSkips ==
  /\ connStep = "called" /\ IsConnected
  /\ connStep' = "idle"
  /\ numConnectSkipped' = numConnectSkipped + 1
  /\ UNCHANGED <<address, reconfirm, connLink, disconnectSettled,
                 numConnectCalls, numConnectAttempts, resultCounters, fateCounters>>

ConnectAttempts ==
  /\ connStep = "called" /\ ~IsConnected
  /\ connStep' = "connecting"
  /\ numConnectAttempts' = numConnectAttempts + 1
  /\ UNCHANGED <<address, reconfirm, connLink, disconnectSettled,
                 numConnectCalls, numConnectSkipped, resultCounters, fateCounters>>

\* pClient->connect() returns: with a connection, or after its timeout, or at once when
\* the previous connection has not gone yet.
HostConnects ==
  /\ connStep = "connecting"
  /\ \/ connLink = "down" /\ connLink' = "up" /\ connStep' = "succeeded"
     \/ connStep' = "failed" /\ UNCHANGED connLink
  /\ UNCHANGED <<address, reconfirm, disconnectSettled, callCounters,
                 resultCounters, fateCounters>>

ConnectSucceeds ==
  /\ connStep = "succeeded"
  /\ connStep' = "idle" /\ reconfirm' = FALSE
  /\ numConnectSucceeded' = numConnectSucceeded + 1
  /\ UNCHANGED <<address, connLink, disconnectSettled, callCounters,
                 numConnectFailed, fateCounters>>

\* The address is kept: that the device did not answer does not make it wrong.
ConnectFails ==
  /\ connStep = "failed"
  /\ connStep' = "idle" /\ reconfirm' = TRUE
  /\ numConnectFailed' = numConnectFailed + 1
  /\ UNCHANGED <<address, connLink, disconnectSettled, callCounters,
                 numConnectSucceeded, fateCounters>>

(* disconnect() *)

DisconnectBegins ==
  /\ connStep = "idle" /\ IsConnected
  /\ connStep' = "disconnect"
  /\ UNCHANGED <<address, reconfirm, connLink, disconnectSettled, callCounters,
                 resultCounters, fateCounters>>

\* Variant: the flag is cleared after the call.
DisconnectMarksLate ==
  /\ connStep = "disconnect"
  /\ connStep' = "marked"
  /\ connLink' = IF IsConnected THEN "closing" ELSE connLink
  /\ UNCHANGED <<address, reconfirm, disconnectSettled, callCounters,
                 resultCounters, fateCounters>>

DisconnectMarks ==
  /\ connStep = "disconnect"
  /\ connStep' = "marked" /\ disconnectSettled' = FALSE
  /\ UNCHANGED <<address, reconfirm, connLink, callCounters, resultCounters,
                 fateCounters>>

\* pClient->disconnect() does nothing when the connection went away by itself.
DisconnectCalls ==
  /\ connStep = "marked"
  /\ connStep' = "idle"
  /\ connLink' = IF IsConnected THEN "closing" ELSE connLink
  /\ UNCHANGED <<address, reconfirm, disconnectSettled, callCounters,
                 resultCounters, fateCounters>>

(* The host task. *)

\* The connection is lost, or closed as was asked.
LinkDrops ==
  /\ connLink \in {"up", "closing"}
  /\ connLink' = "dropped"
  /\ UNCHANGED <<connStep, address, reconfirm, disconnectSettled, callCounters,
                 resultCounters, fateCounters>>

\* Variant: only a loss is counted.
OnDisconnectCountsLoss ==
  /\ connLink = "dropped"
  /\ connLink' = "down" /\ disconnectSettled' = TRUE
  /\ numConnectionFailed' = numConnectionFailed + IF disconnectSettled THEN 1 ELSE 0
  /\ UNCHANGED <<connStep, address, reconfirm, callCounters, resultCounters,
                 numConnectionClosedLocally>>

\* Whether it was asked for is told by the flag alone.
OnDisconnect ==
  /\ connLink = "dropped"
  /\ connLink' = "down"
  /\ IF disconnectSettled
     THEN numConnectionFailed' = numConnectionFailed + 1
          /\ UNCHANGED numConnectionClosedLocally
     ELSE numConnectionClosedLocally' = numConnectionClosedLocally + 1
          /\ UNCHANGED numConnectionFailed
  /\ disconnectSettled' = TRUE
  /\ UNCHANGED <<connStep, address, reconfirm, callCounters, resultCounters>>

\* receivedAdvertisement(): another address closes a connection made with the old one.
ReceivedAdvertisement(a) ==
  /\ reconfirm' = FALSE
  /\ address' = a
  /\ IF a # address /\ IsConnected
     THEN disconnectSettled' = FALSE /\ connLink' = "closing"
     ELSE UNCHANGED <<disconnectSettled, connLink>>
  /\ UNCHANGED <<connStep, callCounters, resultCounters, fateCounters>>

\* The lock of the address was not given in time: the advertisement is passed over.
AdvertisementSkipped ==
  /\ reconfirm' = FALSE
  /\ UNCHANGED <<connStep, address, connLink, disconnectSettled, callCounters,
                 resultCounters, fateCounters>>

\* setKnownAddress(), of an address that was saved, before the device was seen.
SetKnownAddress(a) ==
  /\ connStep = "idle" /\ numConnectCalls = 0
  /\ address' = a
  /\ UNCHANGED <<connStep, reconfirm, connLink, disconnectSettled, callCounters,
                 resultCounters, fateCounters>>

--------------------------------------------------------------------------------

ConnectionInit ==
  /\ connStep = "idle" /\ address = NoAddress
  /\ reconfirm = FALSE /\ connLink = "down" /\ disconnectSettled = TRUE
  /\ numConnectCalls = 0 /\ numConnectSkipped = 0 /\ numConnectAttempts = 0
  /\ numConnectFailed = 0 /\ numConnectSucceeded = 0
  /\ numConnectionFailed = 0 /\ numConnectionClosedLocally = 0

ConnectionNext ==
  \/ ConnectBegins \/ ConnectSkips \/ ConnectAttempts \/ HostConnects
  \/ ConnectSucceeds \/ ConnectFails
  \/ DisconnectBegins \/ DisconnectMarks \/ DisconnectCalls
  \/ LinkDrops \/ OnDisconnect \/ AdvertisementSkipped
  \/ \E a \in Addresses : ReceivedAdvertisement(a) \/ SetKnownAddress(a)

ConnectionSpec == ConnectionInit /\ [][ConnectionNext]_connVars

--------------------------------------------------------------------------------
(* Correctness. *)

ConnectionTypeOK ==
  /\ connStep \in {"idle", "called", "connecting", "succeeded", "failed",
                   "disconnect", "marked"}
  /\ address \in Addresses \cup {NoAddress}
  /\ reconfirm \in BOOLEAN /\ disconnectSettled \in BOOLEAN
  /\ connLink \in {"down", "up", "closing", "dropped"}
  /\ numConnectCalls \in 0 .. MaxCalls
  /\ numConnectSkipped \in Nat /\ numConnectAttempts \in Nat
  /\ numConnectFailed \in Nat /\ numConnectSucceeded \in Nat
  /\ numConnectionFailed \in Nat /\ numConnectionClosedLocally \in Nat

One(condition) == IF condition THEN 1 ELSE 0

\* The counters of connect() and those of the fate of connections, which three tasks
\* step at different moments, add up: each attempt was a failure, a success or is under
\* way, and each success is the connection that is open (isConnected() says so), was
\* counted once more when its connection's end was reported, or is one whose end
\* onDisconnect() has still to report.  That last term is not in "fully closed:
\* numConnectSucceeded = numConnectionOpen [...] + numConnectionFailed +
\* numConnectionClosedLocally" (iotsaBLEClientConnection.h:101-104): the books close only
\* when no connection is being closed or has just dropped.
Accounted ==
  /\ numConnectCalls = numConnectSkipped + numConnectAttempts + One(connStep = "called")
  /\ numConnectAttempts = numConnectFailed + numConnectSucceeded
                            + One(connStep \in {"connecting", "succeeded", "failed"})
  /\ numConnectSucceeded + One(connStep = "succeeded")
       = One(IsConnected) + numConnectionFailed + numConnectionClosedLocally
           + One(connLink \in {"closing", "dropped"})

\* A connection that is being closed is known to be: a caller that asks is told to hold
\* off, and the end of it is not taken for a failure - whichever task closed it, and
\* whatever the other one was doing.
ClosingIsSeen == connLink = "closing" => IsDisconnecting
================================================================================

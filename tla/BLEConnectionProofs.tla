-------------------------- MODULE BLEConnectionProofs --------------------------
(***************************************************************************)
(* Proofs about BLEConnection, for any addresses and any number of calls.   *)
(***************************************************************************)
EXTENDS BLEConnection, TLAPS

\* Between the flag and the stack's disconnect(), a connection that is still up is
\* marked: only the end of a connection takes the mark away, and no other connection
\* can come up while disconnect() is being called.
Marked == connStep = "marked" /\ connLink = "up" => IsDisconnecting

ConnectionInv == ConnectionTypeOK /\ Accounted /\ ClosingIsSeen /\ Marked

--------------------------------------------------------------------------------
(* Types. *)

LEMMA ConnectionInitType ==
  ASSUME ConnectionInit
  PROVE  ConnectionTypeOK
<1>1. reconfirm \in BOOLEAN /\ disconnectSettled \in BOOLEAN
  BY DEF ConnectionInit
<1> QED BY <1>1, ConnectionAssumption DEF ConnectionInit, ConnectionTypeOK

LEMMA ConnectionNextType ==
  ASSUME ConnectionTypeOK, [ConnectionNext]_connVars
  PROVE  ConnectionTypeOK'
<1> USE ConnectionAssumption
        DEF ConnectionTypeOK, callCounters, resultCounters, fateCounters
<1>1. CASE ConnectBegins
  BY <1>1 DEF ConnectBegins
<1>2. CASE ConnectSkips
  BY <1>2 DEF ConnectSkips
<1>3. CASE ConnectAttempts
  BY <1>3 DEF ConnectAttempts
<1>4. CASE HostConnects
  BY <1>4 DEF HostConnects
<1>5. CASE ConnectSucceeds
  <2>1. reconfirm' \in BOOLEAN
    BY <1>5 DEF ConnectSucceeds
  <2> QED BY <1>5, <2>1 DEF ConnectSucceeds
<1>6. CASE ConnectFails
  BY <1>6 DEF ConnectFails
<1>7. CASE DisconnectBegins
  BY <1>7 DEF DisconnectBegins
<1>8. CASE DisconnectMarks
  BY <1>8 DEF DisconnectMarks
<1>9. CASE DisconnectCalls
  BY <1>9 DEF DisconnectCalls
<1>10. CASE LinkDrops
  BY <1>10 DEF LinkDrops
<1>11. CASE OnDisconnect
  BY <1>11 DEF OnDisconnect
<1>12. CASE AdvertisementSkipped
  BY <1>12 DEF AdvertisementSkipped
<1>13. ASSUME NEW a \in Addresses, ReceivedAdvertisement(a)
       PROVE  ConnectionTypeOK'
  BY <1>13 DEF ReceivedAdvertisement
<1>14. ASSUME NEW a \in Addresses, SetKnownAddress(a)
       PROVE  ConnectionTypeOK'
  BY <1>14 DEF SetKnownAddress
<1>15. CASE UNCHANGED connVars
  BY <1>15 DEF connVars
<1> QED BY <1>1, <1>2, <1>3, <1>4, <1>5, <1>6, <1>7, <1>8, <1>9, <1>10, <1>11, <1>12,
           <1>13, <1>14, <1>15 DEF ConnectionNext

--------------------------------------------------------------------------------
(* The counters. *)

\* A step of connect() moves a call from one count to the next; the end of a connection
\* is counted in one of two ways.
LEMMA NextAccounted ==
  ASSUME ConnectionTypeOK, Accounted, [ConnectionNext]_connVars
  PROVE  Accounted'
<1> USE DEF ConnectionTypeOK, Accounted, One, IsConnected, callCounters, resultCounters, fateCounters
<1>1. CASE ConnectBegins
  BY <1>1 DEF ConnectBegins
<1>2. CASE ConnectSkips
  BY <1>2 DEF ConnectSkips
<1>3. CASE ConnectAttempts
  BY <1>3 DEF ConnectAttempts
<1>4. CASE HostConnects
  BY <1>4 DEF HostConnects
<1>5. CASE ConnectSucceeds
  BY <1>5 DEF ConnectSucceeds
<1>6. CASE ConnectFails
  BY <1>6 DEF ConnectFails
<1>7. CASE DisconnectBegins
  BY <1>7 DEF DisconnectBegins
<1>8. CASE DisconnectMarks
  BY <1>8 DEF DisconnectMarks
<1>9. CASE DisconnectCalls
  BY <1>9 DEF DisconnectCalls, IsConnected
<1>10. CASE LinkDrops
  BY <1>10 DEF LinkDrops
<1>11. CASE OnDisconnect
  BY <1>11 DEF OnDisconnect
<1>12. CASE AdvertisementSkipped
  BY <1>12 DEF AdvertisementSkipped
<1>13. ASSUME NEW a \in Addresses, ReceivedAdvertisement(a)
       PROVE  Accounted'
  BY <1>13 DEF ReceivedAdvertisement, IsConnected
<1>14. ASSUME NEW a \in Addresses, SetKnownAddress(a)
       PROVE  Accounted'
  BY <1>14 DEF SetKnownAddress
<1>15. CASE UNCHANGED connVars
  BY <1>15 DEF connVars
<1> QED BY <1>1, <1>2, <1>3, <1>4, <1>5, <1>6, <1>7, <1>8, <1>9, <1>10, <1>11, <1>12,
           <1>13, <1>14, <1>15 DEF ConnectionNext

--------------------------------------------------------------------------------
(* The flag. *)

\* Only the two calls that close a connection, and the callback that reports its end,
\* touch the flag or make a connection close.
LEMMA NextSeen ==
  ASSUME ClosingIsSeen, Marked, [ConnectionNext]_connVars
  PROVE  ClosingIsSeen' /\ Marked'
<1> USE DEF ClosingIsSeen, Marked, IsDisconnecting, IsConnected
<1>1. CASE HostConnects
  BY <1>1 DEF HostConnects
<1>2. CASE DisconnectMarks
  BY <1>2 DEF DisconnectMarks
<1>3. CASE DisconnectCalls
  BY <1>3 DEF DisconnectCalls
<1>4. CASE LinkDrops
  BY <1>4 DEF LinkDrops
<1>5. CASE OnDisconnect
  BY <1>5 DEF OnDisconnect
<1>6. ASSUME NEW a \in Addresses, ReceivedAdvertisement(a)
      PROVE  ClosingIsSeen' /\ Marked'
  BY <1>6 DEF ReceivedAdvertisement
<1>7. ASSUME UNCHANGED <<connLink, disconnectSettled>>, connStep' = connStep \/ connStep' # "marked"
      PROVE  ClosingIsSeen' /\ Marked'
  BY <1>7
<1>8. CASE ConnectBegins \/ ConnectSkips \/ ConnectAttempts \/ ConnectSucceeds \/ ConnectFails
           \/ DisconnectBegins
  BY <1>7, <1>8 DEF ConnectBegins, ConnectSkips, ConnectAttempts, ConnectSucceeds,
                    ConnectFails, DisconnectBegins
<1>9. CASE AdvertisementSkipped \/ (\E a \in Addresses : SetKnownAddress(a))
           \/ UNCHANGED connVars
  BY <1>7, <1>9 DEF AdvertisementSkipped, SetKnownAddress, connVars
<1> QED BY <1>1, <1>2, <1>3, <1>4, <1>5, <1>6, <1>8, <1>9 DEF ConnectionNext

LEMMA ConnectionInvariance == ConnectionSpec => []ConnectionInv
<1>1. ConnectionInit => ConnectionInv
  <2> SUFFICES ASSUME ConnectionInit PROVE ConnectionInv
    OBVIOUS
  <2>1. Accounted /\ ClosingIsSeen /\ Marked
    BY DEF ConnectionInit, Accounted, One, IsConnected, ClosingIsSeen, Marked
  <2> QED BY <2>1, ConnectionInitType DEF ConnectionInv
<1>2. ConnectionInv /\ [ConnectionNext]_connVars => ConnectionInv'
  BY ConnectionNextType, NextAccounted, NextSeen DEF ConnectionInv
<1> QED BY <1>1, <1>2, PTL DEF ConnectionSpec

--------------------------------------------------------------------------------
(* The theorems. *)

\* The variables of a connection keep their types, and no more calls are counted than
\* were made.
THEOREM ConnectionTypeCorrect == ConnectionSpec => []ConnectionTypeOK
BY ConnectionInvariance, PTL DEF ConnectionInv

\* The counters of a connection add up, in whatever step of connect() or disconnect()
\* the task is (iotsaBLEClientConnection.h:84-104), when a connection whose end is still
\* to be reported is counted besides the open one.
THEOREM ConnectionsAreAccounted == ConnectionSpec => []Accounted
BY ConnectionInvariance, PTL DEF ConnectionInv

\* A connection that is being closed, by either task, is known to be disconnecting
\* until its end is reported.
THEOREM ClosingIsAlwaysSeen == ConnectionSpec => []ClosingIsSeen
BY ConnectionInvariance, PTL DEF ConnectionInv
================================================================================

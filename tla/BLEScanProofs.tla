----------------------------- MODULE BLEScanProofs -----------------------------
(***************************************************************************)
(* Proofs about BLEScan, for any number of devices and any timing.          *)
(*                                                                          *)
(* Two inductive invariants carry them.  The count of attempts equals the   *)
(* number of tasks that make one, which also keeps it from going below 0.   *)
(* And ScanOwned: between the decision of loop() to scan and the call that  *)
(* starts the scan no scan runs, and scanner, once set, stays set, so that  *)
(* a scan that runs is always one that scanner shows.  ScanOwned needs      *)
(* scanner to be written by loop() only, ScannerReconfigured = FALSE.       *)
(***************************************************************************)
EXTENDS BLEScan, FiniteSetTheorems, TLAPS

Attempters == {d \in Devices : task[d] \in Attempting}

ScanOwned ==
  /\ hostScan => scanner
  /\ loopAt = "starting" => scanner
  /\ loopAt \in {"start", "starting"} => ~hostScan

--------------------------------------------------------------------------------
(* Attempts and types. *)

\* The values that the code gives its three deadlines, and what a tick makes of them,
\* stay within their types.
LEMMA DeadlineTypes ==
  /\ \A x \in {Off, 0, Cooldown, RetryTime} : x \in ScanDeadline
  /\ \A x \in {0, SettleTime} : x \in 0 .. SettleTime
  /\ \A x \in {Off, After(UnknownTime)} : x \in Deadline(UnknownTime)
  /\ \A x \in ScanDeadline : Ticked(x) \in ScanDeadline
  /\ \A x \in 0 .. SettleTime : Ticked(x) \in 0 .. SettleTime
  /\ \A x \in Deadline(UnknownTime) : Ticked(x) \in Deadline(UnknownTime)
  <1> USE ScanAssumption
  <1>1. \A x \in {Off, 0, Cooldown, RetryTime} : x \in ScanDeadline
    BY DEF ScanDeadline
  <1>2. \A x \in ScanDeadline : Ticked(x) \in ScanDeadline
    BY DEF ScanDeadline, Off, Ticked
  <1>3. /\ \A x \in {0, SettleTime} : x \in 0 .. SettleTime
        /\ \A x \in 0 .. SettleTime : Ticked(x) \in 0 .. SettleTime
    BY DEF Ticked
  <1>4. /\ \A x \in {Off, After(UnknownTime)} : x \in Deadline(UnknownTime)
        /\ \A x \in Deadline(UnknownTime) : Ticked(x) \in Deadline(UnknownTime)
    BY DEF Deadline, Off, After, Ticked
  <1> QED
    BY <1>1, <1>2, <1>3, <1>4

LEMMA InitTyped == Init => TypeOK
  <1> SUFFICES ASSUME Init PROVE TypeOK
    OBVIOUS
  <1>1. scanAt \in ScanDeadline /\ settleLeft \in 0 .. SettleTime
        /\ scanUnknownUntil \in Deadline(UnknownTime)
    BY DeadlineTypes DEF Init
  <1> QED
    BY <1>1 DEF Init, TypeOK, LoopSteps, TaskSteps

LEMMA InitCounted == Init => AttemptsCounted
  <1> SUFFICES ASSUME Init PROVE AttemptsCounted
    OBVIOUS
  <1>1. {d \in Devices : task[d] \in Attempting} = {}
    BY DEF Init, Attempting
  <1>2. Cardinality({d \in Devices : task[d] \in Attempting}) = 0
    BY <1>1, FS_EmptySet
  <1> QED
    BY <1>2 DEF AttemptsCounted, Init

\* The tasks that make an attempt are finitely many, now and after a step.
LEMMA AttemptersFinite ==
  IsFiniteSet(Attempters) /\ IsFiniteSet(Attempters')
  <1>1. Attempters \subseteq Devices /\ Attempters' \subseteq Devices
    BY DEF Attempters
  <1> QED
    BY <1>1, FS_Subset, ScanAssumption

\* An attempt is counted when its task begins it, and no longer when it ends it;
\* no other step makes a difference.
LEMMA AttemptsStep ==
  ASSUME TypeOK, [Next]_scanVars
  PROVE  \/ connectingCount' = connectingCount /\ Attempters' = Attempters
         \/ \E d \in Devices \ Attempters :
              /\ connectingCount' = connectingCount + 1
              /\ Attempters' = Attempters \cup {d}
         \/ \E d \in Attempters :
              /\ connectingCount' = connectingCount - 1
              /\ Attempters' = Attempters \ {d}
  <1> USE DEF TypeOK, Attempters, Attempting, connectVars
  <1>1. CASE UNCHANGED <<connectingCount, task>>
    BY <1>1
  <1>2. ASSUME NEW d \in Devices, Connect(d)
        PROVE  \/ UNCHANGED <<connectingCount, task>>
               \/ /\ d \notin Attempters
                  /\ connectingCount' = connectingCount + 1
                  /\ Attempters' = Attempters \cup {d}
               \/ /\ connectingCount' = connectingCount
                  /\ Attempters' = Attempters
    BY <1>2 DEF Connect
  <1>3. ASSUME NEW d \in Devices, ConnectEnds(d)
        PROVE  \/ /\ connectingCount' = connectingCount
                  /\ Attempters' = Attempters
               \/ /\ d \in Attempters
                  /\ connectingCount' = connectingCount - 1
                  /\ Attempters' = Attempters \ {d}
    BY <1>3 DEF ConnectEnds
  <1>4. ASSUME NEW d \in Devices, AskToConnect(d) \/ HostConnects(d) \/ HostConnected(d)
        PROVE  connectingCount' = connectingCount /\ Attempters' = Attempters
    BY <1>4 DEF AskToConnect, HostConnects, HostConnected
  <1>5. ASSUME NEW d \in Devices, LinkDown(d) \/ OnResult(d) \/ AddDevice(d)
                                  \/ NoteKnownAddress(d) \/ DelDevice(d)
        PROVE  UNCHANGED <<connectingCount, task>>
    BY <1>5 DEF LinkDown, OnResult, AddDevice, NoteKnownAddress, DelDevice
  <1>6. ASSUME LoopStep PROVE UNCHANGED <<connectingCount, task>>
    BY <1>6 DEF LoopStep, LoopReadsStop, LoopTakesFlags, LoopStops, LoopSettles,
                LoopUpdates, LoopClears, LoopDecides, LoopStarts, LoopScans
  <1>7. ASSUME ScanTimesOut \/ OnScanEnd \/ StartScanUnknown \/ PutScanSettings \/ Tick
        PROVE UNCHANGED <<connectingCount, task>>
    BY <1>7 DEF ScanTimesOut, OnScanEnd, StartScanUnknown, PutScanSettings, Tick
  <1>8. CASE UNCHANGED scanVars
    BY <1>1, <1>8 DEF scanVars
  <1>9. CASE Next
    BY <1>1, <1>2, <1>3, <1>4, <1>5, <1>6, <1>7, <1>9 DEF Next, TaskStep, UserStep
  <1> QED
    BY <1>8, <1>9

LEMMA NextCounted ==
  ASSUME TypeOK, AttemptsCounted, [Next]_scanVars
  PROVE  AttemptsCounted' /\ connectingCount' \in Nat
  <1>1. /\ IsFiniteSet(Attempters)
        /\ connectingCount = Cardinality(Attempters)
        /\ Cardinality(Attempters) \in Nat
        /\ Cardinality(Attempters') \in Nat
    BY AttemptersFinite, FS_CardinalityType DEF AttemptsCounted, Attempters
  <1>2. connectingCount' = Cardinality(Attempters')
    <2>1. CASE connectingCount' = connectingCount /\ Attempters' = Attempters
      BY <1>1, <2>1
    <2>2. ASSUME NEW d \in Devices \ Attempters,
                 connectingCount' = connectingCount + 1,
                 Attempters' = Attempters \cup {d}
          PROVE  connectingCount' = Cardinality(Attempters')
      BY <1>1, <2>2, FS_AddElement
    <2>3. ASSUME NEW d \in Attempters,
                 connectingCount' = connectingCount - 1,
                 Attempters' = Attempters \ {d}
          PROVE  connectingCount' = Cardinality(Attempters')
      BY <1>1, <2>3, FS_RemoveElement
    <2> QED
      BY <2>1, <2>2, <2>3, AttemptsStep
  <1> QED
    BY <1>1, <1>2 DEF AttemptsCounted, Attempters

LEMMA NextTyped ==
  ASSUME TypeOK, connectingCount' \in Nat, [Next]_scanVars
  PROVE  TypeOK'
  <1> USE DEF TypeOK, LoopSteps, TaskSteps, serverVars, connectVars, hostVars,
              deviceVars, unknownVars, flagVars, loopVars
  <1>1. ASSUME LoopStep PROVE TypeOK'
    <2>1. CASE LoopReadsStop BY <2>1, DeadlineTypes DEF LoopReadsStop
    <2>2. CASE LoopTakesFlags BY <2>2, DeadlineTypes DEF LoopTakesFlags
    <2>3. CASE LoopStops BY <2>3, DeadlineTypes DEF LoopStops
    <2>4. CASE LoopSettles BY <2>4, DeadlineTypes DEF LoopSettles
    <2>5. CASE LoopUpdates BY <2>5, DeadlineTypes DEF LoopUpdates
    <2>6. CASE LoopClears BY <2>6, DeadlineTypes DEF LoopClears
    <2>7. CASE LoopDecides BY <2>7, DeadlineTypes DEF LoopDecides, ScanLater
    <2>8. CASE LoopStarts BY <2>8, DeadlineTypes DEF LoopStarts
    <2>9. CASE LoopScans BY <2>9, DeadlineTypes DEF LoopScans, ScanLater
    <2> QED
      BY <1>1, <2>1, <2>2, <2>3, <2>4, <2>5, <2>6, <2>7, <2>8, <2>9 DEF LoopStep
  <1>2. ASSUME NEW d \in Devices, TaskStep(d) PROVE TypeOK'
    <2>1. CASE AskToConnect(d)
      <3>1. task' \in [Devices -> TaskSteps] /\ scanStopRequested' \in BOOLEAN
        BY <2>1 DEF AskToConnect, CanConnect
      <3> QED
        BY <2>1, <3>1 DEF AskToConnect
    <2>2. CASE Connect(d) BY <2>2, DeadlineTypes DEF Connect
    <2>3. CASE HostConnects(d) BY <2>3, DeadlineTypes DEF HostConnects
    <2>4. CASE HostConnected(d) BY <2>4, DeadlineTypes DEF HostConnected
    <2>5. CASE ConnectEnds(d)
      <3>1. /\ scanAt' \in ScanDeadline
            /\ task' \in [Devices -> TaskSteps]
        BY <2>5, DeadlineTypes DEF ConnectEnds
      <3>2. needsRescan' \in [Devices -> BOOLEAN]
        BY <2>5, Zenon DEF ConnectEnds
      <3> QED
        BY <2>5, <3>1, <3>2 DEF ConnectEnds
    <2>6. CASE LinkDown(d) BY <2>6, DeadlineTypes DEF LinkDown
    <2> QED
      BY <1>2, <2>1, <2>2, <2>3, <2>4, <2>5, <2>6 DEF TaskStep
  <1>3. ASSUME NEW d \in Devices, OnResult(d) PROVE TypeOK'
    BY <1>3, DeadlineTypes DEF OnResult
  <1>4. ASSUME ScanTimesOut PROVE TypeOK'
    BY <1>4, DeadlineTypes DEF ScanTimesOut
  <1>5. ASSUME OnScanEnd PROVE TypeOK'
    BY <1>5, DeadlineTypes DEF OnScanEnd
  <1>6. ASSUME UserStep PROVE TypeOK'
    <2>1. CASE StartScanUnknown BY <2>1, DeadlineTypes DEF StartScanUnknown
    <2>2. CASE PutScanSettings BY <2>2, DeadlineTypes DEF PutScanSettings
    <2>3. ASSUME NEW d \in Devices, AddDevice(d) PROVE TypeOK'
      BY <2>3, DeadlineTypes DEF AddDevice
    <2>4. ASSUME NEW d \in Devices, NoteKnownAddress(d) PROVE TypeOK'
      BY <2>4, DeadlineTypes DEF NoteKnownAddress
    <2>5. ASSUME NEW d \in Devices, DelDevice(d) PROVE TypeOK'
      BY <2>5, DeadlineTypes DEF DelDevice
    <2> QED
      BY <1>6, <2>1, <2>2, <2>3, <2>4, <2>5 DEF UserStep
  <1>7. ASSUME Tick PROVE TypeOK'
    BY <1>7, DeadlineTypes DEF Tick
  <1>8. CASE UNCHANGED scanVars
    BY <1>8, DeadlineTypes DEF scanVars
  <1>9. CASE Next
    BY <1>1, <1>2, <1>3, <1>4, <1>5, <1>6, <1>7, <1>9 DEF Next
  <1> QED
    BY <1>8, <1>9

\* Every variable of the scheduler keeps its type, for any devices and any timing,
\* whatever the order of the steps of loop(), the tasks and the stack.
THEOREM ScanTypeCorrect == Spec => []TypeOK
  <1>1. Init => TypeOK /\ AttemptsCounted
    BY InitTyped, InitCounted
  <1>2. TypeOK /\ AttemptsCounted /\ [Next]_scanVars => (TypeOK /\ AttemptsCounted)'
    BY NextTyped, NextCounted
  <1> QED
    BY <1>1, <1>2, PTL DEF Spec

\* Scans are held off by exactly the attempts of connect() that are under way,
\* however many devices there are and however the attempts end.
THEOREM AttemptsAreCounted == Spec => []AttemptsCounted
  <1>1. Init => TypeOK /\ AttemptsCounted
    BY InitTyped, InitCounted
  <1>2. TypeOK /\ AttemptsCounted /\ [Next]_scanVars => (TypeOK /\ AttemptsCounted)'
    BY NextTyped, NextCounted
  <1> QED
    BY <1>1, <1>2, PTL DEF Spec

--------------------------------------------------------------------------------
(* A running scan is visible, and a reason to scan is never forgotten. *)

\* The deadlines the code sets are armed, and stay so until it clears them.
LEMMA ArmedDeadlines ==
  /\ \A x \in {0, Cooldown, RetryTime} : Armed(x)
  /\ \A x \in ScanDeadline : Armed(x) => Armed(Ticked(x))
  BY ScanAssumption DEF ScanDeadline, Armed, Off, Ticked

LEMMA InitOwned == Init => ScanOwned /\ DiscoveryScheduled
  BY ArmedDeadlines DEF Init, ScanOwned, DiscoveryScheduled, NeedsDiscovery

LEMMA NextOwned ==
  ASSUME ScanOwned, ~ScannerReconfigured, [Next]_scanVars
  PROVE  ScanOwned'
  <1> USE DEF ScanOwned, hostVars, connectVars, loopVars
  <1>1. CASE UNCHANGED <<scanner, hostScan, loopAt>>
    BY <1>1
  <1>2. CASE LoopStep
    <2>1. CASE LoopReadsStop BY <2>1 DEF LoopReadsStop
    <2>2. CASE LoopTakesFlags BY <2>2 DEF LoopTakesFlags
    <2>3. CASE LoopStops BY <2>3 DEF LoopStops
    <2>4. CASE LoopSettles BY <2>4 DEF LoopSettles
    <2>5. CASE LoopUpdates BY <2>5 DEF LoopUpdates
    <2>6. CASE LoopClears BY <2>6 DEF LoopClears
    <2>7. CASE LoopDecides BY <2>7 DEF LoopDecides, IsScanning
    <2>8. CASE LoopStarts BY <2>8 DEF LoopStarts
    <2>9. CASE LoopScans BY <2>9 DEF LoopScans
    <2> QED
      BY <1>2, <2>1, <2>2, <2>3, <2>4, <2>5, <2>6, <2>7, <2>8, <2>9 DEF LoopStep
  <1>3. CASE ScanTimesOut
    BY <1>3 DEF ScanTimesOut
  <1>4. ASSUME NEW d \in Devices, TaskStep(d) \/ OnResult(d)
        PROVE  UNCHANGED <<scanner, hostScan, loopAt>>
    BY <1>4 DEF TaskStep, AskToConnect, Connect, HostConnects, HostConnected,
                ConnectEnds, LinkDown, OnResult
  <1>5. ASSUME OnScanEnd \/ UserStep \/ Tick
        PROVE  UNCHANGED <<scanner, hostScan, loopAt>>
    BY <1>5 DEF OnScanEnd, Tick, UserStep, StartScanUnknown, PutScanSettings,
                AddDevice, NoteKnownAddress, DelDevice
  <1>6. CASE UNCHANGED scanVars
    BY <1>1, <1>6 DEF scanVars
  <1> QED
    BY <1>1, <1>2, <1>3, <1>4, <1>5, <1>6 DEF Next

\* As long as nobody changes the settings of the scanner, a task is never told that
\* it may connect while the stack scans: not while the scan is being started, not
\* while it is being stopped, not when it ended by itself.
THEOREM ConnectIsBlockedByScan ==
  ASSUME ~ScannerReconfigured
  PROVE  Spec => []ConnectBlockedByScan
  <1>1. Init => ScanOwned
    BY InitOwned
  <1>2. ScanOwned /\ [Next]_scanVars => ScanOwned'
    BY NextOwned
  <1>3. ScanOwned => ConnectBlockedByScan
    BY DEF ScanOwned, ConnectBlockedByScan, CanConnect
  <1> QED
    BY <1>1, <1>2, <1>3, PTL DEF Spec

LEMMA NextScheduled ==
  ASSUME TypeOK, ScanOwned, DiscoveryScheduled, ~ScannerReconfigured, [Next]_scanVars
  PROVE  DiscoveryScheduled'
  <1> USE DEF DiscoveryScheduled, NeedsDiscovery, unknownVars, deviceVars, connectVars,
              loopVars
  <1>1. CASE UNCHANGED scanVars
    BY <1>1 DEF scanVars
  <1>2. ASSUME LoopStep PROVE DiscoveryScheduled'
    <2>1. CASE LoopReadsStop BY <2>1 DEF LoopReadsStop
    <2>2. CASE LoopTakesFlags BY <2>2 DEF LoopTakesFlags
    <2>3. CASE LoopStops BY <2>3, ArmedDeadlines DEF LoopStops
    <2>4. CASE LoopSettles BY <2>4, ArmedDeadlines DEF LoopSettles
    <2>5. CASE LoopUpdates BY <2>5, ArmedDeadlines DEF LoopUpdates
    <2>6. CASE LoopClears BY <2>6 DEF LoopClears
    <2>7. CASE LoopDecides
      <3>1. connectingCount > 0 \/ connectingCount <= 0
        BY DEF TypeOK
      <3> QED
        BY <2>7, <3>1, ArmedDeadlines DEF LoopDecides, ScanLater, IsScanning
    <2>8. CASE LoopStarts BY <2>8 DEF LoopStarts
    <2>9. CASE LoopScans BY <2>9, ArmedDeadlines DEF LoopScans, ScanLater, ScanOwned
    <2> QED
      BY <1>2, <2>1, <2>2, <2>3, <2>4, <2>5, <2>6, <2>7, <2>8, <2>9 DEF LoopStep
  <1>3. ASSUME NEW d \in Devices, TaskStep(d) PROVE DiscoveryScheduled'
    <2>1. CASE AskToConnect(d) BY <2>1 DEF AskToConnect, TypeOK
    <2>2. CASE Connect(d) BY <2>2 DEF Connect, TypeOK
    <2>3. CASE HostConnects(d) BY <2>3 DEF HostConnects, TypeOK
    <2>4. CASE HostConnected(d) BY <2>4 DEF HostConnected, TypeOK
    <2>5. CASE ConnectEnds(d) BY <2>5, ArmedDeadlines DEF ConnectEnds, TypeOK
    <2>6. CASE LinkDown(d) BY <2>6 DEF LinkDown
    <2> QED
      BY <1>3, <2>1, <2>2, <2>3, <2>4, <2>5, <2>6 DEF TaskStep
  <1>4. ASSUME NEW d \in Devices,
               OnResult(d) \/ AddDevice(d) \/ NoteKnownAddress(d) \/ DelDevice(d)
        PROVE  scanAt' = 0
    BY <1>4 DEF OnResult, AddDevice, NoteKnownAddress, DelDevice
  <1>5. ASSUME StartScanUnknown PROVE scanAt' = 0
    BY <1>5 DEF StartScanUnknown
  <1>6. ASSUME scanAt' = 0 PROVE DiscoveryScheduled'
    BY <1>6, ArmedDeadlines
  <1>7. ASSUME ScanTimesOut \/ OnScanEnd \/ PutScanSettings PROVE DiscoveryScheduled'
    BY <1>7 DEF ScanTimesOut, OnScanEnd, PutScanSettings
  <1>8. ASSUME Tick PROVE DiscoveryScheduled'
    BY <1>8, ArmedDeadlines DEF Tick, TypeOK
  <1>9. CASE Next
    BY <1>2, <1>3, <1>4, <1>5, <1>6, <1>7, <1>8, <1>9 DEF Next, UserStep
  <1> QED
    BY <1>1, <1>9

\* A reason to scan always has loop() about to look at it, a deadline that makes
\* loop() look, or a scan that runs, however the wake-ups of the other tasks fall
\* between the steps of loop().
THEOREM DiscoveryIsScheduled ==
  ASSUME ~ScannerReconfigured
  PROVE  Spec => []DiscoveryScheduled
  <1> DEFINE Inv == TypeOK /\ AttemptsCounted /\ ScanOwned /\ DiscoveryScheduled
  <1>1. Init => Inv
    BY InitTyped, InitCounted, InitOwned
  <1>2. Inv /\ [Next]_scanVars => Inv'
    BY NextTyped, NextCounted, NextOwned, NextScheduled
  <1>3. Inv => DiscoveryScheduled
    OBVIOUS
  <1> QED
    BY <1>1, <1>2, <1>3, PTL DEF Spec
================================================================================

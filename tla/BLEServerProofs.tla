---------------------------- MODULE BLEServerProofs ----------------------------
(***************************************************************************)
(* Proofs about BLEServer, for all values of its constants.                 *)
(*                                                                          *)
(* A start and its note are two steps, and another task may act in between: *)
(* a start that succeeded may be noted when the server has been stopped or  *)
(* has failed to start again.  As long as the last start or stop did not    *)
(* come in between, at most one start has yet to be noted (OneToNote), and  *)
(* what it brought about is still the case (NotedStart).                    *)
(***************************************************************************)
EXTENDS BLEServer, TLAPS

OneToNote ==
  ~startsOverlap => \A t, u \in Tasks : (started[t] # "no" /\ started[u] # "no") => t = u

\* A start that succeeded and has yet to be noted: the server advertises, has until its
\* duration ended, or has until a central connected.
NotedStart ==
  ~startsOverlap =>
    \A t \in Tasks : started[t] = "ok" => (IsAdvertising \/ advertising = "over" \/ centrals > 0)

NoteInv == StrandedOnlyByOverlap /\ OneToNote /\ NotedStart

Inv == TypeOK /\ NoteInv

\* start() keeps the types of what it writes.
LEMMA StartTypes ==
  ASSUME TypeOK, NEW t \in Tasks, NEW duration \in Durations, Start(t, duration)
  PROVE  /\ started' \in [Tasks -> {"no", "ok", "failed"}]
         /\ startedFor' \in [Tasks -> Durations]
         /\ advertising' \in {"off", "on", "timed", "over"}
        /\ startsOverlap' \in BOOLEAN
BY DEF Start, TypeOK, IsAdvertising, Overlaps

\* A tick keeps a deadline in range.
LEMMA TickedInRange ==
  ASSUME NEW max \in Int, NEW d \in Off .. max
  PROVE  Ticked(d) \in Off .. max
BY DEF Ticked, Off

LEMMA InitType ==
  ASSUME Init
  PROVE  TypeOK
<1> USE ServerAssumption
<1>1. wantBleModeSwitchAt \in Deadline(SwitchDelay) /\ retryAt \in Off .. RetryTime
  BY DEF Init, Deadline, Off, After
<1>2. centrals \in 0 .. MaxCentrals
  BY DEF Init
<1>3. advertising \in {"off", "on", "timed", "over"}
  BY DEF Init
<1> QED BY <1>1, <1>2, <1>3 DEF Init, TypeOK

LEMMA NextType ==
  ASSUME TypeOK, [Next]_serverVars
  PROVE  TypeOK'
<1> USE ServerAssumption
<1>1. CASE LoopSwitchesMode
  <2>1. retryAt' \in Off .. RetryTime /\ wantBleModeSwitchAt' \in Deadline(SwitchDelay)
    BY <1>1 DEF LoopSwitchesMode, TypeOK, Off, Deadline, After, Start
  <2>2. /\ started' \in [Tasks -> {"no", "ok", "failed"}]
        /\ startedFor' \in [Tasks -> Durations]
        /\ advertising' \in {"off", "on", "timed", "over"}
        /\ startsOverlap' \in BOOLEAN
    <3>1. CASE UNCHANGED <<advertising, noteVars>>
      BY <3>1 DEF TypeOK, noteVars
    <3>2. CASE Start("loop", 0)
      BY <3>2, StartTypes DEF Tasks
    <3>3. CASE Stop
      BY <3>3 DEF Stop, TypeOK, Overlaps
    <3> QED BY <1>1, <3>1, <3>2, <3>3 DEF LoopSwitchesMode, noteVars
  <2> QED BY <1>1, <2>1, <2>2 DEF LoopSwitchesMode, TypeOK, pauseVars
<1>2. CASE LoopRetries
  <2>1. Start("loop", retryDuration)
    BY <1>2 DEF LoopRetries
  <2>2. retryAt' \in Off .. RetryTime
    BY <1>2 DEF LoopRetries, Off
  <2> QED BY <1>2, <2>1, <2>2, StartTypes DEF LoopRetries, TypeOK, Tasks, modeVars, pauseVars
<1>3. CASE ScanPauses
  BY <1>3 DEF ScanPauses, PauseServer, Stop, Overlaps, TypeOK, Off, modeVars, IsAdvertising
<1>4. CASE ScanResumes
  <2>1. Start("loop", 0)
    BY <1>4 DEF ScanResumes
  <2> QED BY <1>4, <2>1, StartTypes DEF ScanResumes, TypeOK, Tasks, modeVars, retryVars
<1>5. CASE SleepPauses
  BY <1>5 DEF SleepPauses, PauseServer, Stop, Overlaps, TypeOK, Off, modeVars, IsAdvertising
<1>6. CASE SleepResumes
  <2>1. PICK duration \in Durations : Start("loop", duration)
    BY <1>6 DEF SleepResumes
  <2> QED BY <1>6, <2>1, StartTypes DEF SleepResumes, TypeOK, Tasks, modeVars, retryVars
<1>7. ASSUME NEW t \in Tasks, Note(t)
      PROVE  TypeOK'
  BY <1>7 DEF Note, TypeOK, Off, modeVars, retryVars, pauseVars
<1>8. ASSUME NEW t \in Tasks, PutSettings(t)
      PROVE  TypeOK'
  BY <1>8 DEF PutSettings, Overlaps, TypeOK, Off, modeVars, pauseVars
<1>9. ASSUME NEW t \in Tasks, NEW mode \in BleModes, PutBleMode(t, mode)
      PROVE  TypeOK'
  BY <1>9 DEF PutBleMode, TypeOK, Deadline, After, Off, retryVars, pauseVars, noteVars
<1>10. CASE Connect
  BY <1>10 DEF Connect, TypeOK, modeVars, retryVars, pauseVars, noteVars
<1>11. CASE Disconnect
  <2>1. Start("host", 0)
    BY <1>11 DEF Disconnect
  <2>2. centrals' \in 0 .. MaxCentrals
    BY <1>11 DEF Disconnect, TypeOK
  <2> QED BY <1>11, <2>1, <2>2, StartTypes DEF Disconnect, TypeOK, Tasks, modeVars, retryVars, pauseVars
<1>12. CASE AdvertisingEnds
  BY <1>12 DEF AdvertisingEnds, TypeOK, modeVars, retryVars, pauseVars, noteVars
<1>13. CASE PoolChanges
  BY <1>13 DEF PoolChanges, TypeOK, modeVars, retryVars, pauseVars, noteVars
<1>14. CASE Tick
  <2>1. retryAt' \in Off .. RetryTime
    BY <1>14, TickedInRange DEF Tick, TypeOK
  <2>2. wantBleModeSwitchAt' \in Deadline(SwitchDelay)
    BY <1>14, TickedInRange DEF Tick, TypeOK, Deadline, After
  <2> QED BY <1>14, <2>1, <2>2 DEF Tick, TypeOK, pauseVars, noteVars
<1>15. CASE UNCHANGED serverVars
  BY <1>15 DEF serverVars, TypeOK, modeVars, retryVars, pauseVars, noteVars
<1> QED BY <1>1, <1>2, <1>3, <1>4, <1>5, <1>6, <1>7, <1>8, <1>9, <1>10, <1>11, <1>12,
           <1>13, <1>14, <1>15 DEF Next

\* Whatever the tasks do, and however their steps overlap, the variables of the
\* server keep their types: no deadline or number of centrals gets out of range.
THEOREM ServerTypeCorrect == Spec => []TypeOK
<1>1. Init => TypeOK
  BY InitType
<1>2. TypeOK /\ [Next]_serverVars => TypeOK'
  BY NextType
<1> QED BY <1>1, <1>2, PTL DEF Spec

--------------------------------------------------------------------------------

(* A task that starts or stops advertising. *)

\* It leaves a note to be written, and at most its own, unless it overlaps.
LEMMA StartKeeps ==
  ASSUME TypeOK, NEW t \in Tasks, NEW duration \in Durations, Start(t, duration),
         started[t] = "no"
  PROVE  NoteInv'
<1>1. started'[t] # "no"
  BY DEF Start, TypeOK
<1>2. \A u \in Tasks \ {t} : started'[u] = started[u]
  BY DEF Start, TypeOK
<1>3. ~startsOverlap' => \A u \in Tasks \ {t} : started'[u] = "no"
  BY <1>2 DEF Start, Overlaps
<1>4. started'[t] = "ok" => IsAdvertising'
  BY DEF Start, TypeOK, IsAdvertising
<1>5. StrandedOnlyByOverlap'
  BY <1>1 DEF StrandedOnlyByOverlap, Excused
<1>6. OneToNote'
  BY <1>3 DEF OneToNote
<1>7. NotedStart'
  BY <1>3, <1>4 DEF NotedStart
<1> QED BY <1>5, <1>6, <1>7 DEF NoteInv

\* A stop by loop(), which has nothing to note, leaves nothing to note, unless it overlaps.
LEMMA StopKeeps ==
  ASSUME TypeOK, Stop, started["loop"] = "no"
  PROVE  OneToNote' /\ NotedStart'
<1>1. ~startsOverlap' => \A u \in Tasks : started'[u] = "no"
  BY DEF Stop, Overlaps
<1> QED BY <1>1 DEF OneToNote, NotedStart

\* Nothing is started, stopped or noted.
LEMMA NothingToNote ==
  ASSUME OneToNote, NotedStart, UNCHANGED noteVars,
         (IsAdvertising \/ advertising = "over" \/ centrals > 0)
           => (IsAdvertising' \/ advertising' = "over" \/ centrals' > 0)
  PROVE  OneToNote' /\ NotedStart'
BY DEF OneToNote, NotedStart, noteVars

LEMMA InitInv ==
  ASSUME Init
  PROVE  Inv
<1>1. StrandedOnlyByOverlap
  BY DEF Init, StrandedOnlyByOverlap, NotStranded, Excused, IsAdvertising, BleModes
<1>2. OneToNote /\ NotedStart
  BY DEF Init, OneToNote, NotedStart
<1> QED BY <1>1, <1>2, InitType DEF Inv, NoteInv

LEMMA NextInv ==
  ASSUME Inv, [Next]_serverVars
  PROVE  NoteInv'
<1> USE ServerAssumption
<1>0. TypeOK /\ StrandedOnlyByOverlap /\ OneToNote /\ NotedStart
  BY DEF Inv, NoteInv
<1>1. CASE LoopSwitchesMode
  <2>0. started["loop"] = "no"
    BY <1>1 DEF LoopSwitchesMode, LoopFree, Free
  <2>1. CASE Start("loop", 0)
    BY <1>0, <2>0, <2>1, StartKeeps DEF Tasks
  <2>2. CASE IsAdvertising = (bleMode = "ENABLED") /\ UNCHANGED <<retryAt, advertising, noteVars>>
    <3>1. OneToNote' /\ NotedStart'
      BY <1>0, <1>1, <2>2, NothingToNote DEF LoopSwitchesMode, IsAdvertising
    <3>2. StrandedOnlyByOverlap'
      BY <1>0, <1>1, <2>2 DEF LoopSwitchesMode, TypeOK, BleModes, StrandedOnlyByOverlap,
         NotStranded, Excused, IsAdvertising
    <3> QED BY <3>1, <3>2 DEF NoteInv
  <2>3. CASE bleMode = "DISABLED" /\ Stop
    <3>1. StrandedOnlyByOverlap'
      BY <1>1, <2>3 DEF LoopSwitchesMode, StrandedOnlyByOverlap, Excused
    <3> QED BY <1>0, <2>0, <2>3, <3>1, StopKeeps DEF NoteInv
  <2> QED BY <1>1, <2>1, <2>2, <2>3 DEF LoopSwitchesMode
<1>2. CASE LoopRetries
  <2>1. started["loop"] = "no" /\ retryDuration \in Durations
    BY <1>0, <1>2 DEF LoopRetries, LoopFree, Free, TypeOK
  <2> QED BY <1>0, <1>2, <2>1, StartKeeps DEF LoopRetries, Tasks
<1>3. CASE ScanPauses
  <2>1. StrandedOnlyByOverlap'
    BY <1>3 DEF ScanPauses, StrandedOnlyByOverlap, Excused
  <2>2. started["loop"] = "no" /\ Stop
    BY <1>3 DEF ScanPauses, PauseServer, LoopFree, Free
  <2> QED BY <1>0, <2>1, <2>2, StopKeeps DEF NoteInv
<1>4. CASE ScanResumes
  <2>1. started["loop"] = "no"
    BY <1>4 DEF ScanResumes, LoopFree, Free
  <2> QED BY <1>0, <1>4, <2>1, StartKeeps DEF ScanResumes, Tasks
<1>5. CASE SleepPauses
  <2>1. StrandedOnlyByOverlap'
    BY <1>5 DEF SleepPauses, StrandedOnlyByOverlap, Excused
  <2>2. started["loop"] = "no" /\ Stop
    BY <1>5 DEF SleepPauses, PauseServer, LoopFree, Free
  <2> QED BY <1>0, <2>1, <2>2, StopKeeps DEF NoteInv
<1>6. CASE SleepResumes
  <2>1. started["loop"] = "no"
    BY <1>6 DEF SleepResumes, Free
  <2> QED BY <1>0, <1>6, <2>1, StartKeeps DEF SleepResumes, Tasks
<1>7. ASSUME NEW t \in Tasks, Note(t)
      PROVE  NoteInv'
  <2>1. started[t] \in {"ok", "failed"} /\ started'[t] = "no"
    BY <1>0, <1>7 DEF Note, TypeOK
  <2>2. \A u \in Tasks \ {t} : started'[u] = started[u]
    BY <1>0, <1>7 DEF Note, TypeOK
  <2>3. UNCHANGED <<startsOverlap, advertising, centrals>>
    BY <1>7 DEF Note
  <2>4. OneToNote' /\ NotedStart'
    BY <1>0, <2>1, <2>2, <2>3 DEF OneToNote, NotedStart, IsAdvertising
  <2>5. CASE started[t] = "ok"
    BY <1>0, <1>7, <2>3, <2>4, <2>5
    DEF Note, NoteInv, NotedStart, StrandedOnlyByOverlap, NotStranded, Excused, IsAdvertising, TypeOK
  <2>6. CASE started[t] = "failed"
    <3>1. Armed(retryAt)'
      BY <1>7, <2>6 DEF Note, Armed, Off
    <3> QED BY <2>4, <3>1 DEF NoteInv, StrandedOnlyByOverlap, NotStranded
  <2> QED BY <2>1, <2>5, <2>6
<1>8. ASSUME NEW t \in Tasks, PutSettings(t)
      PROVE  NoteInv'
  <2>1. started'[t] # "no"
    BY <1>0, <1>8 DEF PutSettings, TypeOK
  <2>2. \A u \in Tasks \ {t} : started'[u] = started[u]
    BY <1>0, <1>8 DEF PutSettings, TypeOK
  <2>3. ~startsOverlap' => \A u \in Tasks \ {t} : started'[u] = "no"
    BY <1>8, <2>2 DEF PutSettings, Overlaps
  <2>4. started'[t] = "ok" => IsAdvertising'
    BY <1>0, <1>8 DEF PutSettings, TypeOK, IsAdvertising
  <2>5. StrandedOnlyByOverlap'
    BY <2>1 DEF StrandedOnlyByOverlap, Excused
  <2>6. OneToNote'
    BY <2>3 DEF OneToNote
  <2>7. NotedStart'
    BY <2>3, <2>4 DEF NotedStart
  <2> QED BY <2>5, <2>6, <2>7 DEF NoteInv
<1>9. ASSUME NEW t \in Tasks, NEW mode \in BleModes, PutBleMode(t, mode)
      PROVE  NoteInv'
  <2>1. Armed(wantBleModeSwitchAt)'
    BY <1>9 DEF PutBleMode, Armed, After, Off
  <2>2. OneToNote' /\ NotedStart'
    BY <1>0, <1>9, NothingToNote DEF PutBleMode, IsAdvertising
  <2> QED BY <2>1, <2>2 DEF NoteInv, StrandedOnlyByOverlap, Excused
<1>10. CASE Connect
  <2>1. centrals' > 0
    BY <1>0, <1>10 DEF Connect, TypeOK
  <2>2. OneToNote' /\ NotedStart'
    BY <1>0, <1>10, <2>1, NothingToNote DEF Connect
  <2> QED BY <2>1, <2>2 DEF NoteInv, StrandedOnlyByOverlap, Excused
<1>11. CASE Disconnect
  <2>1. started["host"] = "no"
    BY <1>11 DEF Disconnect, Free
  <2> QED BY <1>0, <1>11, <2>1, StartKeeps DEF Disconnect, Tasks
<1>12. CASE AdvertisingEnds
  <2>1. advertising' = "over"
    BY <1>12 DEF AdvertisingEnds
  <2>2. OneToNote' /\ NotedStart'
    BY <1>0, <1>12, <2>1, NothingToNote DEF AdvertisingEnds
  <2> QED BY <2>1, <2>2 DEF NoteInv, StrandedOnlyByOverlap, NotStranded
<1>13. CASE PoolChanges
  <2>1. OneToNote' /\ NotedStart'
    BY <1>0, <1>13, NothingToNote DEF PoolChanges, IsAdvertising
  <2> QED BY <1>0, <1>13, <2>1 DEF PoolChanges, NoteInv, StrandedOnlyByOverlap, NotStranded,
          Excused, IsAdvertising, modeVars, retryVars, pauseVars, noteVars
<1>14. CASE Tick
  <2>1. Armed(retryAt) => Armed(retryAt)'
    BY <1>0, <1>14 DEF Tick, TypeOK, Ticked, Armed, Off
  <2>2. Armed(wantBleModeSwitchAt) => Armed(wantBleModeSwitchAt)'
    BY <1>0, <1>14 DEF Tick, TypeOK, Ticked, Armed, Off, Deadline, After
  <2>3. OneToNote' /\ NotedStart'
    BY <1>0, <1>14, NothingToNote DEF Tick, IsAdvertising
  <2> QED BY <1>0, <1>14, <2>1, <2>2, <2>3 DEF Tick, NoteInv, StrandedOnlyByOverlap, NotStranded,
          Excused, IsAdvertising, pauseVars, noteVars
<1>15. CASE UNCHANGED serverVars
  BY <1>0, <1>15 DEF serverVars, NoteInv, StrandedOnlyByOverlap, NotStranded, Excused, OneToNote,
     NotedStart, IsAdvertising, modeVars, retryVars, pauseVars, noteVars
<1> QED BY <1>1, <1>2, <1>3, <1>4, <1>5, <1>6, <1>7, <1>8, <1>9, <1>10, <1>11, <1>12,
           <1>13, <1>14, <1>15 DEF Next

\* An enabled server that nothing holds back is never left silent without a retry,
\* however the tasks interleave, unless the last start or stop came between another
\* task's start and its note: for any number of centrals and any delays.
THEOREM ServerIsStrandedOnlyByOverlap == Spec => []StrandedOnlyByOverlap
<1>1. Init => Inv
  BY InitInv
<1>2. Inv /\ [Next]_serverVars => Inv'
  BY NextType, NextInv DEF Inv
<1>3. Inv => StrandedOnlyByOverlap
  BY DEF Inv, NoteInv
<1> QED BY <1>1, <1>2, <1>3, PTL DEF Spec
================================================================================

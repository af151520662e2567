------------------------------- MODULE LogBuffer -------------------------------
(***************************************************************************)
(* The ring buffer of iotsaLogger.cpp.  Any task that logs writes to it, a   *)
(* byte at a time and without a lock, and a request reads it.  Its memory    *)
(* is never cleared: it starts with what it holds, which may be a log of     *)
(* before a restart.  A step is a statement of write().                      *)
(***************************************************************************)
EXTENDS Integers, SequencesExt

CONSTANTS
  LoggerTasks,       \* the tasks that log
  LoggedBytes,
  BufferSize         \* IOTSA_LOGGER_BUFFER_SIZE

VARIABLES
  magic,             \* whether the buffer is marked as one
  inp, outp, buffer,
  writing,           \* task -> the statement it is at
  writtenByte,       \* task -> the byte it writes
  logged,            \* history: the last bytes stored, BufferSize - 1 at most
  overlapped         \* history: whether two tasks were in write() at once

logVars == <<magic, inp, outp, buffer, writing, writtenByte, logged, overlapped>>

ASSUME LogAssumption == BufferSize \in Nat \ {0, 1}

Statements == {"none", "checks", "stores", "wraps", "drops"}

InBuffer(i) == i < BufferSize

--------------------------------------------------------------------------------
(* write() *)

LogBegins(t, byte) ==
  /\ writing[t] = "none"
  /\ writing' = [writing EXCEPT ![t] = "checks"]
  /\ writtenByte' = [writtenByte EXCEPT ![t] = byte]
  /\ overlapped' = (overlapped \/ \E u \in LoggerTasks : writing[u] # "none")
  /\ UNCHANGED <<magic, inp, outp, buffer, logged>>

\* A buffer that seems invalid starts again.
LogChecks(t) ==
  /\ writing[t] = "checks"
  /\ IF magic /\ InBuffer(inp) /\ InBuffer(outp)
     THEN UNCHANGED <<magic, inp, outp>>
     ELSE magic' = TRUE /\ inp' = 0 /\ outp' = 0
  /\ writing' = [writing EXCEPT ![t] = "stores"]
  /\ UNCHANGED <<buffer, writtenByte, logged, overlapped>>

\* A byte past the end lands in memory that is not the buffer.
LogStores(t) ==
  /\ writing[t] = "stores"
  /\ buffer' = IF InBuffer(inp) THEN [buffer EXCEPT ![inp] = writtenByte[t]] ELSE buffer
  /\ inp' = inp + 1
  /\ logged' = LET all == Append(logged, writtenByte[t])
               IN IF Len(all) < BufferSize THEN all ELSE Tail(all)
  /\ writing' = [writing EXCEPT ![t] = "wraps"]
  /\ UNCHANGED <<magic, outp, writtenByte, overlapped>>

LogWraps(t) ==
  /\ writing[t] = "wraps"
  /\ inp' = IF InBuffer(inp) THEN inp ELSE 0
  /\ writing' = [writing EXCEPT ![t] = "drops"]
  /\ UNCHANGED <<magic, outp, buffer, writtenByte, logged, overlapped>>

\* Variant: the oldest byte is dropped when it was overwritten already.
DropsOldestLate(t) == outp + 1 = inp

\* A full buffer drops its oldest byte.
DropsOldest(t) == inp = outp

LogDrops(t) ==
  LET next == IF DropsOldest(t) THEN outp + 1 ELSE outp
  IN /\ writing[t] = "drops"
     /\ outp' = IF InBuffer(next) THEN next ELSE 0
     /\ writing' = [writing EXCEPT ![t] = "none"]
     /\ UNCHANGED <<magic, inp, buffer, writtenByte, logged, overlapped>>

LogInit ==
  /\ magic \in BOOLEAN /\ inp \in 0 .. BufferSize /\ outp \in 0 .. BufferSize
  /\ buffer \in [0 .. BufferSize - 1 -> LoggedBytes]
  /\ writing = [t \in LoggerTasks |-> "none"]
  /\ writtenByte \in [LoggerTasks -> {CHOOSE b \in LoggedBytes : TRUE}]
  /\ logged = <<>> /\ overlapped = FALSE

LogNext ==
  \E t \in LoggerTasks :
    \/ \E byte \in LoggedBytes : LogBegins(t, byte)
    \/ LogChecks(t) \/ LogStores(t) \/ LogWraps(t) \/ LogDrops(t)

LogSpec == LogInit /\ [][LogNext]_logVars

--------------------------------------------------------------------------------

\* handler(): the bytes from outp up to inp, in one piece or in two.
ShownLog ==
  LET piece(first, last) == [i \in 1 .. last - first |-> buffer[first + i - 1]]
  IN IF outp <= inp THEN piece(outp, inp)
     ELSE piece(outp, BufferSize) \o piece(0, inp)

\* As long as no two tasks wrote at once, a request that comes between two bytes gets
\* the last bytes that were logged, in order and at least as many as all the buffer but
\* one place can hold, whatever the memory held when the device started: no byte that
\* the index of the reader or a left over log puts out of place.
LogIsLastBytes ==
  (logged # <<>> /\ ~overlapped /\ \A t \in LoggerTasks : writing[t] = "none") =>
    IsSuffix(logged, ShownLog)
================================================================================

----------------------------- MODULE ModulesProofs -----------------------------
(***************************************************************************)
(* Proofs about the modules whose components do not act on each other: the  *)
(* command line tool, over-the-air updates, the log, the list of users, the *)
(* settings of four modules and the inputs, for all values of the           *)
(* constants, the settings for values of one line; and about MCModules,     *)
(* which puts them in one specification.  For each there is an inductive     *)
(* invariant (IInv), one lemma that every step keeps it, and the properties *)
(* that follow.                                                             *)
(***************************************************************************)
EXTENDS MCModules, BLEServerProofs, HpsProofs, BLEConnectionProofs, FiniteSetTheorems,
        SequenceTheorems, WellFoundedInduction, TLAPS

--------------------------------------------------------------------------------
(* Sets of natural numbers, and sequences. *)

LEMMA MinExists ==
  ASSUME NEW S \in SUBSET Nat, S # {}
  PROVE  \E x \in S : \A y \in S : x <= y
<1>1. IsWellFoundedOn(OpToRel(<, Nat), Nat)
  BY NatLessThanWellFounded
<1>2. PICK x \in S : \A y \in S : ~ (<<y, x>> \in OpToRel(<, Nat))
  BY <1>1, WFMin
<1>3. OpToRel(<, Nat) = {ss \in Nat \X Nat : ss[1] < ss[2]}
  BY DEF OpToRel
<1>4. ASSUME NEW y \in S PROVE x <= y
  <2>1. ~ (<<y, x>> \in {ss \in Nat \X Nat : ss[1] < ss[2]})
    BY <1>2, <1>3
  <2>2. ~ (y < x)
    BY <2>1
  <2> QED
    BY <2>2
<1> QED
  BY <1>4

LEMMA MinOfNaturals ==
  ASSUME NEW S \in SUBSET Nat, S # {}
  PROVE  Min(S) \in S /\ \A y \in S : Min(S) <= y
  BY MinExists DEF Min

LEMMA MaxOfBounded ==
  ASSUME NEW n \in Nat, NEW S \in SUBSET (0 .. n), S # {}
  PROVE  Max(S) \in S /\ \A y \in S : Max(S) >= y
<1> DEFINE T == {n - x : x \in S}
<1>1. T \in SUBSET Nat
  OBVIOUS
<1>2. PICK z \in S : TRUE
  OBVIOUS
<1>3. n - z \in T
  OBVIOUS
<1>4. PICK m \in T : \A y \in T : m <= y
  BY <1>1, <1>3, MinExists
<1>5. PICK x \in S : m = n - x
  BY <1>4
<1>6. \A y \in S : x >= y
  BY <1>4, <1>5
<1> QED
  BY <1>5, <1>6 DEF Max

LEMMA FunctionIsSequence ==
  ASSUME NEW S, NEW n \in Nat, NEW f \in [1 .. n -> S]
  PROVE  f \in Seq(S) /\ Len(f) = n
<1>1. f \in Seq(S)
  BY SeqDef
<1>2. 1 .. n = 1 .. Len(f) /\ Len(f) \in Nat
  BY <1>1, LenProperties
<1> QED
  BY <1>1, <1>2

--------------------------------------------------------------------------------
(* ModeTool *)

ToolTypeOK ==
  /\ device \in DeviceState /\ status \in DeviceState
  /\ didLoad \in BOOLEAN /\ waits \in BOOLEAN /\ missed \in BOOLEAN
  /\ gotoAt \in {"none", "puts", "waits", "compares"}
  /\ wanted \in DeviceModes
  /\ retriesLeft \in 0 .. MaxRetries

\* While the tool waits, either a request was missed or the device has the mode or the
\* request for it; what the loop compares is one such moment.
ToolIInv ==
  /\ ToolTypeOK
  /\ gotoAt # "none" => answered = "none"
  /\ (gotoAt \in {"waits", "compares"} /\ ~missed) => ~Missed(device)
  /\ gotoAt = "compares" => /\ didLoad /\ status.currentMode # wanted
                            /\ ~missed => ~Missed(status)
  /\ GivesUpOnLostRequest

LEMMA ToolInitIInv == ToolInit => ToolIInv
<1> SUFFICES ASSUME ToolInit PROVE ToolIInv
  OBVIOUS
<1>1. ToolTypeOK
  <2>1. device \in DeviceState /\ status \in DeviceState
    BY DEF ToolInit
  <2>2. didLoad \in BOOLEAN /\ waits \in BOOLEAN /\ missed \in BOOLEAN
    BY DEF ToolInit
  <2>3. gotoAt \in {"none", "puts", "waits", "compares"} /\ wanted \in DeviceModes
    BY ToolAssumption DEF ToolInit
  <2>4. retriesLeft \in 0 .. MaxRetries
    BY ToolAssumption DEF ToolInit
  <2> QED
    BY <2>1, <2>2, <2>3, <2>4 DEF ToolTypeOK
<1> QED
  BY <1>1 DEF ToolInit, ToolIInv, GivesUpOnLostRequest

LEMMA DeviceGoesPreserves ==
  ASSUME ToolIInv, NEW d \in DeviceState, DeviceGoes(d)
  PROVE  ToolIInv'
  BY DEF DeviceGoes, ToolIInv, ToolTypeOK, Missed, argVars, GivesUpOnLostRequest

LEMMA ToolNextPreserves == ToolIInv /\ [ToolNext]_toolVars => ToolIInv'
<1> SUFFICES ASSUME ToolIInv, [ToolNext]_toolVars PROVE ToolIInv'
  OBVIOUS
<1> USE ToolAssumption DEF ToolIInv, ToolTypeOK, GivesUpOnLostRequest, Missed
<1>1. CASE ReadsConfig
  BY <1>1 DEF ReadsConfig, Load, Loaded, argVars
<1>2. ASSUME NEW mode \in DeviceModes, NEW wait \in BOOLEAN, Asks(mode, wait)
      PROVE  ToolIInv'
  <2>1. gotoAt' \in {"none", "puts"} /\ answered' \in {"already", "none"}
        /\ (gotoAt' # "none" => answered' = "none")
    BY <1>2 DEF Asks
  <2>2. ToolTypeOK'
    <3>1. device' \in DeviceState /\ status' \in DeviceState
      BY <1>2 DEF Asks, Load, Loaded
    <3>2. didLoad' \in BOOLEAN /\ waits' \in BOOLEAN /\ missed' \in BOOLEAN
          /\ wanted' \in DeviceModes
      BY <1>2 DEF Asks, Load
    <3>3. retriesLeft' \in 0 .. MaxRetries
      BY <1>2 DEF Asks
    <3> QED
      BY <2>1, <3>1, <3>2, <3>3
  <2> QED
    BY <2>1, <2>2
<1>3. CASE Puts
  BY <1>3 DEF Puts, Flush, Answer, argVars, DeviceState
<1>4. CASE PutUnanswered
  <2>1. device' \in DeviceState /\ UNCHANGED <<status, wanted, waits, missed>>
        /\ didLoad' = FALSE
    BY <1>4 DEF PutUnanswered, Flush, Answer, argVars, DeviceState
  <2>2. CASE /\ retriesLeft > 0 /\ retriesLeft' = retriesLeft - 1
             /\ UNCHANGED <<gotoAt, argVars, answered>>
    <3>1. retriesLeft' \in 0 .. MaxRetries
      BY <2>2
    <3>2. gotoAt' = "puts" /\ answered' = answered
      BY <1>4, <2>2 DEF PutUnanswered
    <3> QED
      BY <1>4, <2>1, <3>1, <3>2 DEF PutUnanswered
  <2>3. CASE Answer("raised")
    BY <2>1, <2>3 DEF Answer, argVars
  <2> QED
    BY <1>4, <2>2, <2>3 DEF PutUnanswered
<1>5. CASE PollsMode
  BY <1>5 DEF PollsMode, Answer, argVars
<1>6. CASE PollsRequest
  BY <1>6 DEF PollsRequest, Load, Loaded, Answer, argVars
<1>7. CASE PollRaises
  BY <1>7 DEF PollRaises, Flush, Answer, argVars
<1>8. CASE DeviceEnters \/ DeviceModeEnds \/ DeviceRequestEnds \/ OtherClientAsks
  <2>1. PICK d \in DeviceState : DeviceGoes(d)
    BY <1>8 DEF DeviceEnters, DeviceModeEnds, DeviceRequestEnds, OtherClientAsks, DeviceState
  <2> QED
    BY <2>1, DeviceGoesPreserves
<1>9. CASE UNCHANGED toolVars
  BY <1>9 DEF toolVars, argVars
<1> QED
  BY <1>1, <1>2, <1>3, <1>4, <1>5, <1>6, <1>7, <1>8, <1>9 DEF ToolNext

\* The invariant of gotoMode(), for any modes, number of retries and device.
THEOREM ToolInvariant == ToolSpec => []ToolIInv
  BY ToolInitIInv, ToolNextPreserves, PTL DEF ToolSpec

\* gotoMode() of api.py gives up on a request only when there was a moment at which the device
\* had neither the mode nor a request for it, for any set of modes and number of retries,
\* whoever else asks the device for a mode, and whenever modes and requests end.
THEOREM ToolGivesUpOnLostRequest == ToolSpec => []GivesUpOnLostRequest
  BY ToolInvariant, PTL DEF ToolIInv

--------------------------------------------------------------------------------
(* OtaSlots *)

\* The entry of otadata that names a slot.
SetEntry(slot) == [ota_seq |-> slot + 1, crc_ok |-> TRUE, ota_state |-> "valid"]

OtaTypeOK ==
  /\ otadata \in [1 .. 2 -> [ota_seq : Nat, crc_ok : BOOLEAN,
                             ota_state : {"valid", "undefined", "aborted"}]]
  /\ settingSlot \in OtaSlot \cup {NoSlot}
  /\ chosenSlot \in OtaSlot \cup {NoSlot}

\* Setting a slot erases both entries first; while the slot is the one that was set latest,
\* the first entry names it and the second is erased.
OtaIInv ==
  /\ OtaTypeOK
  /\ settingSlot # NoSlot => chosenSlot = NoSlot /\ otadata = [i \in 1 .. 2 |-> Erased]
  /\ chosenSlot # NoSlot => otadata[1] = SetEntry(chosenSlot) /\ otadata[2] = Erased

LEMMA MaxOfOne == ASSUME NEW n \in Int PROVE Max({n}) = n
  BY DEF Max

LEMMA OtaInitIInv == OtaInit => OtaIInv
  BY OtaAssumption DEF OtaInit, OtaIInv, OtaTypeOK, Erased, NoSlot

LEMMA HighestSeqIsNat ==
  ASSUME OtaTypeOK
  PROVE  Max(BootableSeqs \cup {0}) \in Nat
<1> DEFINE bound == otadata[1].ota_seq + otadata[2].ota_seq
           seqs == BootableSeqs \cup {0}
<1>1. bound \in Nat /\ seqs \in SUBSET (0 .. bound) /\ seqs # {}
  BY DEF BootableSeqs, OtaTypeOK
<1> HIDE DEF bound, seqs
<1>2. Max(seqs) \in seqs
  BY <1>1, MaxOfBounded, Zenon
<1>3. 0 .. bound \subseteq Nat
  BY <1>1
<1>4. Max(seqs) \in Nat
  BY <1>1, <1>2, <1>3, Zenon
<1> QED
  BY <1>4 DEF seqs

LEMMA OtaNextPreserves == OtaIInv /\ [OtaNext]_otaVars => OtaIInv'
<1> SUFFICES ASSUME OtaIInv, [OtaNext]_otaVars PROVE OtaIInv'
  OBVIOUS
<1> USE OtaAssumption DEF OtaIInv, OtaTypeOK
<1>1. ASSUME NEW slot \in OtaSlot, SetOtaSlotErases(slot) PROVE OtaIInv'
  BY <1>1 DEF SetOtaSlotErases, Erased
<1>2. ASSUME NEW slot \in OtaSlot, UpdateInstalls(slot) PROVE OtaIInv'
  <2>1. PICK i \in 1 .. 2, n \in Nat, ok \in BOOLEAN :
          otadata' = [otadata EXCEPT ![i] = [ota_seq |-> n, crc_ok |-> ok,
                                             ota_state |-> "undefined"]]
    <3> DEFINE current == Max(BootableSeqs \cup {0})
    <3>1. current \in Nat
      BY HighestSeqIsNat
    <3>2. current + 1 .. MaxOtaSeq \subseteq Nat
      BY <3>1
    <3> HIDE DEF current
    <3>3. \E i \in 1 .. 2, n \in current + 1 .. MaxOtaSeq, ok \in BOOLEAN :
            otadata' = [otadata EXCEPT ![i] = [ota_seq |-> n, crc_ok |-> ok,
                                               ota_state |-> "undefined"]]
      BY <1>2 DEF UpdateInstalls, current
    <3> QED
      BY <3>2, <3>3
  <2>2. settingSlot' = NoSlot /\ chosenSlot' = NoSlot
    BY <1>2 DEF UpdateInstalls
  <2> QED
    BY <2>1, <2>2
<1>3. CASE SetOtaSlotWrites
  BY <1>3 DEF SetOtaSlotWrites, SetEntry, OtaSlot, NoSlot, Erased
<1>4. CASE ClearOtadata
  BY <1>4 DEF ClearOtadata, Erased
<1>5. CASE SerialLost
  BY <1>5 DEF SerialLost
<1>6. CASE BootAborts
  BY <1>6 DEF BootAborts, Bootable, Valid, SetEntry, Erased
<1>7. CASE UNCHANGED otaVars
  BY <1>7 DEF otaVars
<1> QED
  BY <1>1, <1>2, <1>3, <1>4, <1>5, <1>6, <1>7 DEF OtaNext

LEMMA OtaIInvBoots == OtaIInv => SetSlotBoots
<1> SUFFICES ASSUME OtaIInv PROVE SetSlotBoots
  OBVIOUS
<1>1. chosenSlot # NoSlot => BootedSlot = chosenSlot
  <2> SUFFICES ASSUME chosenSlot # NoSlot PROVE BootedSlot = chosenSlot
    OBVIOUS
  <2>1. Bootable(otadata[1]) /\ ~Bootable(otadata[2]) /\ otadata[1].ota_seq = chosenSlot + 1
    BY DEF OtaIInv, SetEntry, Bootable, Valid, Erased
  <2>2. BootableSeqs = {chosenSlot + 1}
    BY <2>1 DEF BootableSeqs
  <2>3. chosenSlot \in 0 .. NumOtaSlots - 1 /\ NumOtaSlots \in Nat \ {0}
    BY OtaAssumption DEF OtaIInv, OtaTypeOK, OtaSlot
  <2>4. BootedSlot = (chosenSlot + 1 - 1) % NumOtaSlots
    BY <2>2, <2>3, MaxOfOne DEF BootedSlot, SlotOfSeq
  <2> QED
    BY <2>3, <2>4
<1>2. ASSUME \A i \in 1 .. 2 : otadata[i].ota_state # "aborted"
      PROVE  GetActiveOtaSlot = BootedSlot
  <2>1. {j \in 1 .. 2 : Valid(otadata[j])} = {j \in 1 .. 2 : Bootable(otadata[j])}
    BY <1>2 DEF Bootable
  <2> QED
    BY <2>1 DEF GetActiveOtaSlot, BootedSlot, BootableSeqs
<1> QED
  BY <1>1, <1>2 DEF SetSlotBoots

\* A slot that was set is the one that boots, and the slot that is told is the one that
\* boots unless the boot loader gave it up, for any number of slots, with or without a
\* factory firmware, and wherever updates and the setting of a slot were cut short.
THEOREM OtaSetSlotBoots == OtaSpec => []SetSlotBoots
<1>1. OtaSpec => []OtaIInv
  BY OtaInitIInv, OtaNextPreserves, PTL DEF OtaSpec
<1> QED
  BY <1>1, OtaIInvBoots, PTL

--------------------------------------------------------------------------------
(* LogBuffer *)

LogTypeOK ==
  /\ magic \in BOOLEAN /\ overlapped \in BOOLEAN
  /\ inp \in Nat /\ outp \in Nat
  /\ buffer \in [0 .. BufferSize - 1 -> LoggedBytes]
  /\ writing \in [LoggerTasks -> Statements]
  /\ writtenByte \in [LoggerTasks -> LoggedBytes]
  /\ logged \in Seq(LoggedBytes) /\ Len(logged) < BufferSize

\* Where the k-th byte before inp is, and how many there are up to outp: as a request sees
\* it, and while a byte has been stored and the oldest has not been dropped.
Place(k) == IF k <= inp THEN inp - k ELSE inp - k + BufferSize
InUse == IF outp <= inp THEN inp - outp ELSE inp - outp + BufferSize
InUseWithNew == IF outp < inp THEN inp - outp ELSE inp - outp + BufferSize

Kept == \A k \in 1 .. Len(logged) : logged[Len(logged) + 1 - k] = buffer[Place(k)]

Settled ==
  magic /\ inp < BufferSize /\ outp < BufferSize /\ Len(logged) <= InUse /\ Kept

Stored == outp < BufferSize /\ Len(logged) <= InUseWithNew /\ Kept /\ magic

Alone(t) == \A u \in LoggerTasks : u # t => writing[u] = "none"

\* What the buffer holds, at the statement of the only task that writes.
Holds(statement) ==
  CASE statement \in {"none", "checks"} -> logged # <<>> => Settled
    [] statement = "stores" -> Settled
    [] statement = "wraps" -> Stored /\ inp \in 1 .. BufferSize
    [] statement = "drops" -> Stored /\ inp < BufferSize

\* As long as no two tasks have written at a time, one task at most writes.
LogIInv ==
  /\ LogTypeOK
  /\ ~overlapped => \/ \E t \in LoggerTasks : Alone(t) /\ Holds(writing[t])
                    \/ (\A t \in LoggerTasks : writing[t] = "none") /\ Holds("none")

LEMMA SuffixByPlaces ==
  ASSUME NEW S, NEW s \in Seq(S), NEW t \in Seq(S), Len(s) <= Len(t),
         \A k \in 1 .. Len(s) : s[Len(s) + 1 - k] = t[Len(t) + 1 - k]
  PROVE  IsSuffix(s, t)
<1>1. /\ Len(s) \in Nat /\ Len(t) \in Nat
      /\ \A i \in 1 .. Len(s) : s[i] \in S
      /\ \A i \in 1 .. Len(t) : t[i] \in S
  BY LenProperties
<1>2. Reverse(s) \in [1 .. Len(s) -> S] /\ Reverse(t) \in [1 .. Len(t) -> S]
  BY <1>1 DEF Reverse
<1>3. /\ Reverse(s) \in Seq(S) /\ Len(Reverse(s)) = Len(s)
      /\ Reverse(t) \in Seq(S) /\ Len(Reverse(t)) = Len(t)
  BY <1>1, <1>2, FunctionIsSequence
<1>4. \A k \in 1 .. Len(s) : Reverse(s)[k] = Reverse(t)[k]
  BY <1>1 DEF Reverse
<1>5. /\ SubSeq(Reverse(s), 1, Len(s)) \in Seq(S)
      /\ Len(SubSeq(Reverse(s), 1, Len(s))) = Len(s)
      /\ \A k \in 1 .. Len(s) : SubSeq(Reverse(s), 1, Len(s))[k] = Reverse(s)[k]
  <2>1. \A k \in 1 .. Len(s) : Reverse(s)[k] \in S
    BY <1>2
  <2> QED
    BY <1>1, <2>1, SubSeqProperties
<1>6. /\ SubSeq(Reverse(t), 1, Len(s)) \in Seq(S)
      /\ Len(SubSeq(Reverse(t), 1, Len(s))) = Len(s)
      /\ \A k \in 1 .. Len(s) : SubSeq(Reverse(t), 1, Len(s))[k] = Reverse(t)[k]
  <2>1. \A k \in 1 .. Len(s) : Reverse(t)[k] \in S
    BY <1>1, <1>2
  <2> QED
    BY <1>1, <2>1, SubSeqProperties
<1>7. SubSeq(Reverse(s), 1, Len(s)) = SubSeq(Reverse(t), 1, Len(s))
  BY <1>1, <1>4, <1>5, <1>6, SeqEqual
<1> QED
  BY <1>3, <1>7 DEF IsSuffix, IsPrefix

LEMMA ShownByPlaces ==
  ASSUME LogTypeOK, inp < BufferSize, outp < BufferSize
  PROVE  /\ ShownLog \in Seq(LoggedBytes) /\ Len(ShownLog) = InUse
         /\ \A k \in 1 .. InUse : ShownLog[InUse + 1 - k] = buffer[Place(k)]
<1> DEFINE piece(first, last) == [i \in 1 .. last - first |-> buffer[first + i - 1]]
<1>1. /\ BufferSize \in Nat \ {0, 1} /\ inp \in 0 .. BufferSize - 1 /\ outp \in 0 .. BufferSize - 1
  BY LogAssumption DEF LogTypeOK
<1>2. ASSUME NEW first \in 0 .. BufferSize - 1, NEW last \in first .. BufferSize
      PROVE  piece(first, last) \in Seq(LoggedBytes) /\ Len(piece(first, last)) = last - first
  <2>1. piece(first, last) \in [1 .. last - first -> LoggedBytes]
    BY <1>1 DEF LogTypeOK
  <2>2. last - first \in Nat
    BY <1>1
  <2> QED
    BY <2>1, <2>2, FunctionIsSequence
<1> HIDE DEF piece
<1>3. CASE outp <= inp
  <2>1. ShownLog = piece(outp, inp) /\ InUse = inp - outp
    BY <1>3 DEF ShownLog, InUse, piece
  <2>2. ShownLog \in Seq(LoggedBytes) /\ Len(ShownLog) = InUse
    <3>1. inp \in outp .. BufferSize
      BY <1>1, <1>3
    <3> QED
      BY <1>1, <1>2, <2>1, <3>1
  <2>3. ASSUME NEW k \in 1 .. InUse PROVE ShownLog[InUse + 1 - k] = buffer[Place(k)]
    BY <1>1, <1>3, <2>1 DEF Place, piece
  <2> QED
    BY <2>2, <2>3
<1>4. CASE outp > inp
  <2>1. ShownLog = piece(outp, BufferSize) \o piece(0, inp) /\ InUse = inp - outp + BufferSize
    BY <1>1, <1>4 DEF ShownLog, InUse, piece
  <2>2. /\ piece(outp, BufferSize) \in Seq(LoggedBytes)
        /\ Len(piece(outp, BufferSize)) = BufferSize - outp
        /\ piece(0, inp) \in Seq(LoggedBytes) /\ Len(piece(0, inp)) = inp
    <3>1. outp \in 0 .. BufferSize - 1 /\ BufferSize \in outp .. BufferSize
          /\ 0 \in 0 .. BufferSize - 1 /\ inp \in 0 .. BufferSize
      BY <1>1
    <3>2. inp - 0 = inp
      BY <1>1
    <3> QED
      BY <1>2, <3>1, <3>2
  <2>3. /\ ShownLog \in Seq(LoggedBytes) /\ Len(ShownLog) = InUse
        /\ \A i \in 1 .. InUse :
             ShownLog[i] = IF i <= BufferSize - outp THEN piece(outp, BufferSize)[i]
                           ELSE piece(0, inp)[i - (BufferSize - outp)]
    <3> DEFINE old == piece(outp, BufferSize)
               new == piece(0, inp)
    <3>1. old \in Seq(LoggedBytes) /\ new \in Seq(LoggedBytes) /\ ShownLog = old \o new
          /\ Len(old) = BufferSize - outp /\ Len(new) = inp
      BY <2>1, <2>2
    <3> HIDE DEF old, new
    <3>2. /\ old \o new \in Seq(LoggedBytes) /\ Len(old \o new) = Len(old) + Len(new)
          /\ \A i \in 1 .. Len(old) + Len(new) :
               (old \o new)[i] = IF i <= Len(old) THEN old[i] ELSE new[i - Len(old)]
      BY <3>1, ConcatProperties
    <3>3. InUse = Len(old) + Len(new)
      BY <1>1, <2>1, <3>1
    <3> QED
      BY <3>1, <3>2, <3>3 DEF old, new
  <2>4. ASSUME NEW k \in 1 .. InUse PROVE ShownLog[InUse + 1 - k] = buffer[Place(k)]
    <3>1. InUse + 1 - k \in 1 .. InUse /\ InUse = inp - outp + BufferSize
      BY <1>1, <1>4, <2>1
    <3>2. CASE k <= inp
      <4>1. Place(k) = inp - k /\ inp + 1 - k \in 1 .. inp
        BY <1>1, <3>2 DEF Place
      <4>2. InUse + 1 - k > BufferSize - outp
            /\ InUse + 1 - k - (BufferSize - outp) = inp + 1 - k
        BY <1>1, <1>4, <3>1, <3>2
      <4>3. ShownLog[InUse + 1 - k] = piece(0, inp)[inp + 1 - k]
        BY <1>1, <2>3, <3>1, <4>2
      <4> QED
        BY <1>1, <4>1, <4>3 DEF piece
    <3>3. CASE k > inp
      <4>1. Place(k) = inp - k + BufferSize
        BY <1>1, <3>3 DEF Place
      <4>2. InUse + 1 - k \in 1 .. BufferSize - outp
        BY <1>1, <1>4, <3>1, <3>3
      <4>3. ShownLog[InUse + 1 - k] = piece(outp, BufferSize)[InUse + 1 - k]
        BY <1>1, <2>3, <3>1, <4>2
      <4> QED
        BY <1>1, <3>1, <4>1, <4>2, <4>3 DEF piece
    <3> QED
      BY <1>1, <3>2, <3>3
  <2> QED
    BY <2>3, <2>4
<1> QED
  BY <1>1, <1>3, <1>4

LEMMA SettledShows ==
  ASSUME LogTypeOK, Settled
  PROVE  IsSuffix(logged, ShownLog)
<1>1. inp < BufferSize /\ outp < BufferSize /\ Len(logged) <= InUse /\ Kept
  BY DEF Settled
<1>2. /\ ShownLog \in Seq(LoggedBytes) /\ Len(ShownLog) = InUse
      /\ \A k \in 1 .. InUse : ShownLog[InUse + 1 - k] = buffer[Place(k)]
  BY <1>1, ShownByPlaces
<1>3. logged \in Seq(LoggedBytes) /\ Len(logged) \in Nat /\ InUse \in Nat
  BY <1>2, LenProperties DEF LogTypeOK
<1>4. \A k \in 1 .. Len(logged) : logged[Len(logged) + 1 - k] = ShownLog[Len(ShownLog) + 1 - k]
  BY <1>1, <1>2, <1>3 DEF Kept
<1> QED
  BY <1>1, <1>2, <1>3, <1>4, SuffixByPlaces

LEMMA LogInitIInv == LogInit => LogIInv
<1> SUFFICES ASSUME LogInit PROVE LogIInv
  OBVIOUS
<1>1. BufferSize \in Nat \ {0, 1} /\ <<>> \in Seq(LoggedBytes) /\ Len(<<>>) = 0
  BY LogAssumption, EmptySeq
<1>2. 0 \in 0 .. BufferSize - 1
  BY <1>1
<1>3. buffer[0] \in LoggedBytes
  BY <1>2 DEF LogInit
<1>4. (CHOOSE b \in LoggedBytes : TRUE) \in LoggedBytes
  BY <1>3
<1>5. writing \in [LoggerTasks -> Statements]
  BY DEF LogInit, Statements
<1>6. writtenByte \in [LoggerTasks -> LoggedBytes]
  BY <1>4 DEF LogInit
<1>7. magic \in BOOLEAN /\ overlapped \in BOOLEAN /\ inp \in Nat /\ outp \in Nat
  <2>1. magic \in BOOLEAN /\ overlapped \in BOOLEAN
    BY DEF LogInit
  <2>2. inp \in Nat /\ outp \in Nat
    BY <1>1 DEF LogInit
  <2> QED
    BY <2>1, <2>2
<1>8. LogTypeOK
  BY <1>1, <1>5, <1>6, <1>7 DEF LogInit, LogTypeOK
<1> QED
  BY <1>8 DEF LogInit, LogIInv, Holds

LEMMA LogNextTypes == LogTypeOK /\ [LogNext]_logVars => LogTypeOK'
<1> SUFFICES ASSUME LogTypeOK, [LogNext]_logVars PROVE LogTypeOK'
  OBVIOUS
<1>1. BufferSize \in Nat \ {0, 1}
  BY LogAssumption
<1>2. ASSUME NEW t \in LoggerTasks, NEW byte \in LoggedBytes, LogBegins(t, byte)
      PROVE  LogTypeOK'
  BY <1>2 DEF LogBegins, LogTypeOK, Statements
<1>3. ASSUME NEW t \in LoggerTasks, LogChecks(t) PROVE LogTypeOK'
  <2>1. magic' \in BOOLEAN
    BY <1>3 DEF LogChecks, LogTypeOK
  <2>2. inp' \in Nat /\ outp' \in Nat
    BY <1>3 DEF LogChecks, LogTypeOK
  <2>3. writing' \in [LoggerTasks -> Statements]
    BY <1>3 DEF LogChecks, LogTypeOK, Statements
  <2>4. UNCHANGED <<buffer, writtenByte, logged, overlapped>>
    BY <1>3 DEF LogChecks
  <2> QED
    BY <2>1, <2>2, <2>3, <2>4 DEF LogTypeOK
<1>4. ASSUME NEW t \in LoggerTasks, LogStores(t) PROVE LogTypeOK'
  <2>1. inp \in Nat /\ writtenByte[t] \in LoggedBytes /\ logged \in Seq(LoggedBytes)
        /\ Len(logged) \in Nat /\ Len(logged) < BufferSize
    BY LenProperties DEF LogTypeOK
  <2>2. buffer' \in [0 .. BufferSize - 1 -> LoggedBytes]
    BY <1>4, <2>1 DEF LogStores, LogTypeOK
  <2> DEFINE all == Append(logged, writtenByte[t])
  <2>3. all \in Seq(LoggedBytes) /\ Len(all) = Len(logged) + 1 /\ all # <<>>
    BY <2>1, AppendProperties
  <2>4. Tail(all) \in Seq(LoggedBytes) /\ Len(Tail(all)) = Len(all) - 1
    BY <2>3, HeadTailProperties
  <2>5. logged' = IF Len(all) < BufferSize THEN all ELSE Tail(all)
    BY <1>4 DEF LogStores
  <2> HIDE DEF all
  <2>6. logged' \in Seq(LoggedBytes) /\ Len(logged') < BufferSize
    BY <1>1, <2>1, <2>3, <2>4, <2>5
  <2>7. inp' \in Nat /\ writing' \in [LoggerTasks -> Statements]
        /\ UNCHANGED <<magic, outp, writtenByte, overlapped>>
    BY <1>4, <2>1 DEF LogStores, LogTypeOK, Statements
  <2> QED
    BY <2>2, <2>6, <2>7 DEF LogTypeOK
<1>5. ASSUME NEW t \in LoggerTasks, LogWraps(t) PROVE LogTypeOK'
  BY <1>5 DEF LogWraps, LogTypeOK, Statements
<1>6. ASSUME NEW t \in LoggerTasks, LogDrops(t) PROVE LogTypeOK'
  BY <1>6 DEF LogDrops, LogTypeOK, Statements
<1>7. CASE UNCHANGED logVars
  BY <1>7 DEF logVars, LogTypeOK
<1> QED
  BY <1>2, <1>3, <1>4, <1>5, <1>6, <1>7 DEF LogNext

LEMMA ChecksSettles ==
  ASSUME LogTypeOK, NEW t \in LoggerTasks, LogChecks(t), Holds("checks")
  PROVE  Settled'
<1>1. BufferSize \in Nat \ {0, 1} /\ inp \in Nat /\ outp \in Nat /\ UNCHANGED <<buffer, logged>>
  BY LogAssumption DEF LogTypeOK, LogChecks
<1>2. logged # <<>> => Settled
  BY DEF Holds
<1>3. CASE logged # <<>>
  <2>1. UNCHANGED <<magic, inp, outp>>
    BY <1>2, <1>3 DEF Settled, LogChecks, InBuffer
  <2> QED
    BY <1>1, <1>2, <1>3, <2>1 DEF Settled, InUse, Kept, Place
<1>4. CASE logged = <<>>
  <2>1. Len(logged') = 0
    BY <1>1, <1>4
  <2>2. magic' /\ inp' \in 0 .. BufferSize - 1 /\ outp' \in 0 .. BufferSize - 1
    BY <1>1 DEF LogChecks, InBuffer
  <2>3. InUse' >= 0
    <3>1. \A i, o \in 0 .. BufferSize - 1 : (o <= i => i - o >= 0) /\ i - o + BufferSize >= 0
      BY <1>1
    <3>2. InUse' = IF outp' <= inp' THEN inp' - outp' ELSE inp' - outp' + BufferSize
      BY DEF InUse
    <3> QED
      BY <2>2, <3>1, <3>2
  <2>4. Kept'
    BY <2>1 DEF Kept
  <2> QED
    BY <1>1, <2>1, <2>2, <2>3, <2>4 DEF Settled
<1> QED
  BY <1>3, <1>4

LEMMA StoresKeeps ==
  ASSUME LogTypeOK, NEW t \in LoggerTasks, LogStores(t), Settled
  PROVE  Stored' /\ inp' \in 1 .. BufferSize
<1> DEFINE n == Len(logged)
           byte == writtenByte[t]
           all == Append(logged, byte)
<1>1. /\ BufferSize \in Nat \ {0, 1} /\ n \in 0 .. BufferSize - 1
      /\ inp \in 0 .. BufferSize - 1 /\ outp \in 0 .. BufferSize - 1
      /\ logged \in Seq(LoggedBytes) /\ byte \in LoggedBytes
  BY LogAssumption, LenProperties DEF LogTypeOK, Settled
<1>2. inp' = inp + 1 /\ outp' = outp /\ magic'
  BY DEF LogStores, Settled
<1>3. /\ all \in Seq(LoggedBytes) /\ Len(all) = n + 1 /\ all # <<>>
      /\ \A i \in 1 .. n : all[i] = logged[i]
      /\ all[n + 1] = byte
  BY <1>1, AppendProperties
<1>4. /\ Len(Tail(all)) = n
      /\ \A i \in 1 .. n : Tail(all)[i] = all[i + 1]
  <2>1. /\ Len(Tail(all)) = Len(all) - 1
        /\ \A i \in 1 .. Len(Tail(all)) : Tail(all)[i] = all[i + 1]
    BY <1>3, HeadTailProperties
  <2> HIDE DEF all
  <2> QED
    BY <1>1, <1>3, <2>1
<1>5. logged' = IF Len(all) < BufferSize THEN all ELSE Tail(all)
  BY DEF LogStores
<1>6. buffer' = [buffer EXCEPT ![inp] = byte]
  BY <1>1 DEF LogStores, InBuffer
<1> HIDE DEF n, byte, all
\* What was logged last comes first, and then what was there before.
<1>7. /\ Len(logged') \in 1 .. BufferSize - 1 /\ Len(logged') <= n + 1
      /\ logged'[Len(logged')] = byte
      /\ \A k \in 2 .. Len(logged') : logged'[Len(logged') + 1 - k] = logged[n + 1 - (k - 1)]
  <2>1. CASE n + 1 < BufferSize
    BY <1>1, <1>3, <1>5, <2>1
  <2>2. CASE n + 1 >= BufferSize
    BY <1>1, <1>3, <1>4, <1>5, <2>2
  <2> QED
    BY <1>1, <2>1, <2>2
<1>8. \A k \in 1 .. n : logged[n + 1 - k] = buffer[Place(k)]
  BY DEF Settled, Kept, n
<1>9. ASSUME NEW k \in 1 .. Len(logged')
      PROVE  logged'[Len(logged') + 1 - k] = buffer'[Place(k)']
  <2>1. buffer \in [0 .. BufferSize - 1 -> LoggedBytes]
    BY DEF LogTypeOK
  <2>2. CASE k = 1
    <3>1. Place(k)' = inp
      BY <1>1, <1>2, <2>2 DEF Place
    <3>2. Len(logged') + 1 - k = Len(logged')
      BY <1>7, <2>2
    <3>3. buffer'[inp] = byte
      BY <1>1, <1>6, <2>1
    <3> QED
      BY <1>7, <3>1, <3>2, <3>3
  <2>3. CASE k # 1
    <3>1. k \in 2 .. Len(logged') /\ k - 1 \in 1 .. n /\ k <= BufferSize - 1
      BY <1>1, <1>7, <2>3
    <3>2. Place(k)' = Place(k - 1) /\ Place(k - 1) # inp /\ Place(k - 1) \in 0 .. BufferSize - 1
      BY <1>1, <1>2, <3>1 DEF Place
    <3>3. logged'[Len(logged') + 1 - k] = buffer[Place(k - 1)]
      BY <1>7, <1>8, <3>1
    <3>4. buffer'[Place(k - 1)] = buffer[Place(k - 1)]
      BY <1>6, <2>1, <3>2
    <3> QED
      BY <3>2, <3>3, <3>4
  <2> QED
    BY <2>2, <2>3
<1>10. Len(logged') <= InUseWithNew'
  <2>1. n <= InUse
    BY DEF Settled, n
  <2>2. InUseWithNew' = InUse + 1
    BY <1>1, <1>2 DEF InUseWithNew, InUse
  <2>3. InUse \in Nat
    BY <1>1 DEF InUse
  <2> QED
    BY <1>1, <1>7, <2>1, <2>2, <2>3
<1>11. Kept'
  BY <1>9 DEF Kept
<1> QED
  BY <1>1, <1>2, <1>10, <1>11 DEF Stored

LEMMA WrapsKeeps ==
  ASSUME LogTypeOK, NEW t \in LoggerTasks, LogWraps(t), Stored, inp \in 1 .. BufferSize
  PROVE  Stored' /\ inp' < BufferSize
<1>1. /\ BufferSize \in Nat \ {0, 1} /\ outp \in 0 .. BufferSize - 1
      /\ Len(logged) \in 0 .. BufferSize - 1
  BY LogAssumption, LenProperties DEF LogTypeOK, Stored
<1>2. UNCHANGED <<magic, outp, buffer, logged>>
      /\ inp' = IF inp < BufferSize THEN inp ELSE 0
  BY DEF LogWraps, InBuffer
<1>3. InUseWithNew' = InUseWithNew
  BY <1>1, <1>2 DEF InUseWithNew
<1>4. ASSUME NEW k \in 1 .. Len(logged) PROVE Place(k)' = Place(k)
  BY <1>1, <1>2 DEF Place
<1>5. Kept'
  BY <1>2, <1>4 DEF Kept, Stored
<1>6. inp' < BufferSize
  BY <1>1, <1>2
<1> QED
  BY <1>2, <1>3, <1>5, <1>6 DEF Stored

LEMMA DropsSettles ==
  ASSUME LogTypeOK, NEW t \in LoggerTasks, LogDrops(t), Stored, inp < BufferSize
  PROVE  Settled'
<1>1. /\ BufferSize \in Nat \ {0, 1} /\ outp \in 0 .. BufferSize - 1
      /\ inp \in 0 .. BufferSize - 1 /\ Len(logged) \in 0 .. BufferSize - 1
  BY LogAssumption, LenProperties DEF LogTypeOK, Stored
<1>2. UNCHANGED <<magic, inp, buffer, logged>>
  BY DEF LogDrops
<1>3. outp' = IF inp = outp THEN (IF outp + 1 < BufferSize THEN outp + 1 ELSE 0) ELSE outp
  BY <1>1 DEF LogDrops, DropsOldest, InBuffer
<1>4. outp' \in 0 .. BufferSize - 1
  BY <1>1, <1>3
<1>5. Len(logged) <= InUse'
  <2>1. CASE inp = outp
    BY <1>1, <1>2, <1>3, <2>1 DEF InUse
  <2>2. CASE inp # outp
    BY <1>1, <1>2, <1>3, <2>2 DEF InUse, InUseWithNew, Stored
  <2> QED
    BY <2>1, <2>2
<1>6. Kept'
  BY <1>2 DEF Stored, Kept, Place
<1> QED
  BY <1>1, <1>2, <1>4, <1>5, <1>6 DEF Settled, Stored

LEMMA WriterIsAlone ==
  ASSUME LogIInv, ~overlapped, NEW t \in LoggerTasks, writing[t] # "none"
  PROVE  Alone(t) /\ Holds(writing[t])
  BY DEF LogIInv, Alone

LEMMA LogNextPreserves == LogIInv /\ [LogNext]_logVars => LogIInv'
<1> SUFFICES ASSUME LogIInv, [LogNext]_logVars PROVE LogIInv'
  OBVIOUS
<1>1. LogTypeOK /\ LogTypeOK'
  BY LogNextTypes DEF LogIInv
<1> SUFFICES ASSUME ~overlapped'
             PROVE  \/ \E t \in LoggerTasks : (Alone(t) /\ Holds(writing[t]))'
                    \/ (\A t \in LoggerTasks : writing'[t] = "none") /\ Holds("none")'
  BY <1>1 DEF LogIInv
<1>2. ASSUME NEW t \in LoggerTasks, NEW byte \in LoggedBytes, LogBegins(t, byte)
      PROVE  (Alone(t) /\ Holds(writing[t]))'
  <2>1. ~overlapped /\ \A u \in LoggerTasks : writing[u] = "none"
    BY <1>2 DEF LogBegins
  <2>2. logged # <<>> => Settled
    BY <2>1 DEF LogIInv, Holds
  <2>3. UNCHANGED <<magic, inp, outp, buffer, logged>>
    BY <1>2 DEF LogBegins
  <2>4. (logged # <<>> => Settled)'
    BY <2>2, <2>3 DEF Settled, InUse, Kept, Place
  <2>5. writing'[t] = "checks" /\ Alone(t)'
    BY <1>1, <1>2, <2>1 DEF LogBegins, Alone, LogTypeOK
  <2> QED
    BY <2>4, <2>5 DEF Holds
<1>3. ASSUME NEW t \in LoggerTasks, LogChecks(t) \/ LogStores(t) \/ LogWraps(t) \/ LogDrops(t)
      PROVE  (Alone(t) /\ Holds(writing[t]))'
  <2>1. ~overlapped /\ writing[t] # "none"
    BY <1>3 DEF LogChecks, LogStores, LogWraps, LogDrops
  <2>2. Alone(t) /\ Holds(writing[t])
    BY <2>1, WriterIsAlone
  <2>3. Alone(t)'
    BY <1>1, <1>3, <2>2 DEF LogChecks, LogStores, LogWraps, LogDrops, Alone, LogTypeOK
  <2>4. CASE LogChecks(t)
    <3>1. writing[t] = "checks" /\ writing'[t] = "stores"
      BY <1>1, <2>4 DEF LogChecks, LogTypeOK
    <3>2. Settled'
      BY <1>1, <2>2, <2>4, <3>1, ChecksSettles
    <3> QED
      BY <2>3, <3>1, <3>2 DEF Holds
  <2>5. CASE LogStores(t)
    <3>1. writing[t] = "stores" /\ writing'[t] = "wraps"
      BY <1>1, <2>5 DEF LogStores, LogTypeOK
    <3>2. Settled
      BY <2>2, <3>1 DEF Holds
    <3>3. Stored' /\ inp' \in 1 .. BufferSize
      BY <1>1, <2>5, <3>2, StoresKeeps
    <3> QED
      BY <2>3, <3>1, <3>3 DEF Holds
  <2>6. CASE LogWraps(t)
    <3>1. writing[t] = "wraps" /\ writing'[t] = "drops"
      BY <1>1, <2>6 DEF LogWraps, LogTypeOK
    <3>2. Stored /\ inp \in 1 .. BufferSize
      BY <2>2, <3>1 DEF Holds
    <3>3. Stored' /\ inp' < BufferSize
      BY <1>1, <2>6, <3>2, WrapsKeeps
    <3> QED
      BY <2>3, <3>1, <3>3 DEF Holds
  <2>7. CASE LogDrops(t)
    <3>1. writing[t] = "drops" /\ writing'[t] = "none"
      BY <1>1, <2>7 DEF LogDrops, LogTypeOK
    <3>2. Stored /\ inp < BufferSize
      BY <2>2, <3>1 DEF Holds
    <3>3. Settled'
      BY <1>1, <2>7, <3>2, DropsSettles
    <3> QED
      BY <2>3, <3>1, <3>3 DEF Holds
  <2> QED
    BY <1>3, <2>4, <2>5, <2>6, <2>7
<1>4. CASE UNCHANGED logVars
  BY <1>4 DEF logVars, LogIInv, Alone, Holds, Settled, Stored, InUse, InUseWithNew, Kept, Place
<1> QED
  BY <1>2, <1>3, <1>4 DEF LogNext

LEMMA LogIInvShows == LogIInv => LogIsLastBytes
<1> SUFFICES ASSUME LogIInv, logged # <<>>, ~overlapped,
                    \A t \in LoggerTasks : writing[t] = "none"
             PROVE  IsSuffix(logged, ShownLog)
  BY DEF LogIsLastBytes
<1>1. Settled /\ LogTypeOK
  BY DEF LogIInv, Holds
<1> QED
  BY <1>1, SettledShows

\* The log that a request shows ends with the bytes that were logged last, for buffers of any
\* size of at least two and any number of tasks, as long as no two of them log at a time.
THEOREM LogShowsLastBytes == LogSpec => []LogIsLastBytes
<1>1. LogSpec => []LogIInv
  BY LogInitIInv, LogNextPreserves, PTL DEF LogSpec
<1> QED
  BY <1>1, LogIInvShows, PTL

--------------------------------------------------------------------------------
(* Users *)

FieldNames == <<"username", "password", "rights">>

\* The field of a user is the line of the file with this number and this name.
LineOf(i, j) == 3 * (i - 1) + j
LineName(i, j) == <<i - 1, FieldNames[j]>>

UsersFileOf(us, n) == SubSeq(SavedUsers(us), 1, n)

LEMMA LinesOfUsers ==
  ASSUME NEW k \in Nat \ {0}
  PROVE  \E i \in Nat \ {0}, j \in 1 .. 3 : k = LineOf(i, j)
<1>1. (k - 1) \div 3 + 1 \in Nat \ {0} /\ ((k - 1) % 3) + 1 \in 1 .. 3
  OBVIOUS
<1>2. k = LineOf((k - 1) \div 3 + 1, ((k - 1) % 3) + 1)
  BY DEF LineOf
<1> QED
  BY <1>1, <1>2

LEMMA LineOfInverse ==
  ASSUME NEW i \in Nat \ {0}, NEW j \in 1 .. 3
  PROVE  /\ (LineOf(i, j) - 1) \div 3 = i - 1 /\ (LineOf(i, j) - 1) % 3 = j - 1
         /\ LineOf(i, j) \in Nat \ {0}
  BY DEF LineOf

LEMMA LinesDiffer ==
  ASSUME NEW i \in Nat \ {0}, NEW j \in 1 .. 3, NEW d \in Nat \ {0}, NEW e \in 1 .. 3
  PROVE  /\ LineOf(d, e) = LineOf(i, j) <=> (d = i /\ e = j)
         /\ LineName(d, e) = LineName(i, j) <=> (d = i /\ e = j)
<1>1. LineOf(d, e) = LineOf(i, j) <=> (d = i /\ e = j)
  BY DEF LineOf
<1>2. FieldNames[e] = FieldNames[j] <=> e = j
  BY DEF FieldNames
<1>3. d - 1 = i - 1 <=> d = i
  OBVIOUS
<1> QED
  BY <1>1, <1>2, <1>3 DEF LineName

LEMMA SavedLines ==
  ASSUME NEW us \in Seq(UserType)
  PROVE  /\ Len(us) \in Nat
         /\ Len(SavedUsers(us)) = 3 * Len(us)
         /\ \A i \in Nat \ {0}, j \in 1 .. 3 :
              LineOf(i, j) <= 3 * Len(us) =>
                /\ i \in 1 .. Len(us)
                /\ SavedUsers(us)[LineOf(i, j)] = Entry(LineName(i, j), <<us[i][FieldNames[j]]>>)
<1> DEFINE n == 3 * Len(us)
           lines == {SavedUsers(us)[k] : k \in 1 .. n}
<1>1. Len(us) \in Nat /\ n \in Nat
  BY LenProperties
<1>2. SavedUsers(us) \in [1 .. n -> lines]
  BY DEF SavedUsers
<1>3. Len(SavedUsers(us)) = n
  BY <1>1, <1>2, FunctionIsSequence
<1>4. ASSUME NEW i \in Nat \ {0}, NEW j \in 1 .. 3, LineOf(i, j) <= n
      PROVE  /\ i \in 1 .. Len(us)
             /\ SavedUsers(us)[LineOf(i, j)] = Entry(LineName(i, j), <<us[i][FieldNames[j]]>>)
  <2>1. i \in 1 .. Len(us)
    BY <1>1, <1>4 DEF LineOf
  <2>2. LineOf(i, j) \in 1 .. 3 * Len(us)
    <3> HIDE DEF lines
    <3>1. LineOf(i, j) \in Nat \ {0}
      BY LineOfInverse
    <3> QED
      BY <1>1, <1>4, <3>1
  <2>3. SavedUsers(us)[LineOf(i, j)]
          = UserLines((LineOf(i, j) - 1) \div 3,
                      us[(LineOf(i, j) - 1) \div 3 + 1])[((LineOf(i, j) - 1) % 3) + 1]
    BY <2>2 DEF SavedUsers
  <2>4. (LineOf(i, j) - 1) \div 3 = i - 1 /\ (LineOf(i, j) - 1) % 3 = j - 1
    BY LineOfInverse
  <2>5. i - 1 + 1 = i /\ j - 1 + 1 = j
    OBVIOUS
  <2>6. UserLines(i - 1, us[i])[j] = Entry(LineName(i, j), <<us[i][FieldNames[j]]>>)
    <3>1. CASE j = 1
      BY <3>1 DEF UserLines, FieldNames, LineName
    <3>2. CASE j = 2
      BY <3>2 DEF UserLines, FieldNames, LineName
    <3>3. CASE j = 3
      BY <3>3 DEF UserLines, FieldNames, LineName
    <3> QED
      BY <3>1, <3>2, <3>3
  <2> QED
    BY <2>1, <2>3, <2>4, <2>5, <2>6
<1> QED
  BY <1>1, <1>3, <1>4

LEMMA CutLines ==
  ASSUME NEW us \in Seq(UserType), NEW n \in 0 .. 3 * Len(us)
  PROVE  /\ n \in Nat /\ Len(UsersFileOf(us, n)) = n /\ DOMAIN UsersFileOf(us, n) = 1 .. n
         /\ \A k \in 1 .. n : UsersFileOf(us, n)[k] = SavedUsers(us)[k]
<1> DEFINE lines == {SavedUsers(us)[k] : k \in 1 .. n}
<1>1. n \in Nat
  BY SavedLines
<1>2. \A k \in 1 .. n : SavedUsers(us)[k] \in lines
  OBVIOUS
<1> HIDE DEF lines
<1>3. /\ UsersFileOf(us, n) \in Seq(lines)
      /\ Len(UsersFileOf(us, n)) = IF 1 <= n THEN n - 1 + 1 ELSE 0
      /\ \A k \in 1 .. n - 1 + 1 : UsersFileOf(us, n)[k] = SavedUsers(us)[1 + k - 1]
  BY <1>1, <1>2, SubSeqProperties DEF UsersFileOf
<1>4. Len(UsersFileOf(us, n)) = n
  BY <1>1, <1>3
<1>5. DOMAIN UsersFileOf(us, n) = 1 .. n
  BY <1>3, <1>4, LenProperties
<1>6. n - 1 + 1 = n /\ \A k \in 1 .. n : 1 + k - 1 = k
  BY <1>1
<1> QED
  BY <1>1, <1>3, <1>4, <1>5, <1>6

LEMMA FieldIsRead ==
  ASSUME NEW us \in Seq(UserType), NEW n \in 0 .. 3 * Len(us),
         NEW i \in Nat \ {0}, NEW j \in 1 .. 3
  PROVE  /\ LineOf(i, j) <= n =>
              i \in 1 .. Len(us)
              /\ FieldOf(UsersFileOf(us, n), i, FieldNames[j]) = us[i][FieldNames[j]]
         /\ LineOf(i, j) > n => FieldOf(UsersFileOf(us, n), i, FieldNames[j]) = NoText
<1> DEFINE file == UsersFileOf(us, n)
           found == {k \in DOMAIN file : IsFound(file, k, LineName(i, j))}
<1>1. Len(us) \in Nat /\ n \in Nat /\ n <= 3 * Len(us)
  BY SavedLines
<1>2. DOMAIN file = 1 .. n /\ \A k \in 1 .. n : file[k] = SavedUsers(us)[k]
  BY CutLines
<1>3. \A d \in Nat \ {0}, e \in 1 .. 3 :
        LineOf(d, e) <= 3 * Len(us) =>
          /\ d \in 1 .. Len(us)
          /\ SavedUsers(us)[LineOf(d, e)] = Entry(LineName(d, e), <<us[d][FieldNames[e]]>>)
  BY SavedLines
<1>4. LineOf(i, j) \in Nat \ {0}
  BY LineOfInverse
<1> HIDE DEF file
<1>5. ASSUME NEW k \in 1 .. n
      PROVE  Len(file[k].value) = 1 /\ (file[k].name = LineName(i, j) <=> k = LineOf(i, j))
  <2>1. k \in Nat \ {0} /\ k <= 3 * Len(us)
    BY <1>1
  <2>2. PICK d \in Nat \ {0}, e \in 1 .. 3 : k = LineOf(d, e)
    BY <2>1, LinesOfUsers
  <2>3. file[k] = Entry(LineName(d, e), <<us[d][FieldNames[e]]>>)
    BY <1>2, <1>3, <2>1, <2>2
  <2>4. Len(file[k].value) = 1 /\ file[k].name = LineName(d, e)
    BY <2>3 DEF Entry
  <2>5. LineOf(d, e) = LineOf(i, j) <=> LineName(d, e) = LineName(i, j)
    BY LinesDiffer
  <2> QED
    BY <2>2, <2>4, <2>5
<1>6. found = {k \in 1 .. n : k = LineOf(i, j)}
  <2>1. ASSUME NEW k \in 1 .. n PROVE IsFound(file, k, LineName(i, j)) <=> k = LineOf(i, j)
    <3>1. k = 1 \/ k - 1 \in 1 .. n
      BY <1>1
    <3> QED
      BY <1>5, <3>1 DEF IsFound
  <2> QED
    BY <1>2, <2>1
<1>7. FieldOf(file, i, FieldNames[j]) = Head(GetValue(file, LineName(i, j), <<NoText>>))
  BY DEF FieldOf, LineName
<1>8. \A x : Head(<<x>>) = x
  OBVIOUS
<1>9. GetValue(file, LineName(i, j), <<NoText>>)
        = IF found = {} THEN <<NoText>> ELSE <<Head(file[Min(found)].value)>>
  BY DEF GetValue
<1> HIDE DEF found
<1>10. CASE LineOf(i, j) <= n
  <2>1. LineOf(i, j) \in 1 .. n /\ found = {LineOf(i, j)}
    BY <1>1, <1>4, <1>6, <1>10
  <2>2. Min({LineOf(i, j)}) = LineOf(i, j)
    <3>1. {LineOf(i, j)} \in SUBSET Nat /\ {LineOf(i, j)} # {}
      BY <1>4
    <3> QED
      BY <3>1, MinOfNaturals
  <2>3. LineOf(i, j) <= 3 * Len(us)
    BY <1>1, <1>4, <1>10
  <2>4. file[LineOf(i, j)] = Entry(LineName(i, j), <<us[i][FieldNames[j]]>>) /\ i \in 1 .. Len(us)
    BY <1>2, <1>3, <2>1, <2>3
  <2>5. Head(file[LineOf(i, j)].value) = us[i][FieldNames[j]]
    BY <1>8, <2>4 DEF Entry
  <2>6. FieldOf(file, i, FieldNames[j]) = us[i][FieldNames[j]]
    BY <1>7, <1>8, <1>9, <2>1, <2>2, <2>5
  <2> QED
    BY <1>1, <1>4, <1>10, <2>4, <2>6 DEF file
<1>11. CASE LineOf(i, j) > n
  <2>1. found = {}
    BY <1>1, <1>4, <1>6, <1>11
  <2>2. FieldOf(file, i, FieldNames[j]) = NoText
    BY <1>7, <1>8, <1>9, <2>1
  <2> QED
    BY <1>1, <1>4, <1>11, <2>2 DEF file
<1> QED
  BY <1>1, <1>4, <1>10, <1>11

LoadedUser(file, i) ==
  [username |-> FieldOf(file, i, "username"), password |-> FieldOf(file, i, "password"),
   rights |-> FieldOf(file, i, "rights")]

NamedIn(file) ==
  {n \in 0 .. Len(file) : \A i \in 1 .. n : FieldOf(file, i, "username") # NoText}

LEMMA LoadedUsersOf ==
  ASSUME NEW file
  PROVE  LoadedUsers(file) = [i \in 1 .. Max(NamedIn(file)) |-> LoadedUser(file, i)]
  BY DEF LoadedUsers, NamedIn, LoadedUser

\* Each field of a user that a file cut short holds is that of the user, or empty.
LEMMA LoadedUserOfCut ==
  ASSUME NEW us \in Seq(UserType), NEW n \in 0 .. 3 * Len(us), NEW i \in Nat \ {0}
  PROVE  /\ i \notin 1 .. Len(us) => FieldOf(UsersFileOf(us, n), i, "username") = NoText
         /\ i \in 1 .. Len(us) => LoadedUser(UsersFileOf(us, n), i) \in UserType
         /\ i \in 1 .. Len(us) /\ n = 3 * Len(us) => LoadedUser(UsersFileOf(us, n), i) = us[i]
<1> DEFINE file == UsersFileOf(us, n)
<1>1. FieldNames[1] = "username" /\ FieldNames[2] = "password" /\ FieldNames[3] = "rights"
  BY DEF FieldNames
<1>2. Len(us) \in Nat /\ n \in Nat /\ n <= 3 * Len(us)
  BY SavedLines
<1>3. \A j \in 1 .. 3 :
        /\ LineOf(i, j) <= n =>
             i \in 1 .. Len(us) /\ FieldOf(file, i, FieldNames[j]) = us[i][FieldNames[j]]
        /\ LineOf(i, j) > n => FieldOf(file, i, FieldNames[j]) = NoText
  BY FieldIsRead
<1>4. \A j \in 1 .. 3 : LineOf(i, j) \in Nat
  BY LineOfInverse
<1> HIDE DEF file
<1>5. \A j \in 1 .. 3 : FieldOf(file, i, FieldNames[j]) \in {us[i][FieldNames[j]], NoText}
  BY <1>2, <1>3, <1>4
<1>6. \A j \in 1 .. 3 : i \in 1 .. Len(us) => LineOf(i, j) <= 3 * Len(us)
  BY <1>2 DEF LineOf
<1>7. i \notin 1 .. Len(us) => FieldOf(file, i, FieldNames[1]) = NoText
  BY <1>2, <1>3, <1>4
<1>8. /\ FieldOf(file, i, "username") \in {us[i].username, NoText}
      /\ FieldOf(file, i, "password") \in {us[i].password, NoText}
      /\ FieldOf(file, i, "rights") \in {us[i].rights, NoText}
  BY <1>1, <1>5
<1>9. ASSUME i \in 1 .. Len(us) PROVE us[i] \in UserType
  BY <1>9
<1>10. ASSUME i \in 1 .. Len(us) PROVE LoadedUser(file, i) \in UserType
  BY <1>8, <1>9, <1>10, UsersAssumption DEF UserType, LoadedUser
<1>11. ASSUME i \in 1 .. Len(us), n = 3 * Len(us) PROVE LoadedUser(file, i) = us[i]
  <2>1. \A j \in 1 .. 3 : FieldOf(file, i, FieldNames[j]) = us[i][FieldNames[j]]
    BY <1>3, <1>6, <1>11
  <2>2. /\ FieldOf(file, i, "username") = us[i].username
        /\ FieldOf(file, i, "password") = us[i].password
        /\ FieldOf(file, i, "rights") = us[i].rights
    BY <1>1, <2>1
  <2> QED
    BY <1>9, <1>11, <2>2 DEF UserType, LoadedUser
<1> QED
  BY <1>1, <1>7, <1>10, <1>11 DEF file

LEMMA LoadedOfCut ==
  ASSUME NEW us \in Seq(UserType), NEW n \in 0 .. 3 * Len(us)
  PROVE  \E m \in 0 .. Len(us) :
           /\ LoadedUsers(UsersFileOf(us, n)) \in Seq(UserType)
           /\ Len(LoadedUsers(UsersFileOf(us, n))) = m
           /\ n = 3 * Len(us) =>
                /\ LoadedUsers(UsersFileOf(us, n)) = SubSeq(us, 1, m)
                /\ m = Len(us) \/ us[m + 1].username = NoText
<1> DEFINE file == UsersFileOf(us, n)
           m == Max(NamedIn(file))
<1>1. Len(us) \in Nat /\ n \in Nat /\ n <= 3 * Len(us)
  BY SavedLines
<1>2. Len(file) = n
  BY CutLines
<1>3. \A i \in Nat \ {0} :
         /\ i \notin 1 .. Len(us) => FieldOf(file, i, "username") = NoText
         /\ i \in 1 .. Len(us) => LoadedUser(file, i) \in UserType
         /\ i \in 1 .. Len(us) /\ n = 3 * Len(us) => LoadedUser(file, i) = us[i]
  BY LoadedUserOfCut
<1>4. LoadedUsers(file) = [i \in 1 .. m |-> LoadedUser(file, i)]
  BY LoadedUsersOf
<1> HIDE DEF file
<1>5. NamedIn(file) \in SUBSET (0 .. n) /\ NamedIn(file) # {}
  <2>1. 0 \in NamedIn(file)
    BY <1>1, <1>2 DEF NamedIn
  <2> QED
    BY <1>2, <2>1 DEF NamedIn
<1>6. m \in NamedIn(file) /\ \A k \in NamedIn(file) : m >= k
  BY <1>1, <1>5, MaxOfBounded
<1> HIDE DEF m
<1>7. m \in Nat /\ m <= n /\ \A i \in 1 .. m : FieldOf(file, i, "username") # NoText
  BY <1>1, <1>2, <1>6 DEF NamedIn
<1>8. m <= Len(us)
  <2>1. CASE m > Len(us)
    <3>1. Len(us) + 1 \in 1 .. m /\ Len(us) + 1 \in Nat \ {0} /\ Len(us) + 1 \notin 1 .. Len(us)
      BY <1>1, <1>7, <2>1
    <3> QED
      BY <1>3, <1>7, <3>1
  <2> QED
    BY <1>1, <1>7, <2>1
<1>9. \A i \in 1 .. m : i \in Nat \ {0} /\ i \in 1 .. Len(us)
  BY <1>1, <1>7, <1>8
<1>10. LoadedUsers(file) \in [1 .. m -> UserType]
  BY <1>3, <1>4, <1>9
<1>11. LoadedUsers(file) \in Seq(UserType) /\ Len(LoadedUsers(file)) = m
  BY <1>7, <1>10, FunctionIsSequence
<1>12. ASSUME n = 3 * Len(us)
       PROVE  /\ LoadedUsers(file) = SubSeq(us, 1, m)
              /\ m = Len(us) \/ us[m + 1].username = NoText
  <2>1. LoadedUsers(file) = [i \in 1 .. m |-> us[i]]
    BY <1>3, <1>4, <1>9, <1>12
  <2>2. SubSeq(us, 1, m) = [i \in 1 .. m |-> us[i]]
    <3>1. \A i \in 1 .. m : us[i] \in UserType
      BY <1>9
    <3>2. /\ SubSeq(us, 1, m) \in Seq(UserType)
          /\ Len(SubSeq(us, 1, m)) = IF 1 <= m THEN m - 1 + 1 ELSE 0
          /\ \A i \in 1 .. m - 1 + 1 : SubSeq(us, 1, m)[i] = us[1 + i - 1]
      BY <1>7, <3>1, SubSeqProperties
    <3>3. Len(SubSeq(us, 1, m)) = m /\ \A i \in 1 .. m : SubSeq(us, 1, m)[i] = us[i]
      BY <1>7, <3>2
    <3>4. SubSeq(us, 1, m) \in [1 .. m -> UserType]
      BY <3>2, <3>3, LenProperties
    <3> QED
      BY <3>3, <3>4
  <2>3. CASE m < Len(us)
    <3>1. m + 1 \in 0 .. n /\ m + 1 \in Nat \ {0} /\ m + 1 \in 1 .. Len(us)
      BY <1>1, <1>7, <1>12, <2>3
    <3>2. m + 1 \notin NamedIn(file)
      BY <1>6, <1>7
    <3>3. PICK i \in 1 .. m + 1 : FieldOf(file, i, "username") = NoText
      BY <1>2, <3>1, <3>2 DEF NamedIn
    <3>4. i = m + 1
      BY <1>7, <3>3
    <3>5. LoadedUser(file, m + 1) = us[m + 1]
      BY <1>3, <1>12, <3>1
    <3>6. LoadedUser(file, m + 1).username = NoText
      BY <3>3, <3>4 DEF LoadedUser
    <3> QED
      BY <2>1, <2>2, <3>5, <3>6
  <2> QED
    BY <1>1, <1>7, <1>8, <2>1, <2>2, <2>3
<1>13. m \in 0 .. Len(us)
  BY <1>1, <1>7, <1>8
<1> QED
  BY <1>11, <1>12, <1>13 DEF file

UsersTypeOK == users \in Seq(UserType)

UsersIInv == UsersTypeOK /\ UsersSurvive

\* A save that is complete.
LEMMA SavedSurvives ==
  ASSUME UsersTypeOK', SaveUsers
  PROVE  UsersIInv'
<1>1. Len(users') \in Nat /\ Len(SavedUsers(users')) = 3 * Len(users')
  BY SavedLines DEF UsersTypeOK
<1>2. 3 * Len(users') \in 0 .. 3 * Len(users')
  BY <1>1
<1>3. UsersFileOf(users', 3 * Len(users')) = SavedUsers(users')
  <2> DEFINE n == 3 * Len(users')
             s == SavedUsers(users')
  <2>1. /\ Len(UsersFileOf(users', n)) = n /\ DOMAIN UsersFileOf(users', n) = 1 .. n
        /\ \A k \in 1 .. n : UsersFileOf(users', n)[k] = s[k]
    BY <1>2, CutLines DEF UsersTypeOK
  <2>2. s = [k \in 1 .. n |-> s[k]]
    BY DEF SavedUsers
  <2>3. UsersFileOf(users', n) = [k \in 1 .. n |-> UsersFileOf(users', n)[k]]
    BY <2>1 DEF UsersFileOf
  <2> QED
    BY <2>1, <2>2, <2>3
<1>4. usersFile' = UsersFileOf(users', 3 * Len(users'))
  BY <1>3 DEF SaveUsers
<1>5. PICK m \in 0 .. Len(users') :
         /\ LoadedUsers(usersFile') = SubSeq(users', 1, m)
         /\ m = Len(users') \/ users'[m + 1].username = NoText
  BY <1>2, <1>4, LoadedOfCut DEF UsersTypeOK
<1> QED
  BY <1>5 DEF UsersIInv, UsersSurvive

\* The list that was just read from the file.
LEMMA LoadedSurvives ==
  ASSUME UsersTypeOK', LoadedUsers(usersFile') = users'
  PROVE  UsersIInv'
<1>1. Len(users') \in Nat
  BY LenProperties DEF UsersTypeOK
<1>2. SubSeq(users', 1, Len(users')) = users'
  BY <1>1 DEF UsersTypeOK
<1>3. Len(users') \in 0 .. Len(users')
  BY <1>1
<1> QED
  BY <1>2, <1>3 DEF UsersIInv, UsersSurvive

\* A restart keeps the users up to the first without a name.
LEMMA RestartKeeps ==
  ASSUME UsersIInv, UsersRestart
  PROVE  UsersIInv' /\ Len(users') <= Len(users)
<1>1. PICK n \in 0 .. Len(users) : users' = SubSeq(users, 1, n)
  BY DEF UsersIInv, UsersSurvive, UsersRestart
<1>2. Len(users) \in Nat /\ n \in Nat /\ n <= Len(users)
  BY LenProperties DEF UsersIInv, UsersTypeOK
<1>3. UsersTypeOK' /\ Len(users') = n
  <2>1. \A i \in 1 .. n : users[i] \in UserType
    BY <1>2 DEF UsersIInv, UsersTypeOK
  <2>2. SubSeq(users, 1, n) \in Seq(UserType)
        /\ Len(SubSeq(users, 1, n)) = IF 1 <= n THEN n - 1 + 1 ELSE 0
    BY <1>2, <2>1, SubSeqProperties
  <2> QED
    BY <1>1, <1>2, <2>2 DEF UsersTypeOK
<1>4. LoadedUsers(usersFile') = users'
  BY DEF UsersRestart
<1> QED
  BY <1>2, <1>3, <1>4, LoadedSurvives

LEMMA CutShortKeeps ==
  ASSUME UsersIInv, UsersSaveCutShort
  PROVE  UsersIInv' /\ Len(users') <= Len(users)
<1>1. Len(users) \in Nat /\ Len(SavedUsers(users)) = 3 * Len(users)
  BY SavedLines DEF UsersIInv, UsersTypeOK
<1>2. PICK n \in 0 .. 3 * Len(users) : usersFile' = UsersFileOf(users, n)
  BY <1>1 DEF UsersSaveCutShort, CutShort, UsersFileOf
<1>3. PICK m \in 0 .. Len(users) :
         LoadedUsers(usersFile') \in Seq(UserType) /\ Len(LoadedUsers(usersFile')) = m
  BY <1>2, LoadedOfCut DEF UsersIInv, UsersTypeOK
<1>4. LoadedUsers(usersFile') = users'
  BY DEF UsersSaveCutShort
<1> QED
  BY <1>1, <1>3, <1>4, LoadedSurvives DEF UsersTypeOK

LEMMA UsersInitIInv == UsersInit => UsersIInv
<1> SUFFICES ASSUME UsersInit PROVE UsersIInv
  OBVIOUS
<1>1. users = LoadedUsers(usersFile) /\ usersFile = <<>>
  BY DEF UsersInit
<1>2. NamedIn(<<>>) = {0}
  BY DEF NamedIn
<1>3. Max({0}) = 0
  BY DEF Max
<1>4. users = <<>>
  <2>1. LoadedUsers(<<>>) = [i \in 1 .. Max(NamedIn(<<>>)) |-> LoadedUser(<<>>, i)]
    BY LoadedUsersOf
  <2>2. users = [i \in 1 .. 0 |-> LoadedUser(<<>>, i)]
    BY <1>1, <1>2, <1>3, <2>1
  <2>3. users \in [1 .. 0 -> UserType] /\ 0 \in Nat
    BY <2>2
  <2>4. users \in Seq(UserType) /\ Len(users) = 0
    BY <2>3, FunctionIsSequence
  <2> QED
    BY <2>4, EmptySeq
<1>5. 0 \in 0 .. Len(users) /\ Len(users) = 0 /\ SubSeq(users, 1, 0) = <<>>
  BY <1>4, SubSeqEmpty
<1>6. UsersTypeOK
  BY <1>4 DEF UsersTypeOK
<1> QED
  BY <1>1, <1>4, <1>5, <1>6 DEF UsersIInv, UsersSurvive

LEMMA UsersNextPreserves == UsersIInv /\ [UsersNext]_userVars => UsersIInv'
<1> SUFFICES ASSUME UsersIInv, [UsersNext]_userVars PROVE UsersIInv'
  OBVIOUS
<1>1. ASSUME NEW u \in UserType, AddUser(u) PROVE UsersIInv'
  <2>1. UsersTypeOK'
    BY <1>1 DEF AddUser, UsersIInv, UsersTypeOK
  <2> QED
    BY <1>1, <2>1, SavedSurvives DEF AddUser
<1>2. ASSUME NEW name \in UserNames, FormChangesUser(name) PROVE UsersIInv'
  BY <1>2, SavedSurvives DEF FormChangesUser, UsersIInv, UsersTypeOK
<1>3. ASSUME NEW i \in DOMAIN users, NEW u \in UserType, PutUser(i, u) PROVE UsersIInv'
  <2>1. UsersTypeOK'
    BY <1>3 DEF PutUser, UsersIInv, UsersTypeOK
  <2> QED
    BY <1>3, <2>1, SavedSurvives DEF PutUser
<1>4. CASE UsersRestart
  BY <1>4, RestartKeeps
<1>5. CASE UsersSaveCutShort
  BY <1>5, CutShortKeeps
<1>6. CASE UNCHANGED userVars
  BY <1>6 DEF userVars, UsersIInv, UsersTypeOK, UsersSurvive
<1> QED
  BY <1>1, <1>2, <1>3, <1>4, <1>5, <1>6 DEF UsersNext, FormAddsUser, PostUser

\* The users and their file are those of UsersIInv in every state.
THEOREM UsersInvariant == UsersSpec => []UsersIInv
  BY UsersInitIInv, UsersNextPreserves, PTL DEF UsersSpec

\* Users have their number, password and rights back after a restart (loop over the file
\* in configLoad() of iotsaMultiUser.cpp), however many users there are and whatever was
\* added, changed or cut short before.
THEOREM UsersAreBack == UsersSpec => []UsersSurvive
<1>1. UsersIInv => UsersSurvive
  BY DEF UsersIInv
<1> QED
  BY <1>1, UsersInvariant, PTL

--------------------------------------------------------------------------------

\* The first user with a name and a password is the same after a user is added.
LEMMA AppendKeepsAllows ==
  ASSUME NEW us \in Seq(UserType), NEW u \in UserType, us # <<>>,
         NEW name, NEW password, NEW right, Allows(us, name, password, right)
  PROVE  Allows(Append(us, u), name, password, right)
<1> DEFINE Matching(s) == {i \in DOMAIN s : s[i].username = name /\ s[i].password = password}
           x == Min(Matching(us))
           y == Min(Matching(Append(us, u)))
<1>1. Len(us) \in Nat /\ DOMAIN us = 1 .. Len(us)
  BY LenProperties
<1>2. /\ DOMAIN Append(us, u) = 1 .. Len(us) + 1
      /\ \A i \in 1 .. Len(us) : Append(us, u)[i] = us[i]
      /\ Append(us, u) # <<>>
  BY <1>1, AppendProperties
<1>3. Matching(us) # {} /\ Has(us[x].rights, right)
  BY DEF Allows
<1>4. Matching(us) \in SUBSET Nat /\ Matching(Append(us, u)) \in SUBSET Nat
  BY <1>1, <1>2
<1>5. x \in Matching(us) /\ \A i \in Matching(us) : x <= i
  BY <1>3, <1>4, MinOfNaturals
<1>6. \A i \in 1 .. Len(us) : i \in Matching(us) <=> i \in Matching(Append(us, u))
  BY <1>1, <1>2
<1>7. x \in 1 .. Len(us) /\ x \in Matching(Append(us, u))
  BY <1>1, <1>5, <1>6
<1>8. y \in Matching(Append(us, u)) /\ \A i \in Matching(Append(us, u)) : y <= i
  BY <1>4, <1>7, MinOfNaturals
<1>9. y \in 1 .. Len(us) + 1 /\ y <= x
  BY <1>2, <1>7, <1>8
<1> HIDE DEF x, y, Matching
<1>10. y \in 1 .. Len(us)
  BY <1>1, <1>7, <1>9
<1>11. x <= y
  BY <1>5, <1>6, <1>8, <1>10
<1>12. x = y
  BY <1>1, <1>7, <1>9, <1>10, <1>11
<1>13. Append(us, u)[y] = us[x]
  BY <1>2, <1>7, <1>12
<1> QED
  BY <1>2, <1>3, <1>7, <1>13 DEF Allows, Matching, x, y

\* A user that is added takes no right from a user there was, in allows() of
\* iotsaMultiUser.cpp, however many there are.
THEOREM AddingUsersKeepsRights == UsersSpec => AddingKeepsRights
<1> DEFINE RightsKept == Len(users') > Len(users) /\ users # <<>> =>
                     \A name \in UserNames, password \in Passwords, right \in Rights :
                       Allows(users, name, password, right)
                         => Allows(users', name, password, right)
<1>1. UsersIInv /\ UsersIInv' /\ [UsersNext]_userVars => [RightsKept]_userVars
  <2> SUFFICES ASSUME UsersIInv, UsersIInv', UsersNext PROVE RightsKept
    OBVIOUS
  <2>1. users \in Seq(UserType) /\ Len(users) \in Nat /\ Len(users') \in Nat
    BY LenProperties DEF UsersIInv, UsersTypeOK
  <2>2. ASSUME NEW u \in UserType, AddUser(u) PROVE RightsKept
    BY <2>1, <2>2, AppendKeepsAllows DEF AddUser
  <2>3. ASSUME Len(users') <= Len(users) PROVE RightsKept
    BY <2>1, <2>3
  <2>4. ASSUME NEW i \in DOMAIN users, NEW u \in UserType, PutUser(i, u)
        PROVE  Len(users') <= Len(users)
    BY <2>1, <2>4, ExceptSeq DEF PutUser
  <2>5. ASSUME NEW name \in UserNames, FormChangesUser(name)
        PROVE  Len(users') <= Len(users)
    BY <2>1, <2>5 DEF FormChangesUser
  <2> QED
    BY <2>2, <2>3, <2>4, <2>5, RestartKeeps, CutShortKeeps
    DEF UsersNext, FormAddsUser, PostUser
<1>2. UsersSpec => [][RightsKept]_userVars
  BY <1>1, UsersInvariant, PTL DEF UsersSpec
<1> QED
  BY <1>2 DEF AddingKeepsRights

--------------------------------------------------------------------------------
(* ModuleSettings, with values of one line *)

\* As get() returns a value.
OneLine(v) == v = <<Head(v)>>

\* The hypothesis: no text has a line break in it, as a certificate would have.
SingleLines == \A v \in TextValues \cup RootCAs : Len(v) = 1

\* The fields of a module, with texts of one line.
HasSettingsOf(m, s) ==
  /\ DOMAIN s = Fields(m) /\ s = [f \in Fields(m) |-> s[f]]
  /\ \A f \in Range(TextFields[m]) : OneLine(s[f])
  /\ \A f \in FlagFields(m) : s[f] \in BOOLEAN

\* What is saved is only read back if it has the fields of the module.
SettingsIInv ==
  /\ settingsOf \in SettingsModules
  /\ HasSettingsOf(settingsOf, settings)
  /\ SettingsSurvive

LEMMA ValuesAreLines ==
  ASSUME SingleLines, NEW v \in TextValues \cup RootCAs
  PROVE  OneLine(v)
<1>1. v \in Seq(STRING) /\ Len(v) = 1
  BY SettingsAssumption DEF SingleLines
<1>2. v = <<v[1]>>
  BY <1>1
<1> QED
  BY <1>1, <1>2 DEF OneLine

LEMMA OneLineOf == \A x : OneLine(<<x>>) /\ Head(<<x>>) = x /\ Len(<<x>>) = 1
  BY DEF OneLine

\* An entry is found again when no other has its name.
LEMMA ReadBack ==
  ASSUME NEW n \in Nat, NEW file, DOMAIN file = 1 .. n,
         \A k \in 1 .. n : OneLine(file[k].value),
         NEW i \in 1 .. n, \A k \in 1 .. n : file[k].name = file[i].name => k = i,
         NEW default
  PROVE  GetValue(file, file[i].name, default) = file[i].value
<1> DEFINE found == {k \in DOMAIN file : IsFound(file, k, file[i].name)}
<1>1. \A k \in 1 .. n : Len(file[k].value) = 1
  BY OneLineOf DEF OneLine
<1>2. i = 1 \/ i - 1 \in 1 .. n
  OBVIOUS
<1>3. IsFound(file, i, file[i].name)
  BY <1>1, <1>2 DEF IsFound
<1>4. found = {i}
  BY <1>3 DEF IsFound
<1>5. Min({i}) = i
  BY DEF Min
<1>6. GetValue(file, file[i].name, default)
        = IF found = {} THEN default ELSE <<Head(file[Min(found)].value)>>
  BY DEF GetValue
<1> HIDE DEF found
<1> QED
  BY <1>4, <1>5, <1>6 DEF OneLine

LEMMA ReadsOneLine ==
  ASSUME NEW file, NEW name, NEW default, OneLine(default)
  PROVE  OneLine(GetValue(file, name, default))
  BY OneLineOf DEF GetValue

\* The fields of a module are different, and none is "on" or a flag.
LEMMA FieldsDiffer ==
  ASSUME NEW m \in SettingsModules
  PROVE  /\ Len(TextFields[m]) \in Nat
         /\ DOMAIN TextFields[m] = 1 .. Len(TextFields[m])
         /\ TextFields[m] \in Seq(Range(TextFields[m]))
         /\ \A i, k \in DOMAIN TextFields[m] : TextFields[m][i] = TextFields[m][k] => i = k
         /\ \A i \in DOMAIN TextFields[m] :
              TextFields[m][i] \notin {"on", "sendOnPress", "sendOnRelease"}
<1>1. CASE m = "buttons"
  <2>1. TextFields[m] = <<"url", "rootCA", "credentials", "token">>
    BY <1>1 DEF TextFields, RequestFields
  <2> QED
    BY <2>1 DEF Range
<1>2. CASE m = "capabilities"
  <2>1. TextFields[m] = <<"issuer", "key">>
    BY <1>2 DEF TextFields, CapabilityFields
  <2> QED
    BY <2>1 DEF Range
<1>3. CASE m = "users"
  <2>1. TextFields[m] = <<"user", "password">>
    BY <1>3 DEF TextFields, UserFields
  <2> QED
    BY <2>1 DEF Range
<1>4. CASE m = "ntp"
  <2>1. TextFields[m] = <<"ntpServer", "tzDescription">>
    BY <1>4 DEF TextFields, ClockFields
  <2> QED
    BY <2>1 DEF Range
<1> QED
  BY <1>1, <1>2, <1>3, <1>4 DEF SettingsModules

\* The lines of a file that was saved.
SavedCount(m) == IF m = "buttons" THEN Len(TextFields[m]) + 1 ELSE Len(TextFields[m])

LEMMA SavedEntries ==
  ASSUME NEW m \in SettingsModules, NEW s
  PROVE  /\ SavedCount(m) \in Nat /\ DOMAIN SavedSettings(m, s) = 1 .. SavedCount(m)
         /\ \A i \in DOMAIN TextFields[m] :
              SavedSettings(m, s)[i] = Entry(TextFields[m][i], s[TextFields[m][i]])
         /\ m = "buttons" =>
              SavedSettings(m, s)[SavedCount(m)] = Entry("on", <<SendOnWord(s)>>)
<1> DEFINE n == Len(TextFields[m])
           texts == [i \in DOMAIN TextFields[m] |-> Entry(TextFields[m][i], s[TextFields[m][i]])]
           word == Entry("on", <<SendOnWord(s)>>)
           lines == {texts[i] : i \in 1 .. n} \cup {word}
           rest == IF m = "buttons" THEN <<word>> ELSE <<>>
<1>1. n \in Nat /\ DOMAIN TextFields[m] = 1 .. n
  BY FieldsDiffer
<1>2. texts \in [1 .. n -> lines]
  BY <1>1
<1>3. texts \in Seq(lines) /\ Len(texts) = n
  BY <1>1, <1>2, FunctionIsSequence
<1>4. word \in lines
  OBVIOUS
<1>5. SavedSettings(m, s) = texts \o rest
  BY DEF SavedSettings
<1>6. \A i \in 1 .. n : texts[i] = Entry(TextFields[m][i], s[TextFields[m][i]])
  BY <1>1
<1> HIDE DEF n, texts, word, lines
<1>7. /\ rest \in Seq(lines) /\ Len(rest) = (IF m = "buttons" THEN 1 ELSE 0)
      /\ m = "buttons" => rest[1] = word
  BY <1>4
<1> HIDE DEF rest
<1>8. /\ texts \o rest \in Seq(lines) /\ Len(texts \o rest) = Len(texts) + Len(rest)
      /\ \A i \in 1 .. Len(texts) + Len(rest) :
           (texts \o rest)[i] = IF i <= Len(texts) THEN texts[i] ELSE rest[i - Len(texts)]
  BY <1>3, <1>7, ConcatProperties
<1>9. SavedCount(m) = Len(texts) + Len(rest) /\ SavedCount(m) \in Nat
  <2>1. SavedCount(m) = IF m = "buttons" THEN n + 1 ELSE n
    BY DEF SavedCount, n
  <2>2. CASE m = "buttons"
    BY <1>1, <1>3, <1>7, <2>1, <2>2
  <2>3. CASE m # "buttons"
    BY <1>1, <1>3, <1>7, <2>1, <2>3
  <2> QED
    BY <2>2, <2>3
<1>10. DOMAIN (texts \o rest) = 1 .. SavedCount(m)
  BY <1>8, <1>9, LenProperties
<1>11. \A i \in 1 .. n : (texts \o rest)[i] = texts[i]
  BY <1>1, <1>3, <1>7, <1>8
<1>12. m = "buttons" => (texts \o rest)[SavedCount(m)] = word
  <2> SUFFICES ASSUME m = "buttons" PROVE (texts \o rest)[SavedCount(m)] = word
    OBVIOUS
  <2>1. SavedCount(m) = n + 1 /\ Len(rest) = 1 /\ rest[1] = word
    BY <1>7 DEF SavedCount, n
  <2>2. n + 1 \in 1 .. Len(texts) + Len(rest) /\ ~ (n + 1 <= Len(texts)) /\ n + 1 - Len(texts) = 1
    BY <1>1, <1>3, <2>1
  <2> QED
    BY <1>8, <2>1, <2>2
<1> QED
  BY <1>1, <1>5, <1>6, <1>9, <1>10, <1>11, <1>12 DEF word

LEMMA EntryParts ==
  \A name, value : Entry(name, value).name = name /\ Entry(name, value).value = value
  BY DEF Entry

\* What is saved of a module is read back.
LEMMA SavedIsLoaded ==
  ASSUME NEW m \in SettingsModules, NEW s, HasSettingsOf(m, s)
  PROVE  LoadedSettings(m, SavedSettings(m, s)) = s
<1> DEFINE file == SavedSettings(m, s)
           n == SavedCount(m)
           loaded == LoadedSettings(m, file)
<1>1. /\ n \in Nat /\ DOMAIN file = 1 .. n
      /\ \A i \in DOMAIN TextFields[m] : file[i] = Entry(TextFields[m][i], s[TextFields[m][i]])
      /\ m = "buttons" => file[n] = Entry("on", <<SendOnWord(s)>>)
  BY SavedEntries
<1>2. /\ Len(TextFields[m]) \in Nat /\ DOMAIN TextFields[m] = 1 .. Len(TextFields[m])
      /\ \A i, k \in DOMAIN TextFields[m] : TextFields[m][i] = TextFields[m][k] => i = k
      /\ \A i \in DOMAIN TextFields[m] :
           TextFields[m][i] \notin {"on", "sendOnPress", "sendOnRelease"}
  BY FieldsDiffer
<1>3. /\ \A k \in 1 .. n : k \in DOMAIN TextFields[m] \/ (m = "buttons" /\ k = n)
      /\ m = "buttons" => n \in 1 .. n
      /\ \A k \in DOMAIN TextFields[m] : k \in 1 .. n
  <2>1. CASE m = "buttons"
    BY <1>2, <2>1 DEF SavedCount
  <2>2. CASE m # "buttons"
    BY <1>2, <2>2 DEF SavedCount
  <2> QED
    BY <2>1, <2>2
<1> HIDE DEF file, n
<1>0. /\ \A i \in DOMAIN TextFields[m] :
           file[i].name = TextFields[m][i] /\ file[i].value = s[TextFields[m][i]]
      /\ m = "buttons" => file[n].name = "on" /\ file[n].value = <<SendOnWord(s)>>
  <2>1. ASSUME NEW i \in DOMAIN TextFields[m]
        PROVE  file[i].name = TextFields[m][i] /\ file[i].value = s[TextFields[m][i]]
    <3>1. file[i] = Entry(TextFields[m][i], s[TextFields[m][i]])
      BY <1>1
    <3> QED
      BY <3>1, EntryParts
  <2>2. m = "buttons" => file[n].name = "on" /\ file[n].value = <<SendOnWord(s)>>
    <3> SUFFICES ASSUME m = "buttons"
                 PROVE  file[n].name = "on" /\ file[n].value = <<SendOnWord(s)>>
      OBVIOUS
    <3>1. file[n] = Entry("on", <<SendOnWord(s)>>)
      BY <1>1
    <3> QED
      BY <3>1, EntryParts
  <2> QED
    BY <2>1, <2>2
<1>4. \A k \in 1 .. n : OneLine(file[k].value)
  <2> SUFFICES ASSUME NEW k \in 1 .. n PROVE OneLine(file[k].value)
    OBVIOUS
  <2>1. CASE k \in DOMAIN TextFields[m]
    <3>1. TextFields[m][k] \in Range(TextFields[m])
      BY <2>1 DEF Range
    <3> QED
      BY <1>0, <2>1, <3>1 DEF HasSettingsOf
  <2>2. CASE m = "buttons" /\ k = n
    BY <1>0, <2>2, OneLineOf
  <2> QED
    BY <1>3, <2>1, <2>2
<1>5. ASSUME NEW i \in DOMAIN TextFields[m], NEW default
      PROVE  GetValue(file, TextFields[m][i], default) = s[TextFields[m][i]]
  <2>1. i \in 1 .. n /\ file[i].name = TextFields[m][i] /\ file[i].value = s[TextFields[m][i]]
    BY <1>0, <1>3
  <2>2. ASSUME NEW k \in 1 .. n, file[k].name = file[i].name PROVE k = i
    <3>1. CASE k \in DOMAIN TextFields[m]
      BY <1>0, <1>2, <2>1, <2>2, <3>1
    <3>2. CASE m = "buttons" /\ k = n
      BY <1>0, <1>2, <2>1, <2>2, <3>2
    <3> QED
      BY <1>3, <3>1, <3>2
  <2>3. GetValue(file, file[i].name, default) = file[i].value
    BY <1>1, <1>4, <2>1, <2>2, ReadBack
  <2> QED
    BY <2>1, <2>3
<1>6. ASSUME m = "buttons", NEW default
      PROVE  GetValue(file, "on", default) = <<SendOnWord(s)>>
  <2>1. n \in 1 .. n /\ file[n].name = "on" /\ file[n].value = <<SendOnWord(s)>>
    BY <1>0, <1>3, <1>6
  <2>2. ASSUME NEW k \in 1 .. n, file[k].name = file[n].name PROVE k = n
    <3>1. CASE k \in DOMAIN TextFields[m]
      BY <1>0, <1>2, <2>1, <2>2, <3>1
    <3> QED
      BY <1>3, <3>1
  <2>3. GetValue(file, file[n].name, default) = file[n].value
    BY <1>1, <1>4, <2>1, <2>2, ReadBack
  <2> QED
    BY <2>1, <2>3
<1>7. loaded = [f \in Fields(m) |-> loaded[f]] /\ s = [f \in Fields(m) |-> s[f]]
  BY DEF LoadedSettings, HasSettingsOf
<1>8. ASSUME NEW f \in Range(TextFields[m]) PROVE loaded[f] = s[f]
  <2>1. PICK i \in DOMAIN TextFields[m] : f = TextFields[m][i]
    BY DEF Range
  <2>2. f # "sendOnPress" /\ f # "sendOnRelease" /\ f \in Fields(m)
    BY <1>2, <2>1 DEF Fields
  <2>3. loaded[f] = GetValue(file, f, DefaultOf(f))
    BY <2>2 DEF LoadedSettings
  <2> QED
    BY <1>5, <2>1, <2>3
<1>9. ASSUME NEW f \in FlagFields(m) PROVE loaded[f] = s[f]
  <2>1. m = "buttons" /\ f \in {"sendOnPress", "sendOnRelease"} /\ f \in Fields(m)
    BY DEF FlagFields, Fields
  <2>2. s.sendOnPress \in BOOLEAN /\ s.sendOnRelease \in BOOLEAN
    BY <2>1 DEF HasSettingsOf, FlagFields
  <2>3. Head(GetValue(file, "on", Empty)) = SendOnWord(s)
    BY <1>6, <2>1, OneLineOf
  <2>4. loaded[f] = (SendOnWord(s) \in (IF f = "sendOnPress" THEN PressWords ELSE ReleaseWords))
    BY <2>1, <2>3 DEF LoadedSettings
  <2>5. /\ (SendOnWord(s) \in PressWords) = s.sendOnPress
        /\ (SendOnWord(s) \in ReleaseWords) = s.sendOnRelease
    BY <2>2 DEF SendOnWord, PressWords, ReleaseWords
  <2> QED
    BY <2>1, <2>4, <2>5
<1>10. \A f \in Fields(m) : loaded[f] = s[f]
  BY <1>8, <1>9 DEF Fields
<1> HIDE DEF loaded
<1>11. loaded = s
  BY <1>7, <1>10
<1> QED
  BY <1>11 DEF loaded, file

\* Whatever a file holds, what is loaded from it has the fields of the module.
LEMMA LoadedHasSettings ==
  ASSUME NEW m \in SettingsModules, NEW file
  PROVE  HasSettingsOf(m, LoadedSettings(m, file))
<1> DEFINE loaded == LoadedSettings(m, file)
<1>1. DOMAIN loaded = Fields(m) /\ loaded = [f \in Fields(m) |-> loaded[f]]
  BY DEF LoadedSettings
<1>2. ASSUME NEW f \in Range(TextFields[m]) PROVE OneLine(loaded[f])
  <2>1. PICK i \in DOMAIN TextFields[m] : f = TextFields[m][i]
    BY DEF Range
  <2>2. f # "sendOnPress" /\ f # "sendOnRelease" /\ f \in Fields(m)
    BY <2>1, FieldsDiffer DEF Fields
  <2>3. loaded[f] = GetValue(file, f, DefaultOf(f))
    BY <2>2 DEF LoadedSettings
  <2>4. OneLine(DefaultOf(f))
    BY OneLineOf DEF DefaultOf, Empty
  <2> QED
    BY <2>3, <2>4, ReadsOneLine
<1>3. ASSUME NEW f \in FlagFields(m) PROVE loaded[f] \in BOOLEAN
  <2>1. f \in {"sendOnPress", "sendOnRelease"} /\ f \in Fields(m)
    BY DEF FlagFields, Fields
  <2>2. CASE f = "sendOnPress"
    BY <2>1, <2>2 DEF LoadedSettings
  <2>3. CASE f = "sendOnRelease"
    BY <2>1, <2>3 DEF LoadedSettings
  <2> QED
    BY <2>1, <2>2, <2>3
<1> QED
  BY <1>1, <1>2, <1>3 DEF HasSettingsOf

\* A request or a form that saved what it changed.
LEMMA SavedSettingsSurvive ==
  ASSUME settingsOf \in SettingsModules, NEW s, HasSettingsOf(settingsOf, s), Change(s), Save
  PROVE  SettingsIInv'
  BY SavedIsLoaded DEF Change, Save, SettingsIInv, SettingsSurvive

LEMMA LoadedSettingsSurvive ==
  ASSUME settingsOf \in SettingsModules, NEW file, SettingsLoaded(file)
  PROVE  SettingsIInv'
  BY LoadedHasSettings DEF SettingsLoaded, Change, SettingsIInv, SettingsSurvive

LEMMA ChangedField ==
  ASSUME NEW m \in SettingsModules, NEW s, HasSettingsOf(m, s),
         NEW field \in Fields(m), NEW value,
         field \in Range(TextFields[m]) => OneLine(value),
         field \in FlagFields(m) => value \in BOOLEAN
  PROVE  HasSettingsOf(m, [s EXCEPT ![field] = value])
  BY DEF HasSettingsOf, Fields

LEMMA SettingsInitIInv == SettingsInit => SettingsIInv
  BY LoadedHasSettings DEF SettingsInit, SettingsIInv, SettingsSurvive

LEMMA SettingsNextPreserves ==
  ASSUME SingleLines
  PROVE  SettingsIInv /\ [SettingsNext]_settingsVars => SettingsIInv'
<1> SUFFICES ASSUME SettingsIInv, [SettingsNext]_settingsVars PROVE SettingsIInv'
  OBVIOUS
<1>1. settingsOf \in SettingsModules /\ HasSettingsOf(settingsOf, settings)
  BY DEF SettingsIInv
<1>2. \A f \in Range(TextFields[settingsOf]) : f \notin FlagFields(settingsOf)
  <2> SUFFICES ASSUME NEW f \in Range(TextFields[settingsOf])
               PROVE  f \notin FlagFields(settingsOf)
    OBVIOUS
  <2>1. PICK i \in DOMAIN TextFields[settingsOf] : f = TextFields[settingsOf][i]
    BY DEF Range
  <2> QED
    BY <1>1, <2>1, FieldsDiffer DEF FlagFields
<1>3. ASSUME NEW field \in Fields(settingsOf), NEW value \in ValuesOf(field)
      PROVE  HasSettingsOf(settingsOf, [settings EXCEPT ![field] = value])
  <2>1. CASE field \in FlagFields(settingsOf)
    <3>1. field # "rootCA"
      BY <2>1 DEF FlagFields
    <3>2. value \in BOOLEAN
      BY <2>1, <3>1 DEF ValuesOf
    <3> QED
      BY <1>1, <1>2, <2>1, <3>2, ChangedField
  <2>2. CASE field \notin FlagFields(settingsOf)
    <3>1. value \in TextValues \cup RootCAs
      BY <2>2 DEF ValuesOf
    <3>2. OneLine(value)
      BY <3>1, ValuesAreLines
    <3> QED
      BY <1>1, <2>2, <3>2, ChangedField
  <2> QED
    BY <2>1, <2>2
<1>4. ASSUME NEW field \in Fields(settingsOf), NEW value \in ValuesOf(field),
             Change([settings EXCEPT ![field] = value]), Save
      PROVE  SettingsIInv'
  BY <1>1, <1>3, <1>4, SavedSettingsSurvive
<1>5. ASSUME NEW word, FormSendOn(word) PROVE SettingsIInv'
  <2>1. settingsOf = "buttons"
    BY <1>5 DEF FormSendOn
  <2>2. "sendOnPress" \in FlagFields("buttons") /\ "sendOnRelease" \in FlagFields("buttons")
    BY DEF FlagFields
  <2>3. /\ "sendOnPress" \notin Range(TextFields["buttons"])
        /\ "sendOnRelease" \notin Range(TextFields["buttons"])
        /\ "sendOnPress" \in Fields("buttons") /\ "sendOnRelease" \in Fields("buttons")
    BY <1>2, <2>1, <2>2 DEF Fields
  <2>4. (word \in PressWords) \in BOOLEAN /\ (word \in ReleaseWords) \in BOOLEAN
    OBVIOUS
  <2> DEFINE s == [settings EXCEPT !["sendOnPress"] = word \in PressWords]
             t == [s EXCEPT !["sendOnRelease"] = word \in ReleaseWords]
  <2>5. HasSettingsOf("buttons", s)
    BY <1>1, <2>1, <2>3, <2>4, ChangedField
  <2>6. HasSettingsOf("buttons", t)
    <3> HIDE DEF s
    <3> QED
      BY <1>1, <2>1, <2>3, <2>4, <2>5, ChangedField
  <2>7. Change(t) /\ Save
    BY <1>5 DEF FormSendOn
  <2> QED
    BY <1>1, <2>1, <2>6, <2>7, SavedSettingsSurvive
<1>6. ASSUME NEW issuer \in TextValues, NEW key \in TextValues, FormCapabilities(issuer, key)
      PROVE  SettingsIInv'
  <2> DEFINE s == [issuer |-> IF issuer = Empty THEN settings.issuer ELSE issuer,
                   key |-> IF key = Empty THEN settings.key ELSE key]
  <2>1. settingsOf = "capabilities" /\ Change(s) /\ Save
    BY <1>6 DEF FormCapabilities
  <2>2. Range(TextFields["capabilities"]) = {"issuer", "key"} /\ FlagFields("capabilities") = {}
    BY DEF Range, TextFields, CapabilityFields, FlagFields
  <2>3. OneLine(settings.issuer) /\ OneLine(settings.key)
    BY <1>1, <2>1, <2>2 DEF HasSettingsOf
  <2>4. OneLine(s.issuer) /\ OneLine(s.key)
    BY <2>3, ValuesAreLines
  <2>5. HasSettingsOf("capabilities", s)
    BY <2>2, <2>4 DEF HasSettingsOf, Fields
  <2> QED
    BY <1>1, <2>1, <2>5, SavedSettingsSurvive
<1>7. ASSUME NEW user \in TextValues, NEW password \in TextValues \cup {NoValue},
             FormUser(user, password)
      PROVE  SettingsIInv'
  <2> DEFINE s == [user |-> IF user = Empty THEN settings.user ELSE user,
                   password |-> IF password = NoValue THEN settings.password ELSE password]
  <2>1. settingsOf = "users" /\ Change(s) /\ Save
    BY <1>7 DEF FormUser
  <2>2. Range(TextFields["users"]) = {"user", "password"} /\ FlagFields("users") = {}
    BY DEF Range, TextFields, UserFields, FlagFields
  <2>3. OneLine(settings.user) /\ OneLine(settings.password)
    BY <1>1, <2>1, <2>2 DEF HasSettingsOf
  <2>4. OneLine(s.user) /\ OneLine(s.password)
    BY <2>3, ValuesAreLines
  <2>5. HasSettingsOf("users", s)
    BY <2>2, <2>4 DEF HasSettingsOf, Fields
  <2> QED
    BY <1>1, <2>1, <2>5, SavedSettingsSurvive
<1>8. CASE SettingsRestart
  BY <1>1, <1>8, LoadedSettingsSurvive DEF SettingsRestart
<1>9. CASE SettingsSaveCutShort
  BY <1>1, <1>9, LoadedSettingsSurvive DEF SettingsSaveCutShort
<1>10. CASE UNCHANGED settingsVars
  BY <1>10 DEF settingsVars, SettingsIInv, SettingsSurvive
<1>11. ASSUME NEW field \in Fields(settingsOf), NEW value \in ValuesOf(field),
              \/ PutSendOn(field, value) \/ PutRequest(field, value)
              \/ PutCapabilities(field, value) \/ PutUserField(field, value)
              \/ PutClock(field, value) \/ FormRequest(field, value) \/ FormClock(field, value)
       PROVE  SettingsIInv'
  BY <1>4, <1>11 DEF PutSendOn, PutRequest, PutCapabilities, PutUserField, PutClock,
                     PutField, FormRequest, FormClock
<1> QED
  BY <1>5, <1>6, <1>7, <1>8, <1>9, <1>10, <1>11 DEF SettingsNext

\* Settings of one line are read back as they were saved (configSave() and configLoad() of
\* the four modules), for every set of values, after every history of requests, forms,
\* restarts and interrupted saves.
THEOREM SingleLinesSurvive ==
  ASSUME SingleLines
  PROVE  SettingsSpec => []SettingsSurvive
<1>1. SettingsIInv => SettingsSurvive
  BY DEF SettingsIInv
<1> QED
  BY <1>1, SettingsInitIInv, SettingsNextPreserves, PTL DEF SettingsSpec

--------------------------------------------------------------------------------
(* Inputs *)

\* The buttons of which a release may switch: the latest press of such a button changed
\* the level just when it repeated.
SwitchesOnRelease(b) ==
  inputKind = "CyclingButton" \/ (inputKind = "UpDownSwitches" /\ b = "down")

InputIInv ==
  /\ InputTypeOK
  /\ \A b \in Pins : pressed[b] /\ SwitchesOnRelease(b) => (stepped[b] <=> repeated[b])

InputFlags == {low, debounceState, pressed, repeated, stepped} \subseteq [Pins -> BOOLEAN]
InputTimes ==
  /\ quiet \in [Pins -> 0 .. DebounceDelay + 1]
  /\ curRepeat \in [Pins -> Nat]
  /\ untilRepeat \in [Pins -> Nat \cup {NoRepeat}]
InputValues ==
  /\ switchState \in BOOLEAN /\ level \in IntMin .. IntMax /\ direction \in {-1, 1}
  /\ turned \in -MaxTurns .. MaxTurns

LEMMA InputTypeParts ==
  /\ InputTypeOK <=> inputKind \in InputKinds /\ InputFlags /\ InputTimes /\ InputValues
  /\ InputTypeOK' <=> inputKind' \in InputKinds /\ InputFlags' /\ InputTimes' /\ InputValues'
  BY DEF InputTypeOK, InputFlags, InputTimes, InputValues

LEMMA ButtonsArePins == inputKind \in InputKinds => ButtonsOf(inputKind) \subseteq Pins
  BY DEF InputKinds, ButtonsOf, Pins

LEMMA ClampedInRange == ASSUME NEW n \in Int PROVE Clamped(n) \in IntMin .. IntMax
  BY InputAssumption DEF Clamped

LEMMA ChangeLevelTypes ==
  ASSUME InputValues, NEW steps \in Int, ChangeLevel(steps)
  PROVE  level' \in IntMin .. IntMax
<1>1. level \in Int /\ IntStep \in Int
  BY InputAssumption DEF InputValues
<1>2. level + steps * IntStep \in Int
  BY <1>1
<1> QED
  BY <1>2, ClampedInRange DEF ChangeLevel

LEMMA InputInitIInv == InputInit => InputIInv
<1> SUFFICES ASSUME InputInit PROVE InputIInv
  OBVIOUS
<1>1. InputFlags
  BY DEF InputInit, ButtonInit, InputFlags
<1>2. InputTimes
  BY InputAssumption DEF InputInit, ButtonInit, InputTimes
<1>3. InputValues
  <2>1. IntMin \in IntMin .. IntMax /\ 0 \in -MaxTurns .. MaxTurns
    BY InputAssumption
  <2> QED
    BY <2>1 DEF InputInit, ValueInit, EncoderInit, InputValues
<1>4. inputKind \in InputKinds /\ \A b \in Pins : ~pressed[b]
  BY DEF InputInit, ButtonInit
<1> QED
  BY <1>1, <1>2, <1>3, <1>4, InputTypeParts DEF InputIInv

\* What the callbacks do to the level, and to whether the press has changed it: a button
\* that may switch when it is released changes the level when it repeats, and only then.
LEMMA CallbackEffects ==
  ASSUME InputIInv, NEW b \in Pins, ActivationCallback(b), UNCHANGED <<inputKind, turned>>,
         pressed' = [pressed EXCEPT ![b] = low[b]] \/ UNCHANGED pressed
  PROVE  /\ InputValues'
         /\ \/ stepped' = [stepped EXCEPT ![b] = TRUE]
            \/ stepped' = [stepped EXCEPT ![b] = stepped[b] /\ (pressed[b] \/ ~pressed'[b])]
         /\ pressed'[b] /\ SwitchesOnRelease(b) =>
              \/ repeated'[b] /\ stepped' = [stepped EXCEPT ![b] = TRUE]
              \/ /\ ~repeated'[b]
                 /\ stepped' = [stepped EXCEPT ![b] = stepped[b] /\ (pressed[b] \/ ~pressed'[b])]
         /\ ~pressed'[b] =>
              switchState' = IF inputKind = "CyclingButton"
                             THEN IF repeated'[b] THEN switchState ELSE ~switchState
                             ELSE IF inputKind = "UpDownSwitches" /\ b = "down" /\ ~repeated'[b]
                             THEN FALSE ELSE switchState
<1> DEFINE kept == stepped' = [stepped EXCEPT ![b] = stepped[b] /\ (pressed[b] \/ ~pressed'[b])]
           set == stepped' = [stepped EXCEPT ![b] = TRUE]
<1>1. InputValues /\ InputTypeOK
  BY InputTypeParts DEF InputIInv
<1>2. switchState \in BOOLEAN /\ direction \in {-1, 1} /\ -direction \in {-1, 1}
      /\ level \in IntMin .. IntMax
  BY <1>1 DEF InputValues
<1>3. ASSUME NoEffect(b) PROVE kept /\ InputValues' /\ switchState' = switchState
  BY <1>1, <1>3 DEF NoEffect, NoStep, valueVars, InputValues
<1>4. ASSUME NEW on \in BOOLEAN, Switch(b, on)
      PROVE  kept /\ InputValues' /\ switchState' = on
  BY <1>1, <1>4 DEF Switch, NoStep, InputValues
<1>5. ASSUME NEW steps \in {-1, 1}, ChangeValue(b, steps), switchState' \in BOOLEAN,
             direction' \in {-1, 1}
      PROVE  set /\ InputValues'
  <2>1. level' \in IntMin .. IntMax
    BY <1>1, <1>5, ChangeLevelTypes DEF ChangeValue
  <2> QED
    BY <1>1, <1>5, <2>1 DEF ChangeValue, InputValues
<1>6. CASE inputKind = "CyclingButton" /\ CyclingPressedCallback(b)
  <2>1. CASE pressed'[b] /\ ~repeated'[b] /\ NoEffect(b)
    BY <1>3, <2>1
  <2>2. CASE pressed'[b] /\ repeated'[b] /\ CyclingStep(b)
    <3>1. switchState' \in BOOLEAN /\ direction' \in {-1, 1} /\ ChangeValue(b, direction)
      BY <1>2, <2>2 DEF CyclingStep
    <3> QED
      BY <1>2, <1>5, <2>2, <3>1
  <2>3. CASE ~pressed'[b] /\ ~repeated'[b] /\ Switch(b, ~switchState)
    BY <1>2, <1>4, <1>6, <2>3
  <2>4. CASE ~pressed'[b] /\ repeated'[b] /\ NoEffect(b)
    BY <1>3, <1>6, <2>4
  <2> QED
    BY <1>6, <2>1, <2>2, <2>3, <2>4 DEF CyclingPressedCallback
<1>7. CASE inputKind # "CyclingButton" /\ b = "up" /\ UpPressedCallback(b)
  <2>1. ~SwitchesOnRelease(b) /\ b # "down"
    BY <1>7 DEF SwitchesOnRelease
  <2>2. CASE ~pressed'[b] /\ NoEffect(b)
    BY <1>3, <1>7, <2>1, <2>2
  <2>3. CASE pressed'[b] /\ Switch(b, TRUE)
    BY <1>4, <2>1, <2>3
  <2>4. CASE pressed'[b] /\ ChangeValue(b, 1) /\ UNCHANGED <<switchState, direction>>
    BY <1>2, <1>5, <2>1, <2>4
  <2> QED
    BY <1>7, <2>2, <2>3, <2>4 DEF UpPressedCallback
<1>8. CASE inputKind # "CyclingButton" /\ b = "down" /\ DownPressedCallback(b)
  <2>1. SwitchesOnRelease(b) <=> inputKind = "UpDownSwitches"
    BY <1>8 DEF SwitchesOnRelease
  <2>2. CASE inputKind = "UpDownSwitches" /\ ~repeated'[b] /\ pressed'[b] /\ NoEffect(b)
    BY <1>3, <2>2
  <2>3. CASE inputKind = "UpDownSwitches" /\ ~repeated'[b] /\ ~pressed'[b] /\ Switch(b, FALSE)
    BY <1>4, <1>8, <2>3
  <2>4. CASE /\ inputKind = "UpDownButtons" \/ repeated'[b]
             /\ pressed'[b] /\ ChangeValue(b, -1) /\ UNCHANGED <<switchState, direction>>
    BY <1>2, <1>5, <2>1, <2>4
  <2>5. CASE (inputKind = "UpDownButtons" \/ repeated'[b]) /\ ~pressed'[b] /\ NoEffect(b)
    BY <1>3, <1>8, <2>5
  <2> QED
    BY <1>8, <2>2, <2>3, <2>4, <2>5 DEF DownPressedCallback
<1> QED
  BY <1>6, <1>7, <1>8 DEF ActivationCallback

LEMMA QuietNowTypes ==
  ASSUME InputTimes, NEW b \in Pins
  PROVE  QuietNow(b) \in 0 .. DebounceDelay + 1
  BY InputAssumption DEF InputTimes, QuietNow

LEMMA NextCurRepeatTypes ==
  ASSUME InputTimes, NEW b \in Pins
  PROVE  NextCurRepeat(b) \in Nat
<1>1. curRepeat[b] \in Nat /\ MinRepeat \in Nat
  BY InputAssumption DEF InputTimes
<1>2. ~(curRepeat[b] <= MinRepeat) => curRepeat[b] - MinRepeat \in Nat
  BY <1>1
<1> QED
  BY <1>1, <1>2 DEF NextCurRepeat

LEMMA ButtonFlagTypes ==
  ASSUME InputFlags, NEW b \in Pins, UNCHANGED low, SeesPin(b),
         NEW p \in BOOLEAN, pressed' = [pressed EXCEPT ![b] = p],
         NEW r \in BOOLEAN, repeated' = [repeated EXCEPT ![b] = r],
         NEW t \in BOOLEAN, stepped' = [stepped EXCEPT ![b] = t]
  PROVE  InputFlags'
<1>1. low[b] \in BOOLEAN
  BY DEF InputFlags
<1> QED
  BY <1>1 DEF InputFlags, SeesPin

\* A button that changes or repeats, with the callback.
LEMMA ButtonActs ==
  ASSUME InputIInv, NEW b \in ButtonsOf(inputKind), UNCHANGED <<inputKind, low, turned>>,
         ButtonChanges(b) \/ ButtonRepeats(b)
  PROVE  InputIInv'
<1>1. b \in Pins /\ InputFlags /\ InputTimes /\ InputValues /\ inputKind \in InputKinds
  BY InputTypeParts, ButtonsArePins DEF InputIInv
<1>2. low[b] \in BOOLEAN /\ pressed[b] \in BOOLEAN /\ repeated[b] \in BOOLEAN
      /\ stepped[b] \in BOOLEAN /\ pressed \in [Pins -> BOOLEAN]
      /\ repeated \in [Pins -> BOOLEAN] /\ stepped \in [Pins -> BOOLEAN]
  BY <1>1 DEF InputFlags
<1>3. /\ SeesPin(b) /\ ActivationCallback(b)
      /\ pressed' = [pressed EXCEPT ![b] = low[b]] \/ UNCHANGED pressed
  BY DEF ButtonChanges, ButtonRepeats
<1>4. UNCHANGED <<inputKind, turned>>
  OBVIOUS
<1>5. /\ InputValues'
      /\ \/ stepped' = [stepped EXCEPT ![b] = TRUE]
         \/ stepped' = [stepped EXCEPT ![b] = stepped[b] /\ (pressed[b] \/ ~pressed'[b])]
      /\ pressed'[b] /\ SwitchesOnRelease(b) =>
           \/ repeated'[b] /\ stepped' = [stepped EXCEPT ![b] = TRUE]
           \/ /\ ~repeated'[b]
              /\ stepped' = [stepped EXCEPT ![b] = stepped[b] /\ (pressed[b] \/ ~pressed'[b])]
  BY <1>1, <1>3, <1>4, CallbackEffects
<1>6. PICK p \in BOOLEAN : pressed' = [pressed EXCEPT ![b] = p]
  BY <1>2, <1>3
<1>7. PICK r \in BOOLEAN : repeated' = [repeated EXCEPT ![b] = r]
  BY <1>2 DEF ButtonChanges, ButtonRepeats
<1>8. PICK t \in BOOLEAN : stepped' = [stepped EXCEPT ![b] = t]
  BY <1>5
<1>9. InputFlags'
  BY <1>1, <1>3, <1>6, <1>7, <1>8, ButtonFlagTypes
<1>10. InputTimes'
  <2>1. QuietNow(b) \in 0 .. DebounceDelay + 1
    BY <1>1, QuietNowTypes
  <2>2. quiet' \in [Pins -> 0 .. DebounceDelay + 1]
    BY <1>1, <1>3, <2>1 DEF SeesPin, InputTimes
  <2>3. curRepeat' \in [Pins -> Nat] /\ untilRepeat' \in [Pins -> Nat \cup {NoRepeat}]
    <3>1. CASE ButtonChanges(b)
      BY <1>1, <3>1, InputAssumption DEF ButtonChanges, InputTimes
    <3>2. CASE ButtonRepeats(b)
      <4>1. NextCurRepeat(b) \in Nat /\ NextCurRepeat(b) + 1 \in Nat
        BY <1>1, NextCurRepeatTypes
      <4> QED
        BY <1>1, <3>2, <4>1 DEF ButtonRepeats, InputTimes
    <3> QED
      BY <3>1, <3>2
  <2> QED
    BY <2>2, <2>3 DEF InputTimes
<1>11. ASSUME NEW c \in Pins, pressed'[c], SwitchesOnRelease(c)'
       PROVE  stepped'[c] <=> repeated'[c]
  <2>1. SwitchesOnRelease(c)
    BY <1>11 DEF SwitchesOnRelease
  <2>2. CASE c # b
    <3>1. pressed'[c] = pressed[c] /\ stepped'[c] = stepped[c] /\ repeated'[c] = repeated[c]
      BY <1>2, <1>6, <1>7, <1>8, <2>2
    <3> QED
      BY <1>11, <2>1, <3>1 DEF InputIInv
  <2>3. CASE c = b /\ ~repeated'[b]
    <3>1. stepped' = [stepped EXCEPT ![b] = stepped[b] /\ (pressed[b] \/ ~pressed'[b])]
      BY <1>5, <1>11, <2>1, <2>3
    <3>2. stepped'[b] <=> stepped[b] /\ pressed[b]
      BY <1>1, <1>2, <1>11, <2>3, <3>1
    <3>3. pressed[b] => ~repeated[b]
      <4>1. CASE ButtonChanges(b)
        BY <1>1, <1>2, <1>11, <2>3, <4>1 DEF ButtonChanges, IsAccepted
      <4>2. CASE ButtonRepeats(b)
        BY <1>1, <1>2, <2>3, <4>2 DEF ButtonRepeats
      <4> QED
        BY <4>1, <4>2
    <3> QED
      BY <1>1, <1>2, <2>1, <2>3, <3>2, <3>3 DEF InputIInv
  <2>4. CASE c = b /\ repeated'[b]
    <3>1. stepped' = [stepped EXCEPT ![b] = TRUE]
      BY <1>5, <1>11, <2>1, <2>4
    <3> QED
      BY <1>1, <1>2, <2>4, <3>1
  <2> QED
    BY <2>2, <2>3, <2>4
<1> QED
  BY <1>1, <1>4, <1>5, <1>9, <1>10, <1>11, InputTypeParts DEF InputIInv

LEMMA InputNextPreserves == InputIInv /\ [InputNext]_inputVars => InputIInv'
<1> SUFFICES ASSUME InputIInv, [InputNext]_inputVars PROVE InputIInv'
  OBVIOUS
<1>1. InputFlags /\ InputTimes /\ InputValues /\ inputKind \in InputKinds
  BY InputTypeParts DEF InputIInv
<1>2. ASSUME UNCHANGED <<inputKind, pressed, repeated, stepped>>,
             InputFlags', InputTimes', InputValues'
      PROVE  InputIInv'
  BY <1>1, <1>2, InputTypeParts DEF InputIInv, SwitchesOnRelease
<1>3. ASSUME NEW b \in ButtonsOf(inputKind), ButtonLoop(b) PROVE InputIInv'
  <2>1. b \in Pins
    BY <1>1, ButtonsArePins
  <2>2. CASE ButtonWaits(b)
    <3>1. InputFlags'
      BY <1>1, <1>3, <2>1, <2>2 DEF ButtonLoop, ButtonWaits, SeesPin, InputFlags
    <3>2. InputTimes'
      BY <1>1, <2>1, <2>2, QuietNowTypes DEF ButtonWaits, SeesPin, InputTimes
    <3>3. InputValues'
      BY <1>1, <1>3, <2>2 DEF ButtonLoop, ButtonWaits, valueVars, InputValues
    <3> QED
      BY <1>2, <1>3, <2>2, <3>1, <3>2, <3>3 DEF ButtonLoop, ButtonWaits
  <2>3. CASE ButtonChanges(b) \/ ButtonRepeats(b)
    BY <1>3, <2>3, ButtonActs DEF ButtonLoop
  <2> QED
    BY <1>3, <2>2, <2>3 DEF ButtonLoop
<1>4. ASSUME NEW b \in ButtonsOf(inputKind), PinChanges(b) PROVE InputIInv'
  <2>1. b \in Pins
    BY <1>1, ButtonsArePins
  <2>2. InputFlags'
    BY <1>1, <1>4, <2>1 DEF PinChanges, buttonVars, InputFlags
  <2>3. InputTimes' /\ InputValues'
    BY <1>1, <1>4 DEF PinChanges, buttonVars, valueVars, InputTimes, InputValues
  <2> QED
    BY <1>2, <1>4, <2>2, <2>3 DEF PinChanges, buttonVars
<1>5. CASE EncoderTurns
  <2>1. InputFlags' /\ InputTimes'
    BY <1>1, <1>5 DEF EncoderTurns, buttonVars, InputFlags, InputTimes
  <2>2. InputValues'
    BY <1>1, <1>5 DEF EncoderTurns, valueVars, InputValues
  <2> QED
    BY <1>2, <1>5, <2>1, <2>2 DEF EncoderTurns, buttonVars
<1>6. CASE EncoderLoop
  <2>1. InputFlags' /\ InputTimes'
    BY <1>1, <1>6 DEF EncoderLoop, buttonVars, InputFlags, InputTimes
  <2>2. InputValues'
    <3>1. turned \in Int /\ 0 \in -MaxTurns .. MaxTurns
      BY <1>1, InputAssumption DEF InputValues
    <3>2. level' \in IntMin .. IntMax
      BY <1>1, <1>6, <3>1, ChangeLevelTypes DEF EncoderLoop
    <3> QED
      BY <1>1, <1>6, <3>1, <3>2 DEF EncoderLoop, InputValues
  <2> QED
    BY <1>2, <1>6, <2>1, <2>2 DEF EncoderLoop, buttonVars
<1>7. CASE InputTick
  <2>1. InputFlags' /\ InputValues'
    BY <1>1, <1>7 DEF InputTick, valueVars, InputFlags, InputValues
  <2>2. InputTimes'
    BY <1>1, <1>7, InputAssumption DEF InputTick, InputTimes, NoRepeat
  <2> QED
    BY <1>2, <1>7, <2>1, <2>2 DEF InputTick
<1>8. CASE UNCHANGED inputVars
  <2>1. InputFlags' /\ InputTimes' /\ InputValues'
    BY <1>1, <1>8 DEF inputVars, buttonVars, valueVars, InputFlags, InputTimes, InputValues
  <2> QED
    BY <1>2, <1>8, <2>1 DEF inputVars, buttonVars
<1> QED
  BY <1>3, <1>4, <1>5, <1>6, <1>7, <1>8 DEF InputNext

\* The inputs keep their types, and a press that may switch when it ends has changed the
\* level just when it repeated, for every delay, interval and range.
THEOREM InputInvariant == InputSpec => []InputIInv
  BY InputInitIInv, InputNextPreserves, PTL DEF InputSpec

\* The types of the inputs of iotsaInput.cpp: the level stays in its range, whatever the
\* pins do.
THEOREM InputTypes == InputSpec => []InputTypeOK
<1>1. InputIInv => InputTypeOK
  BY DEF InputIInv
<1> QED
  BY <1>1, InputInvariant, PTL

\* A release switches just when the press was short (CyclingButton::_pressedCallback() and
\* UpDownButtons::_downPressedCallback()), also when a repeat fell while it was debounced.
THEOREM ReleaseSwitches == InputSpec => ShortPressSwitches
<1> DEFINE OnRelease ==
             \A b \in Pins : Released(b) =>
               switchState' = IF stepped[b] THEN switchState
                              ELSE IF inputKind = "CyclingButton" THEN ~switchState
                              ELSE switchState /\ ~(inputKind = "UpDownSwitches" /\ b = "down")
<1>1. InputIInv /\ [InputNext]_inputVars => [OnRelease]_inputVars
  <2> SUFFICES ASSUME InputIInv, InputNext, NEW c \in Pins, Released(c)
               PROVE  switchState' = IF stepped[c] THEN switchState
                                     ELSE IF inputKind = "CyclingButton" THEN ~switchState
                                     ELSE switchState
                                          /\ ~(inputKind = "UpDownSwitches" /\ c = "down")
    OBVIOUS
  <2>1. InputFlags /\ InputValues /\ inputKind \in InputKinds
    BY InputTypeParts DEF InputIInv
  <2>2. /\ pressed \in [Pins -> BOOLEAN] /\ low[c] \in BOOLEAN
        /\ repeated \in [Pins -> BOOLEAN] /\ switchState \in BOOLEAN
    BY <2>1 DEF InputFlags, InputValues
  <2>3. pressed[c] /\ ~pressed'[c] /\ pressed' # pressed
    BY DEF Released
  <2>4. PICK b \in ButtonsOf(inputKind) : ButtonLoop(b) /\ ButtonChanges(b)
    BY <2>3 DEF InputNext, ButtonLoop, ButtonRepeats, ButtonWaits, PinChanges, EncoderTurns,
                EncoderLoop, InputTick, buttonVars
  <2>5. b \in Pins
    BY <2>1, ButtonsArePins
  <2>6. pressed' = [pressed EXCEPT ![b] = low[b]]
    BY <2>4 DEF ButtonChanges
  <2>7. c = b /\ ~low[b]
    BY <2>2, <2>3, <2>5, <2>6
  <2>8. repeated'[b] = repeated[b]
    BY <2>2, <2>4, <2>5, <2>7 DEF ButtonChanges
  <2>9. ~pressed'[b] =>
          switchState' = IF inputKind = "CyclingButton"
                         THEN IF repeated'[b] THEN switchState ELSE ~switchState
                         ELSE IF inputKind = "UpDownSwitches" /\ b = "down" /\ ~repeated'[b]
                         THEN FALSE ELSE switchState
    <3>1. UNCHANGED <<inputKind, turned>> /\ ActivationCallback(b)
      BY <2>4 DEF ButtonLoop, ButtonChanges
    <3> QED
      BY <2>5, <2>6, <3>1, CallbackEffects
  <2>10. SwitchesOnRelease(b) => (stepped[b] <=> repeated[b])
    BY <2>3, <2>5, <2>7 DEF InputIInv
  <2> QED
    BY <2>2, <2>3, <2>7, <2>8, <2>9, <2>10 DEF SwitchesOnRelease
<1>2. InputSpec => [][OnRelease]_inputVars
  BY <1>1, InputInvariant, PTL DEF InputSpec
<1> QED
  BY <1>2 DEF ShortPressSwitches

--------------------------------------------------------------------------------
(* MCModules: the modules in one specification *)

LEMMA StepsOfModules ==
  [ModulesNext]_modulesVars =>
    /\ [Next]_serverVars /\ [HpsNext]_hpsVars /\ [ConnectionNext]_connVars
    /\ [InputNext]_inputVars /\ [SettingsNext]_settingsVars /\ [UsersNext]_userVars
    /\ [LogNext]_logVars /\ [OtaNext]_otaVars /\ [ToolNext]_toolVars
  BY DEF ModulesNext, modulesVars

\* A behaviour in which one module is the subject is a behaviour of every module, so that a
\* property of a module that holds of the module holds of the composition.
THEOREM ModulesImplementEach ==
  ModulesSpec => /\ Spec /\ HpsSpec /\ ConnectionSpec /\ InputSpec /\ SettingsSpec
                 /\ UsersSpec /\ LogSpec /\ OtaSpec /\ ToolSpec
<1>1. ModulesInit => /\ Init /\ HpsInit /\ ConnectionInit /\ InputInit /\ SettingsInit
                     /\ UsersInit /\ LogInit /\ OtaInit /\ ToolInit
  BY DEF ModulesInit
<1> QED
  BY <1>1, StepsOfModules, PTL
  DEF ModulesSpec, Spec, HpsSpec, ConnectionSpec, InputSpec, SettingsSpec, UsersSpec, LogSpec,
      OtaSpec, ToolSpec

\* The variables of the server, of a call over BLE, of a connection and of the inputs keep
\* their types: no step of any of them leaves the range of its deadlines, counts and levels.
THEOREM ModulesTypes == ModulesSpec => []ModulesTypeOK
  BY ModulesImplementEach, ServerTypeCorrect, HpsTypes, ConnectionTypeCorrect, InputTypes, PTL
  DEF ModulesTypeOK
================================================================================

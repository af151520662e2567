------------------------------- MODULE OtaSlots --------------------------------
(***************************************************************************)
(* The choice of the firmware to boot, as the dfu commands of the command-   *)
(* line tool (dfu.py) read and write it over a serial line: two entries, one *)
(* per sector, of which the valid one with the highest number tells the slot.*)
(* Updates over the air and the boot loader are not part of the repository.  *)
(* Slots are numbered, in the order of the partition table.                  *)
(***************************************************************************)
EXTENDS Integers, FiniteSetsExt

CONSTANTS
  NumOtaSlots, HasFactory,    \* the partition table
  MaxOtaSeq                   \* bound: numbers of entries

VARIABLES
  otadata,                    \* the two entries
  settingSlot,                \* setOtaSlot() has erased and not written yet: for a slot
  chosenSlot                  \* history: the slot that was set last, if none came after

otaVars == <<otadata, settingSlot, chosenSlot>>

OtaSlot == 0 .. NumOtaSlots - 1
NoSlot == -1
Factory == -2
Erased == [ota_seq |-> 0, crc_ok |-> FALSE, ota_state |-> "undefined"]
OtaEntry == [ota_seq : 1 .. MaxOtaSeq, crc_ok : BOOLEAN,
             ota_state : {"valid", "undefined", "aborted"}]

ASSUME OtaAssumption ==
  NumOtaSlots \in Nat \ {0} /\ HasFactory \in BOOLEAN /\ MaxOtaSeq \in Nat

Valid(entry) == entry # Erased /\ entry.crc_ok

\* What boots without a valid entry.
DefaultSlot == IF HasFactory THEN Factory ELSE 0

SlotOfSeq(seqs) == IF seqs = {} THEN DefaultSlot ELSE (Max(seqs) - 1) % NumOtaSlots

--------------------------------------------------------------------------------
(* dfu.py *)

\* getOtadata() and getActiveOtaSlot()
GetActiveOtaSlot == SlotOfSeq({otadata[i].ota_seq : i \in {j \in 1 .. 2 : Valid(otadata[j])}})

\* Variant: the sector that is written next is erased, and no other.
SetErasesSector(slot) ==
  /\ settingSlot = NoSlot
  /\ otadata' = [otadata EXCEPT ![1] = Erased]
  /\ settingSlot' = slot
  /\ chosenSlot' = NoSlot

\* setOtaSlot(), up to the end of the erasure
SetOtaSlotErases(slot) ==
  /\ settingSlot = NoSlot
  /\ otadata' = [i \in 1 .. 2 |-> Erased]
  /\ settingSlot' = slot
  /\ chosenSlot' = NoSlot

\* ... and the entry that is written in the first sector.
SetOtaSlotWrites ==
  /\ settingSlot # NoSlot
  /\ otadata' = [otadata EXCEPT ![1] = [ota_seq |-> settingSlot + 1, crc_ok |-> TRUE,
                                        ota_state |-> "valid"]]
  /\ chosenSlot' = settingSlot
  /\ settingSlot' = NoSlot

ClearOtadata ==
  /\ settingSlot = NoSlot
  /\ otadata' = [i \in 1 .. 2 |-> Erased]
  /\ chosenSlot' = NoSlot
  /\ UNCHANGED settingSlot

\* The line is unplugged.
SerialLost == settingSlot # NoSlot /\ settingSlot' = NoSlot /\ UNCHANGED <<otadata, chosenSlot>>

--------------------------------------------------------------------------------
(* The device. *)

Bootable(entry) == Valid(entry) /\ entry.ota_state # "aborted"

BootableSeqs == {otadata[i].ota_seq : i \in {j \in 1 .. 2 : Bootable(otadata[j])}}
BootedSlot == SlotOfSeq(BootableSeqs)

\* An update writes the entry that is not in use, with the next number that stands for
\* its slot; power may fail meanwhile.
UpdateInstalls(slot) ==
  LET current == Max(BootableSeqs \cup {0})
  IN /\ settingSlot = NoSlot
     /\ \E i \in 1 .. 2, n \in current + 1 .. MaxOtaSeq, ok \in BOOLEAN :
          /\ otadata[i].ota_seq # current \/ ~Bootable(otadata[i])
          /\ (n - 1) % NumOtaSlots = slot /\ n <= current + NumOtaSlots
          /\ otadata' = [otadata EXCEPT ![i] = [ota_seq |-> n, crc_ok |-> ok,
                                                ota_state |-> "undefined"]]
     /\ chosenSlot' = NoSlot
     /\ UNCHANGED settingSlot

\* The boot loader gives up on a firmware that did not come up.
BootAborts ==
  /\ settingSlot = NoSlot
  /\ \E i \in 1 .. 2 :
       /\ Bootable(otadata[i]) /\ otadata[i].ota_seq = Max(BootableSeqs)
       /\ otadata[i].ota_state = "undefined"
       /\ otadata' = [otadata EXCEPT ![i].ota_state = "aborted"]
  /\ UNCHANGED <<settingSlot, chosenSlot>>

OtaInit ==
  /\ otadata = [i \in 1 .. 2 |-> Erased]
  /\ settingSlot = NoSlot /\ chosenSlot = NoSlot

OtaNext ==
  \/ \E slot \in OtaSlot : SetOtaSlotErases(slot) \/ UpdateInstalls(slot)
  \/ SetOtaSlotWrites \/ ClearOtadata \/ SerialLost \/ BootAborts

OtaSpec == OtaInit /\ [][OtaNext]_otaVars

--------------------------------------------------------------------------------

\* A slot that was set is the one that boots, whatever updates, that may have been cut
\* short, left in either entry before; and the slot that the tool tells is the one that
\* boots, unless the boot loader gave up on a firmware, which the tool does not look at.
SetSlotBoots ==
  /\ chosenSlot # NoSlot => BootedSlot = chosenSlot
  /\ (\A i \in 1 .. 2 : otadata[i].ota_state # "aborted") => GetActiveOtaSlot = BootedSlot
================================================================================

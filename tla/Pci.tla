-------------------------------- MODULE Pci --------------------------------
(***************************************************************************)
(* pci.c: the scan of bus 0 into a table, and the lookups in the table.    *)
(*                                                                         *)
(* A slot is empty, holds a device with one function, which may answer     *)
(* under the numbers of the other functions too, or a device that says in  *)
(* its header that it has more than one, not necessarily with the numbers  *)
(* next to each other.                                                     *)
(***************************************************************************)
EXTENDS Integers, Sequences

CONSTANTS
  Slots,       \* the slots of the bus: 32
  Functions,   \* the functions of a slot: 8
  MaxDevs,     \* PCI_MAX_DEVS
  Device,      \* what a function can be
  NoDevice     \* the vendor 0xFFFF of a function that is not there

ASSUME PciAssumption ==
  /\ Slots \in Nat \ {0} /\ Functions \in Nat \ {0} /\ MaxDevs \in Nat
  /\ NoDevice \notin Device

\* A device says that it has several functions in the header of function 0.
Slot == {s \in [func : [0 .. Functions - 1 -> Device \cup {NoDevice}], multi : BOOLEAN] :
           s.multi => s.func[0] # NoDevice}

\* Mutant: a device with one function is counted as often as it answers.
AnswersAliased(slot, f) == slot.func[f] # NoDevice

\* Without function 0 the slot is left; without the bit in its header, after it.
Answers(slot, f) ==
  /\ slot.func[f] # NoDevice
  /\ f > 0 => slot.func[0] # NoDevice /\ slot.multi

ScanSlot(slot, table) ==
  LET found[f \in 0 .. Functions] ==
        IF f = 0 THEN table
        ELSE IF Answers(slot, f - 1) THEN Append(found[f - 1], slot.func[f - 1])
        ELSE found[f - 1]
  IN  found[Functions]

\* The table is looked at for its size before each slot and not before each function.
Scan(bus) ==
  LET scan[n \in 0 .. Slots] ==
        IF n = 0 THEN <<>>
        ELSE IF Len(scan[n - 1]) < MaxDevs THEN ScanSlot(bus[n], scan[n - 1])
        ELSE scan[n - 1]
  IN  scan[Slots]

Find(table, d) == \E i \in DOMAIN table : table[i] = d
FindClass(table, class) == \E d \in class : Find(table, d)
=============================================================================

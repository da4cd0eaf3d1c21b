-------------------------------- MODULE Ata --------------------------------
(***************************************************************************)
(* The two probes of the IDE drives: ata_probe_one, which identifies a     *)
(* drive, and atapi_probe (hwdetect.c), which looks for a CD only.         *)
(*                                                                         *)
(* A CD answers IDENTIFY with an error and its signature in two registers, *)
(* where it stays until the next command.  A drive may take longer than    *)
(* the 100000 reads of its status that the loops make.                     *)
(***************************************************************************)
EXTENDS Integers

CONSTANT Drive    \* the drives by their number

ASSUME AtaAssumption == Drive \subseteq Nat

VARIABLES
  present,     \* ata_devs[i].present: 0 none, 1 a disk, 2 a CD
  signature,   \* the signature of a CD can be read
  tooSlow         \* a loop gave up on a drive that was there

ataVars == <<present, signature, tooSlow>>

AtaInit ==
  /\ present = [i \in Drive |-> 0] /\ signature = [i \in Drive |-> FALSE] /\ tooSlow = FALSE

\* What ata_probe_one finds for a drive of the kind, if it answers in time.
Identified(kind) == CASE kind = "none" -> 0 [] kind = "disk" -> 1 [] kind = "cd" -> 2

\* slow: the drives that do not; a slow CD may still have shown its signature.
AtaProbe(kinds, slow) ==
  /\ slow \subseteq {i \in Drive : kinds[i] # "none"}
  /\ present' = [i \in Drive |-> IF i \in slow THEN 0 ELSE Identified(kinds[i])]
  \* IDENTIFY PACKET takes the signature away.
  /\ signature' = [i \in Drive |-> FALSE]
  /\ tooSlow' = (tooSlow \/ slow # {})

\* IDENTIFY again: one drive after the other, up to the first CD.
AtapiProbe(kinds, slow) ==
  LET cds == {i \in Drive : kinds[i] = "cd" /\ i \notin slow}
      First(i) == \A j \in cds : i <= j
  IN  /\ slow \subseteq {i \in Drive : kinds[i] # "none"}
      /\ signature' = [i \in Drive |-> signature[i] \/ (i \in cds /\ First(i))]
      /\ tooSlow' = (tooSlow \/ slow # {})
      /\ UNCHANGED present

CdFound == \E i \in Drive : signature[i]
=============================================================================

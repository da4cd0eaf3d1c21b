----------------------------- MODULE MCMachine -----------------------------
(***************************************************************************)
(* One machine of each kind that matters: they differ from Plain in one    *)
(* respect at a time.                                                      *)
(***************************************************************************)
EXTENDS Display

One(d, alias) == [func |-> [f \in 0 .. 2 |-> IF f = 0 \/ alias THEN d ELSE NoDevice], multi |-> FALSE]
Many(d, e, f) == [func |-> [i \in 0 .. 2 |-> <<d, e, f>>[i + 1]], multi |-> TRUE]
Empty == One(NoDevice, FALSE)
MCSlots ==
  {Empty, One("e1000", TRUE), One("svga", TRUE), Many("ide", NoDevice, "uhci"), Many("ide", "uhci", "svga")}
Buses == [1 .. Slots -> MCSlots]

PlainMachine ==
  [bus |-> <<One("svga", TRUE), One("e1000", FALSE), Many("ide", NoDevice, "uhci")>>,
   drives |-> <<"disk", "cd">>, answers |-> {"fpu", "acpi"},
   frame |-> "fits", mmio |-> TRUE, link |-> TRUE,
   svga_io |-> TRUE, svga_id |-> TRUE, svga_fifo |-> TRUE, max_w |-> 9]

MCMode == <<4, 3, 2>>
MCStep == {-2, 2}

MCMachine ==
  {[PlainMachine EXCEPT !.bus = b] : b \in Buses}
    \cup {[PlainMachine EXCEPT !.drives = d] : d \in [Drive -> {"none", "disk", "cd"}]}
    \cup {[PlainMachine EXCEPT !.svga_io = a, !.svga_id = b, !.svga_fifo = c, !.mmio = d, !.link = e] :
            a, b, c, d, e \in BOOLEAN}
    \cup {[PlainMachine EXCEPT !.frame = "none", !.answers = f] : f \in SUBSET {"apic", "hypervisor"}}
    \cup {[PlainMachine EXCEPT !.max_w = w] : w \in {0, 3}}
=============================================================================

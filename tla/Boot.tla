-------------------------------- MODULE Boot --------------------------------
(***************************************************************************)
(* From kmain to the shell: the drivers are started one after the other    *)
(* (kernel.c), what the machine has is detected (pci.c, ata.c,             *)
(* hwdetect.c), and the outcome is kept in the registry that the command   *)
(* `drivers` lists (drv.c).                                                *)
(***************************************************************************)
EXTENDS Pci, Ata, FiniteSets

CONSTANT Machine   \* the machines to start on

ASSUME MachineAssumption ==
  /\ \A m \in Machine : m.bus \in [1 .. Slots -> Slot] /\ m.drives \in [Drive -> {"none", "disk", "cd"}]
  /\ NoDevice \notin {"e1000", "svga", "ide", "uhci"}

VARIABLES
  machine,      \* the hardware; it does not change
  pc,           \* the step of kmain
  sti,          \* interrupts are enabled, so the ticks are counted
  table,        \* pci_devs
  status,       \* the registry: -1 not started, 0 ready, 1 failed, 2 not there
  gui_active, svga_present, fifo_ok

bootVars == <<machine, pc, sti, table, ataVars, status, gui_active, svga_present, fifo_ok>>

Driver ==
  {"serial", "vga", "pic", "pit", "rtc", "keyboard", "mouse", "ata", "pci", "svga",
   "e1000", "net", "ramfs", "fbcon", "pcspk", "font", "cc", "gui_wm", "cpu", "fpu",
   "apic", "tsc", "crypto", "memprot", "acpi", "hpet", "hypervisor", "vmware_bd",
   "fw_cfg", "debugcon", "smbios", "com1", "lpt", "floppy", "cmos_mem", "atapi",
   "ide_ctrl", "ahci", "usb_uhci", "usb_ohci", "usb_ehci", "usb_xhci", "vga_pci",
   "isa_bridge", "virtio_blk", "nic2", "audio", "dma", "a20"}

\* drv_ready, for drivers that came up.
Ready(s, drivers) == [d \in Driver |-> IF d \in drivers THEN 0 ELSE s[d]]
---------------------------------------------------------------------------
(* hwdetect_init *)

\* The drivers of cards, and which functions of the bus are looked for.
Cards ==
  [ide_ctrl |-> {"ide"}, ahci |-> {"ahci"}, usb_uhci |-> {"uhci"}, usb_ohci |-> {"ohci"},
   usb_ehci |-> {"ehci"}, usb_xhci |-> {"xhci"}, vga_pci |-> {"svga", "vga"}, isa_bridge |-> {"isa"},
   virtio_blk |-> {"virtio_blk"}, nic2 |-> {"rtl8139", "pcnet", "virtio_net"}, audio |-> {"ac97", "hda"}]

Always == {"cpu", "dma", "a20", "cmos_mem"}

\* The others ask the processor, the firmware or a port; machine.answers has those that answer.
Probed ==
  {"fpu", "apic", "tsc", "crypto", "memprot", "acpi", "hpet", "hypervisor", "vmware_bd", "fw_cfg",
   "debugcon", "smbios", "com1", "lpt", "floppy"}

\* What each test says, by the driver it is for.
Detected ==
  [d \in Always \cup Probed \cup DOMAIN Cards \cup {"atapi"} |->
     CASE d \in Always -> TRUE
       [] d \in Probed -> d \in machine.answers
       [] d \in DOMAIN Cards -> FindClass(table, Cards[d])
       [] d = "atapi" -> CdFound']

\* mark: there or not there.
Marked(s, found) ==
  [d \in Driver |-> IF d \in DOMAIN found THEN IF found[d] THEN 0 ELSE 2 ELSE s[d]]
---------------------------------------------------------------------------
(* kmain, step by step *)

\* Mutant: the hardware is looked for before the bus is scanned.
OrderDetectFirst ==
  <<"start", "gui", "fs", "sti", "ata", "hwdetect", "pci", "net", "svga", "mouse", "shell">>

Order ==
  <<"start", "gui", "fs", "sti", "ata", "pci", "hwdetect", "net", "svga", "mouse", "shell">>

At(step) == pc \in 1 .. Len(Order) /\ Order[pc] = step
Booted == At("shell")

\* Serial line, interrupt table, keyboard and timer.
StartUp ==
  /\ At("start")
  /\ status' = Ready(status, {"serial", "keyboard", "pic", "pit", "rtc", "font", "cc"})
  /\ UNCHANGED <<sti, table, ataVars, gui_active, svga_present, fifo_ok>>

\* gui_init: a frame buffer of 32 bits and at least 640 by 400 from the boot loader.
Gui ==
  /\ At("gui")
  /\ gui_active' = (machine.frame = "fits")
  /\ status' = Ready(status, IF gui_active' THEN {"fbcon", "gui_wm"} ELSE {"vga"})
  /\ UNCHANGED <<sti, table, ataVars, svga_present, fifo_ok>>

Fs ==
  /\ At("fs") /\ status' = Ready(status, {"ramfs"})
  /\ UNCHANGED <<sti, table, ataVars, gui_active, svga_present, fifo_ok>>

Sti ==
  /\ At("sti") /\ sti' = TRUE
  /\ UNCHANGED <<table, ataVars, status, gui_active, svga_present, fifo_ok>>

AtaStep ==
  /\ At("ata") /\ \E slow \in SUBSET Drive : AtaProbe(machine.drives, slow)
  /\ status' = Ready(status, {"ata"})
  /\ UNCHANGED <<sti, table, gui_active, svga_present, fifo_ok>>

PciStep ==
  /\ At("pci") /\ table' = Scan(machine.bus)
  /\ status' = Ready(status, {"pci"})
  /\ UNCHANGED <<sti, ataVars, gui_active, svga_present, fifo_ok>>

HwDetect ==
  /\ At("hwdetect") /\ \E slow \in SUBSET Drive : AtapiProbe(machine.drives, slow)
  /\ status' = Marked(status, Detected)
  /\ UNCHANGED <<sti, table, gui_active, svga_present, fifo_ok>>

\* e1000_init wants its registers in memory and a link.
NetStep ==
  /\ At("net")
  /\ LET s == IF ~Find(table, "e1000") THEN 2
              ELSE IF machine.mmio /\ machine.link THEN 0 ELSE 1
     IN  status' = [status EXCEPT !["e1000"] = s, !["net"] = s]
  /\ UNCHANGED <<sti, table, ataVars, gui_active, svga_present, fifo_ok>>

\* svga_init: registers in I/O space, the handshake, and the command ring, without which
\* it works too.
Svga(sync) ==
  /\ At("svga")
  /\ LET there == gui_active /\ Find(table, "svga")
         up == there /\ machine.svga_io /\ machine.svga_id
     IN  /\ svga_present' = up /\ fifo_ok' = (up /\ machine.svga_fifo /\ sync)
         /\ status' = IF ~gui_active THEN status
                      ELSE [status EXCEPT !["svga"] = IF ~there THEN 2 ELSE IF up THEN 0 ELSE 1]
  /\ UNCHANGED <<sti, table, ataVars, gui_active>>

\* mouse_init (module Ps2) waits for ticks; without windows there is no mouse.  It is one step
\* here: its loop over the bytes that wait (mouse.c:152) ends when the devices are quiet.
Mouse ==
  /\ At("mouse") /\ (gui_active => sti)
  /\ status' = Ready(status, IF gui_active THEN {"mouse", "pcspk"} ELSE {"vga", "pcspk"})
  /\ UNCHANGED <<sti, table, ataVars, gui_active, svga_present, fifo_ok>>

BootStep ==
  /\ ~Booted /\ pc' = pc + 1 /\ UNCHANGED machine
  /\ \/ StartUp \/ Gui \/ Fs \/ Sti \/ AtaStep \/ PciStep \/ HwDetect \/ NetStep
     \/ \E sync \in BOOLEAN : Svga(sync)
     \/ Mouse

BootInit ==
  /\ machine \in Machine /\ pc = 1 /\ sti = FALSE /\ table = <<>> /\ AtaInit
  /\ status = [d \in Driver |-> -1]
  /\ gui_active = FALSE /\ svga_present = FALSE /\ fifo_ok = FALSE
---------------------------------------------------------------------------
\* What is on the bus, and what must be told of it if the table can hold it.
OnBus(d) ==
  {at \in (1 .. Slots) \X (0 .. Functions - 1) :
     LET slot == machine.bus[at[1]]
     IN  slot.func[at[2]] = d /\ (at[2] = 0 \/ slot.multi)}
FitsTable == Cardinality(UNION {OnBus(d) : d \in Device}) <= MaxDevs

\* Every function on the bus is in the table, once, though a device with one function may
\* answer under the other numbers and one with several leave numbers out (pci.c:83-98).
TableExact ==
  Booted /\ FitsTable =>
    \A d \in Device : Cardinality({i \in DOMAIN table : table[i] = d}) = Cardinality(OnBus(d))

\* When the shell starts, what the registry says of the cards and drives is what the
\* machine has, though it is told in several steps that look at what earlier ones left:
\* the table, and the drives after a command (hwdetect.c:238 and 363).  Only a drive that
\* was too slow for a loop may be missed.
RegistryTrue ==
  Booted =>
    /\ FitsTable =>
         /\ \A d \in {"e1000", "net"} : status[d] = 2 <=> OnBus("e1000") = {}
         /\ status["e1000"] = 0 => machine.link
         /\ gui_active => (status["svga"] = 2 <=> OnBus("svga") = {})
         /\ status["ide_ctrl"] = 0 <=> OnBus("ide") # {}
         /\ status["usb_uhci"] = 0 <=> OnBus("uhci") # {}
    /\ ~tooSlow => (status["atapi"] = 0 <=> \E i \in Drive : present[i] = 2)
    /\ status["svga"] = 0 <=> svga_present
    /\ {d \in Driver : status[d] = -1} \subseteq
         IF gui_active THEN {"vga"} ELSE {"svga", "mouse", "fbcon", "gui_wm"}
=============================================================================

------------------------------- MODULE E1000 -------------------------------
(***************************************************************************)
(* The driver of the 82540EM (e1000.c) and the card: two rings of          *)
(* descriptors in memory, each with an index the driver writes (the tail)  *)
(* and one the card writes (the head).  Nothing is signalled by            *)
(* interrupts; the driver looks at the "descriptor done" bits.             *)
(*                                                                         *)
(* All transmit descriptors point to one static buffer.  Both waits of     *)
(* e1000_send are loops of 100000 reads, which a card may outlast; the     *)
(* first of them ends in the same stores whether a descriptor came free or *)
(* not, so only the second is a step.                                      *)
(***************************************************************************)
EXTENDS Integers, Sequences

CONSTANTS
  Frame,      \* the frames of the network
  Damaged, None,
  RX_N, TX_N  \* descriptors in each ring

ASSUME CardAssumption ==
  RX_N \in Nat \ {0, 1} /\ TX_N \in Nat \ {0, 1} /\ Damaged \notin Frame /\ None \notin Frame

RxIndex == 0 .. RX_N - 1
TxIndex == 0 .. TX_N - 1

VARIABLES
  rxBuf,            \* rx_bufs and the error bits of rx_ring, None once read
  rxDone,           \* RX_STA_DD
  rxCur, rdh, rdt,
  txBuf,            \* tx_buf, None once no descriptor needs it
  meant,            \* the frame a transmit descriptor was filled in for, None once sent
  txDone,           \* TX_STA_DD
  txCur, tdh, tdt,
  sending,          \* e1000_send waits for the descriptor before txCur
  late,             \* some e1000_send has given up waiting
  nic,              \* what the PCI scan and the registers say of the card
  ok                \* e1000_ok

rxVars == <<rxBuf, rxDone, rxCur, rdh, rdt>>
txVars == <<txBuf, meant, txDone, txCur, tdh, tdt, sending, late>>
vars == <<rxVars, txVars, nic, ok>>

Card == [found : BOOLEAN, bar : {"none", "ports", "memory"}, link : BOOLEAN]

RxNext(i) == (i + 1) % RX_N
TxNext(i) == (i + 1) % TX_N

\* e1000_init finds the card, its registers in memory and a link, or leaves e1000_ok
\* at 0.  The rings are as it leaves them from the start: nothing reads them before.
Start == ~ok /\ nic.found /\ nic.bar = "memory" /\ nic.link /\ ok' = TRUE /\ UNCHANGED <<rxVars, txVars, nic>>

RxInit ==
  /\ rxBuf = [i \in RxIndex |-> None] /\ rxDone = [i \in RxIndex |-> FALSE]
  /\ rxCur = 0 /\ rdh = 0 /\ rdt = RX_N - 1

TxInit ==
  /\ txBuf = None /\ meant = [i \in TxIndex |-> None]
  /\ txDone = [i \in TxIndex |-> FALSE]
  /\ txCur = 0 /\ tdh = 0 /\ tdt = 0 /\ sending = FALSE /\ late = FALSE

\* The card: a frame that finds no descriptor between head and tail is lost.
Receive(f) ==
  /\ ok
  /\ IF rdh = rdt THEN UNCHANGED <<rxBuf, rxDone, rdh>>
     ELSE /\ rxBuf' = [rxBuf EXCEPT ![rdh] = f]
          /\ rxDone' = [rxDone EXCEPT ![rdh] = TRUE]
          /\ rdh' = RxNext(rdh)
  /\ UNCHANGED <<rxCur, rdt, txVars, nic, ok>>

\* Mutant: the tail is moved past the descriptor that was read.
RecvTailPast ==
  /\ ok /\ rxDone[rxCur]
  /\ rxDone' = [rxDone EXCEPT ![rxCur] = FALSE] /\ rxBuf' = [rxBuf EXCEPT ![rxCur] = None]
  /\ rdt' = RxNext(rxCur) /\ rxCur' = RxNext(rxCur)
  /\ UNCHANGED <<rdh, txVars, nic, ok>>

\* e1000_recv with a frame in the ring: a descriptor with errors is given back as any other.
Recv ==
  /\ ok /\ rxDone[rxCur]
  /\ rxDone' = [rxDone EXCEPT ![rxCur] = FALSE] /\ rxBuf' = [rxBuf EXCEPT ![rxCur] = None]
  /\ rdt' = rxCur /\ rxCur' = RxNext(rxCur)
  /\ UNCHANGED <<rdh, txVars, nic, ok>>

\* Mutant: the descriptor keeps the status of its last use.
SendKeepsStatus(f) ==
  /\ ok /\ ~sending
  /\ txBuf' = f /\ meant' = [meant EXCEPT ![txCur] = f]
  /\ txCur' = TxNext(txCur) /\ tdt' = TxNext(txCur)
  /\ sending' = TRUE
  /\ UNCHANGED <<txDone, tdh, late, rxVars, nic, ok>>

\* e1000_send up to the store to the tail register: the card goes from there on.
Send(f) ==
  /\ ok /\ ~sending
  /\ txBuf' = f /\ meant' = [meant EXCEPT ![txCur] = f]
  /\ txDone' = [txDone EXCEPT ![txCur] = FALSE]
  /\ txCur' = TxNext(txCur) /\ tdt' = TxNext(txCur)
  /\ sending' = TRUE
  /\ UNCHANGED <<tdh, late, rxVars, nic, ok>>

Sent(i) == TxNext(i) = txCur

\* The second wait of e1000_send, which ends with 0 or with -1.
SendReturns ==
  /\ sending /\ sending' = FALSE
  /\ late' = (late \/ \E i \in TxIndex : Sent(i) /\ ~txDone[i])
  /\ UNCHANGED <<txBuf, meant, txDone, txCur, tdh, tdt, rxVars, nic, ok>>

\* The card reads the buffer of the descriptor at the head and reports it done.
Transmit ==
  /\ tdh # tdt
  /\ meant' = [meant EXCEPT ![tdh] = None]
  /\ txBuf' = IF TxNext(tdh) = tdt THEN None ELSE txBuf
  /\ txDone' = [txDone EXCEPT ![tdh] = TRUE] /\ tdh' = TxNext(tdh)
  /\ UNCHANGED <<txCur, tdt, sending, late, rxVars, nic, ok>>

Init == RxInit /\ TxInit /\ nic \in Card /\ ok = FALSE

Next == \/ Start \/ Recv \/ SendReturns \/ Transmit
        \/ \E f \in Frame : Send(f) \/ Receive(f)
        \/ Receive(Damaged)

Spec == Init /\ [][Next]_vars
---------------------------------------------------------------------------
\* The receive ring is the queue of FrameQueue: no frame is read twice or written
\* over before it is read, and the first to come is the first to be read.
Waiting == (rdh - rxCur) % RX_N
RxQueue == INSTANCE FrameQueue WITH
  Frame    <- Frame \cup {Damaged},
  queue    <- [i \in 1 .. Waiting |-> rxBuf[(rxCur + i - 1) % RX_N]],
  Capacity <- RX_N - 1
RxQueueSpec == RxQueue!Spec

\* As long as no send has given up, the card finds in the shared buffer the frame
\* its descriptor was filled in for (e1000.c:223, one tx_buf for all descriptors).
InFlight == {i \in TxIndex : (i - tdh) % TX_N < (tdt - tdh) % TX_N}
FrameIntact == ~late => \A i \in InFlight : meant[i] = txBuf
=============================================================================

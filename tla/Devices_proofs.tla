--------------------------- MODULE Devices_proofs ---------------------------
(***************************************************************************)
(* Theorems about the devices the desktop drives: the network card         *)
(* (E1000), what is found when the system starts (Boot over Pci and Ata)   *)
(* and the resolution of the screen after it (Display), what is drawn and  *)
(* how it comes to be seen (Screen over SvgaFifo).  The three share no     *)
(* state and no theorem speaks of two of them.                             *)
(*                                                                         *)
(* The card.  For every number of descriptors, the receive ring is the     *)
(* queue of FrameQueue, and a frame in the shared transmit buffer is not   *)
(* written over while a descriptor that needs it is in flight and no send  *)
(* has given up.  What has to be known: the tail of the receive ring is    *)
(* always the descriptor read last, and the "descriptor done" bits are     *)
(* those of the descriptors between the one to be read next and the head;  *)
(* of the transmit ring, that at most one descriptor is in flight, the one *)
(* e1000_send waits for, and none once its bit is set.                     *)
(*                                                                         *)
(* The start.  The table of the PCI devices is told, one entry for each,   *)
(* of the functions that answer for themselves, by induction over the      *)
(* functions of a slot and over the slots; the counts follow, because the  *)
(* entries and the functions correspond one to one.  The registry is right *)
(* because each step leaves what the steps after it look at, and nothing   *)
(* that was told of a driver is taken back.                                *)
(*                                                                         *)
(* The screen.  Every cell that is stale or unseen is accounted for at     *)
(* each step of a frame: by the dirty rectangle until gui_draw has taken   *)
(* it, by the clip rectangle until it is presented, then by the update in  *)
(* the ring.  The ring is the queue of FrameQueue: F_NEXT and F_STOP are   *)
(* multiples of the size of a command, and the ring holds a whole number   *)
(* of them, so that a command never has to start over.                     *)
(***************************************************************************)
EXTENDS E1000, Display, Screen, FiniteSetTheorems, CommonLemmas

\* The receive ring: rxCur is where the next frame is read, rdt the one before.
RxTyped ==
  /\ rxCur \in RxIndex /\ rdh \in RxIndex /\ rdt \in RxIndex
  /\ DOMAIN rxBuf = RxIndex /\ rxDone \in [RxIndex -> BOOLEAN]
RxFramed ==
  /\ RxNext(rdt) = rxCur
  /\ \A i \in RxIndex : rxDone[i] <=> RingDist(RX_N, i, rxCur) < RingDist(RX_N, rdh, rxCur)

TxTyped ==
  /\ txCur \in TxIndex /\ tdh \in TxIndex /\ tdt \in TxIndex
  /\ DOMAIN meant = TxIndex /\ txDone \in [TxIndex -> BOOLEAN]
  /\ sending \in BOOLEAN /\ late \in BOOLEAN

\* As long as no send has given up, at most the descriptor of the last send is in
\* flight, and it is done once the head has passed it.
OneInFlight ==
  /\ tdt = txCur
  /\ ~late => \/ tdh = tdt
              \/ /\ sending /\ TxNext(tdh) = tdt
                 /\ ~txDone[tdh] /\ meant[tdh] = txBuf

IInv == RxTyped /\ RxFramed /\ TxTyped /\ OneInFlight
---------------------------------------------------------------------------
(* The rings of the card are rings of RX_N and of TX_N cells. *)

LEMMA RxBridge ==
  /\ RX_N \in Nat \ {0, 1} /\ RX_N \in Nat \ {0} /\ RxIndex = RingIndex(RX_N)
  /\ \A i : RxNext(i) = RingNext(RX_N, i)
  /\ Waiting = RingDist(RX_N, rdh, rxCur)
BY CardAssumption DEF RxIndex, RxNext, Waiting, RingIndex, RingNext, RingDist

LEMMA TxBridge ==
  /\ TX_N \in Nat \ {0, 1} /\ TX_N \in Nat \ {0} /\ TxIndex = RingIndex(TX_N)
  /\ \A i : TxNext(i) = RingNext(TX_N, i)
BY CardAssumption DEF TxIndex, TxNext, RingIndex, RingNext
---------------------------------------------------------------------------
(* The receive ring. *)

LEMMA RxInitOK == RxInit => RxTyped /\ RxFramed
<1> SUFFICES ASSUME RxInit PROVE RxTyped /\ RxFramed
  OBVIOUS
<1>1. RxTyped
  BY CardAssumption DEF RxInit, RxTyped, RxIndex
<1>2. rdt \in RingIndex(RX_N) /\ rdh \in RingIndex(RX_N) /\ rdh = rxCur /\ rdt + 1 = RX_N /\ rxCur = 0
  BY RxBridge, <1>1 DEF RxInit, RxTyped, RingIndex
<1>3. RxNext(rdt) = rxCur
  BY <1>2, RxBridge, RingNextIs
<1>4. RingDist(RX_N, rdh, rxCur) = 0
  BY <1>2, RxBridge, RingDistIs
<1>5. \A i \in RxIndex : RingDist(RX_N, i, rxCur) \in Nat
  BY <1>2, RxBridge, RingDistIs
<1>6. \A i \in RxIndex : ~rxDone[i]
  BY DEF RxInit
<1> QED BY <1>1, <1>3, <1>4, <1>5, <1>6 DEF RxFramed

\* A frame that finds a descriptor is one more behind those that wait.
LEMMA ReceiveRoom ==
  ASSUME RxTyped, RxFramed, rdh # rdt
  PROVE  RxNext(rdh) # rxCur /\ RxNext(rdh) \in RxIndex
<1>1. /\ RxNext(rdh) = (IF rdh + 1 = RX_N THEN 0 ELSE rdh + 1) /\ RxNext(rdh) \in RxIndex
      /\ RxNext(rdt) = (IF rdt + 1 = RX_N THEN 0 ELSE rdt + 1)
  BY RxBridge, RingNextIs DEF RxTyped
<1> QED BY <1>1 DEF RxTyped, RxFramed, RxIndex

LEMMA ReceiveKeeps ==
  ASSUME RxTyped, RxFramed, NEW f, Receive(f)
  PROVE  RxTyped' /\ RxFramed'
<1>1. CASE rdh = rdt
  BY <1>1 DEF Receive, RxTyped, RxFramed
<1>2. CASE rdh # rdt
  <2>1. /\ rxBuf' = [rxBuf EXCEPT ![rdh] = f] /\ rxDone' = [rxDone EXCEPT ![rdh] = TRUE]
        /\ rdh' = RxNext(rdh) /\ rxCur' = rxCur /\ rdt' = rdt
    BY <1>2 DEF Receive
  <2>2. RxTyped'
    BY <1>2, <2>1, ReceiveRoom DEF RxTyped
  <2>3. RingDist(RX_N, rdh', rxCur) = RingDist(RX_N, rdh, rxCur) + 1
    <3>1. rdh \in RingIndex(RX_N) /\ rxCur \in RingIndex(RX_N) /\ RingNext(RX_N, rdh) # rxCur
      BY <1>2, ReceiveRoom, RxBridge DEF RxTyped
    <3>2. RingDist(RX_N, RingNext(RX_N, rdh), rxCur) = RingDist(RX_N, rdh, rxCur) + 1
      BY <3>1, RxBridge, RingFullIs
    <3> QED BY <2>1, <3>2, RxBridge
  <2>4. ASSUME NEW i \in RxIndex
        PROVE  rxDone'[i] <=> RingDist(RX_N, i, rxCur) < RingDist(RX_N, rdh', rxCur)
    <3>1. /\ RingDist(RX_N, i, rxCur) = (IF i >= rxCur THEN i - rxCur ELSE i - rxCur + RX_N)
          /\ RingDist(RX_N, rdh, rxCur) = (IF rdh >= rxCur THEN rdh - rxCur ELSE rdh - rxCur + RX_N)
      BY RxBridge, RingDistIs DEF RxTyped
    <3>2. RingDist(RX_N, i, rxCur) = RingDist(RX_N, rdh, rxCur) <=> i = rdh
      BY <3>1, RxBridge DEF RxTyped, RxIndex
    <3>3. RingDist(RX_N, i, rxCur) \in Int /\ RingDist(RX_N, rdh, rxCur) \in Int
      BY <3>1, RxBridge DEF RxTyped, RxIndex
    <3>4. rxDone'[i] <=> i = rdh \/ rxDone[i]
      BY <2>1 DEF RxTyped
    <3>5. rxDone[i] <=> RingDist(RX_N, i, rxCur) < RingDist(RX_N, rdh, rxCur)
      BY DEF RxFramed
    <3> QED BY <2>3, <3>2, <3>3, <3>4, <3>5
  <2> QED BY <2>1, <2>2, <2>4 DEF RxFramed
<1> QED BY <1>1, <1>2

\* A descriptor that is done is not the head.
LEMMA RecvFinds == ASSUME RxTyped, RxFramed, rxDone[rxCur] PROVE rdh # rxCur
<1>1. RingDist(RX_N, rxCur, rxCur) < RingDist(RX_N, rdh, rxCur)
  BY DEF RxTyped, RxFramed
<1>2. RingDist(RX_N, rxCur, rxCur) = 0
  BY RxBridge, RingDistIs DEF RxTyped
<1> QED BY <1>1, <1>2

LEMMA RecvKeeps ==
  ASSUME RxTyped, RxFramed, Recv
  PROVE  RxTyped' /\ RxFramed'
<1> DEFINE u == RxNext(rxCur)
<1>1. /\ rxDone' = [rxDone EXCEPT ![rxCur] = FALSE] /\ rxBuf' = [rxBuf EXCEPT ![rxCur] = None]
      /\ rdt' = rxCur /\ rxCur' = u /\ rdh' = rdh /\ rdh # rxCur
  BY RecvFinds DEF Recv
<1>2. u = (IF rxCur + 1 = RX_N THEN 0 ELSE rxCur + 1) /\ u \in RxIndex
  BY RxBridge, RingNextIs DEF RxTyped
<1>3. RxTyped'
  BY <1>1, <1>2 DEF RxTyped
<1>4. ASSUME NEW i \in RxIndex
      PROVE  RingDist(RX_N, i, u) = IF i = rxCur THEN RX_N - 1 ELSE RingDist(RX_N, i, rxCur) - 1
  <2>1. /\ RingDist(RX_N, i, rxCur) = (IF i >= rxCur THEN i - rxCur ELSE i - rxCur + RX_N)
        /\ RingDist(RX_N, i, u) = (IF i >= u THEN i - u ELSE i - u + RX_N)
    BY <1>2, RxBridge, RingDistIs DEF RxTyped
  <2> HIDE DEF u
  <2> QED BY <1>2, <2>1, RxBridge DEF RxTyped, RxIndex
<1>5. ASSUME NEW i \in RxIndex
      PROVE  rxDone'[i] <=> RingDist(RX_N, i, u) < RingDist(RX_N, rdh, u)
  <2>1. RingDist(RX_N, rdh, u) = RingDist(RX_N, rdh, rxCur) - 1
    BY <1>1, <1>4 DEF RxTyped
  <2>2. /\ RingDist(RX_N, i, rxCur) \in Int
        /\ RingDist(RX_N, rdh, rxCur) \in Int /\ RingDist(RX_N, rdh, rxCur) < RX_N
    <3>1. RingDist(RX_N, i, rxCur) \in RxIndex /\ RingDist(RX_N, rdh, rxCur) \in RxIndex
      BY RxBridge, RingDistIs DEF RxTyped
    <3> QED BY <3>1, RxBridge DEF RxIndex
  <2>3. rxDone'[i] <=> i # rxCur /\ rxDone[i]
    BY <1>1 DEF RxTyped
  <2>4. rxDone[i] <=> RingDist(RX_N, i, rxCur) < RingDist(RX_N, rdh, rxCur)
    BY DEF RxFramed
  <2> HIDE DEF u
  <2>5. CASE i = rxCur
    BY <1>4, <2>1, <2>2, <2>3, <2>5, RxBridge
  <2>6. CASE i # rxCur
    BY <1>4, <2>1, <2>2, <2>3, <2>4, <2>6
  <2> QED BY <2>5, <2>6
<1> QED BY <1>1, <1>3, <1>5 DEF RxFramed
---------------------------------------------------------------------------
(* The transmit ring. *)

LEMMA TxInitOK == TxInit => TxTyped /\ OneInFlight
<1>1. 0 \in TxIndex
  BY TxBridge DEF TxIndex
<1> QED BY <1>1 DEF TxInit, TxTyped, OneInFlight

LEMMA NextInTx == \A i \in TxIndex : TxNext(i) \in TxIndex
BY TxBridge, RingNextIs

\* A send without another one in it finds nothing in flight, or one has given up.
LEMMA SendKeeps ==
  ASSUME TxTyped, OneInFlight, NEW f, Send(f)
  PROVE  TxTyped' /\ OneInFlight'
<1>1. TxTyped'
  BY NextInTx DEF Send, TxTyped
<1>2. tdt' = txCur' /\ late' = late
  BY DEF Send, OneInFlight
<1>3. CASE late
  BY <1>1, <1>2, <1>3 DEF OneInFlight
<1>4. CASE ~late
  <2>1. tdh = tdt /\ tdt = txCur /\ tdh' = txCur /\ txCur \in TxIndex
    BY <1>4 DEF Send, OneInFlight, TxTyped
  <2>2. sending' /\ TxNext(tdh') = tdt' /\ txBuf' = f
    BY <2>1 DEF Send
  <2>3. ~txDone'[tdh'] /\ meant'[tdh'] = f
    BY <2>1 DEF Send, TxTyped
  <2> QED BY <1>1, <1>2, <2>2, <2>3 DEF OneInFlight
<1> QED BY <1>3, <1>4

LEMMA ReturnKeeps ==
  ASSUME TxTyped, OneInFlight, SendReturns
  PROVE  TxTyped' /\ OneInFlight'
<1>1. TxTyped'
  BY DEF SendReturns, TxTyped
<1>2. UNCHANGED <<txBuf, meant, txDone, txCur, tdh, tdt>>
  BY DEF SendReturns
<1>3. CASE late \/ tdh = tdt
  BY <1>1, <1>2, <1>3 DEF SendReturns, OneInFlight
<1>4. CASE ~late /\ tdh # tdt
  <2>1. TxNext(tdh) = txCur /\ ~txDone[tdh] /\ tdh \in TxIndex
    BY <1>4 DEF OneInFlight, TxTyped
  <2>2. late'
    BY <2>1 DEF SendReturns, Sent
  <2> QED BY <1>1, <1>2, <2>2 DEF OneInFlight
<1> QED BY <1>3, <1>4

LEMMA TransmitKeeps ==
  ASSUME TxTyped, OneInFlight, Transmit
  PROVE  TxTyped' /\ OneInFlight'
<1>1. TxTyped'
  BY NextInTx DEF Transmit, TxTyped
<1>2. ~late => tdh' = tdt'
  BY DEF Transmit, OneInFlight
<1> QED BY <1>1, <1>2 DEF Transmit, OneInFlight
---------------------------------------------------------------------------
(* The invariant. *)

LEMMA InitIInv == Init => IInv
BY RxInitOK, TxInitOK DEF Init, IInv

LEMMA NextKeeps == IInv /\ [Next]_vars => IInv'
<1> SUFFICES ASSUME IInv, [Next]_vars PROVE IInv'
  OBVIOUS
<1>0. RxTyped /\ RxFramed /\ TxTyped /\ OneInFlight
  BY DEF IInv
<1>1. UNCHANGED rxVars => RxTyped' /\ RxFramed'
  BY <1>0 DEF rxVars, RxTyped, RxFramed
<1>2. UNCHANGED txVars => TxTyped' /\ OneInFlight'
  BY <1>0 DEF txVars, TxTyped, OneInFlight
<1>3. CASE Start
  BY <1>1, <1>2, <1>3 DEF Start, IInv
<1>4. CASE Recv
  BY <1>0, <1>2, <1>4, RecvKeeps DEF Recv, IInv
<1>5. CASE SendReturns
  BY <1>0, <1>1, <1>5, ReturnKeeps DEF SendReturns, IInv
<1>6. CASE Transmit
  <2>1. UNCHANGED rxVars
    BY <1>6 DEF Transmit
  <2> QED BY <1>0, <1>1, <1>6, <2>1, TransmitKeeps DEF IInv
<1>7. ASSUME NEW f \in Frame, Send(f) PROVE IInv'
  <2>1. UNCHANGED rxVars
    BY <1>7 DEF Send
  <2> QED BY <1>0, <1>1, <1>7, <2>1, SendKeeps DEF IInv
<1>8. ASSUME NEW f, Receive(f) PROVE IInv'
  <2>1. UNCHANGED txVars
    BY <1>8 DEF Receive
  <2> QED BY <1>0, <1>2, <1>8, <2>1, ReceiveKeeps DEF IInv
<1>9. CASE UNCHANGED vars
  BY <1>1, <1>2, <1>9 DEF vars, IInv
<1> QED BY <1>3, <1>4, <1>5, <1>6, <1>7, <1>8, <1>9 DEF Next

LEMMA SpecIInv == Spec => []IInv
BY InitIInv, NextKeeps, PTL DEF Spec

\* With one descriptor in flight at most, what is in flight is what the buffer holds.
LEMMA IntactByInv == IInv => FrameIntact
<1> SUFFICES ASSUME IInv, ~late, NEW i \in InFlight PROVE meant[i] = txBuf
  BY DEF FrameIntact
<1>1. tdh \in TxIndex /\ tdt \in TxIndex /\ i \in TxIndex
  BY DEF IInv, TxTyped, InFlight
<1>2. RingDist(TX_N, i, tdh) < RingDist(TX_N, tdt, tdh)
  BY DEF InFlight, RingDist
<1>3. /\ RingDist(TX_N, i, tdh) = (IF i >= tdh THEN i - tdh ELSE i - tdh + TX_N)
      /\ RingDist(TX_N, tdt, tdh) = (IF tdt >= tdh THEN tdt - tdh ELSE tdt - tdh + TX_N)
  BY <1>1, TxBridge, RingDistIs
<1>4. CASE tdh = tdt
  BY <1>1, <1>2, <1>3, <1>4, TxBridge DEF TxIndex
<1>5. CASE TxNext(tdh) = tdt /\ meant[tdh] = txBuf
  <2>1. TxNext(tdh) = IF tdh + 1 = TX_N THEN 0 ELSE tdh + 1
    BY <1>1, TxBridge, RingNextIs
  <2>2. i = tdh
    BY <1>1, <1>2, <1>3, <1>5, <2>1, TxBridge DEF TxIndex
  <2> QED BY <1>5, <2>2
<1> QED BY <1>4, <1>5 DEF IInv, OneInFlight

\* For every number of descriptors: while no e1000_send has given up, the card
\* finds in the one transmit buffer the frame each descriptor was filled in for.
THEOREM Intact == Spec => []FrameIntact
BY SpecIInv, IntactByInv, PTL
---------------------------------------------------------------------------
(* Every step of the receive ring is a step of the queue. *)

Frames == RingSeq(RX_N, rxBuf, rdh, rxCur)

LEMMA FramesAre ==
  ASSUME NEW b, NEW h, NEW c \in RxIndex
  PROVE  RingSeq(RX_N, b, h, c) = [i \in 1 .. (h - c) % RX_N |-> b[(c + i - 1) % RX_N]]
<1>1. \A i \in 1 .. (h - c) % RX_N : c + (i - 1) = c + i - 1
  BY DEF RxIndex
<1> QED BY <1>1 DEF RingSeq, RingDist, RingCell

LEMMA InitMaps == Init => RxQueue!Init
<1> SUFFICES ASSUME Init PROVE RxQueue!Init
  OBVIOUS
<1>1. RxTyped /\ rdh = rxCur
  BY RxInitOK DEF Init, RxInit
<1>2. Waiting = 0
  BY <1>1, RxBridge, RingDistIs DEF RxTyped
<1> HIDE DEF Waiting
<1>3. [i \in 1 .. Waiting |-> rxBuf[(rxCur + i - 1) % RX_N]] = <<>>
  BY <1>2
<1> QED BY <1>3 DEF RxQueue!Init

\* A frame that comes is the last of the queue, or is lost when the queue is full.
LEMMA ReceiveMaps ==
  ASSUME RxTyped, RxFramed, NEW f, Receive(f)
  PROVE  Frames' = IF Len(Frames) < RX_N - 1 THEN Append(Frames, f) ELSE Frames
<1>1. rdh \in RingIndex(RX_N) /\ rdt \in RingIndex(RX_N) /\ rxCur \in RingIndex(RX_N)
  BY RxBridge DEF RxTyped
<1>2. Len(Frames) = RingDist(RX_N, rdh, rxCur)
  BY <1>1, RxBridge, RingSeqLen DEF Frames
<1>3. Len(Frames) < RX_N - 1 <=> RingNext(RX_N, rdh) # rxCur
  BY <1>1, <1>2, RxBridge, RingFullIs
<1>4. CASE rdh = rdt
  <2>1. RingNext(RX_N, rdh) = rxCur
    BY <1>4, RxBridge DEF RxFramed
  <2>2. Frames' = Frames
    BY <1>4 DEF Receive, Frames
  <2> QED BY <1>3, <2>1, <2>2
<1>5. CASE rdh # rdt
  <2>1. RingNext(RX_N, rdh) # rxCur
    BY <1>5, ReceiveRoom, RxBridge
  <2>2. rxBuf' = RingStore(rxBuf, rdh, f) /\ rdh' = RingNext(RX_N, rdh) /\ rxCur' = rxCur
    BY <1>5, RxBridge DEF Receive, RingStore
  <2>3. DOMAIN rxBuf = RingIndex(RX_N)
    BY RxBridge DEF RxTyped
  <2>4. RingSeq(RX_N, RingStore(rxBuf, rdh, f), RingNext(RX_N, rdh), rxCur) = Append(Frames, f)
    BY <1>1, <2>1, <2>3, RxBridge, RingSeqPush DEF Frames
  <2>5. Frames' = Append(Frames, f)
    BY <2>2, <2>4 DEF Frames
  <2> QED BY <1>3, <2>1, <2>5
<1> QED BY <1>4, <1>5

\* A frame that is read is the first of the queue.
LEMMA RecvMaps ==
  ASSUME RxTyped, RxFramed, Recv
  PROVE  Frames # <<>> /\ Frames' = Tail(Frames)
<1>1. /\ rdh \in RingIndex(RX_N) /\ rxCur \in RingIndex(RX_N) /\ rdh # rxCur
      /\ DOMAIN rxBuf = RingIndex(RX_N)
  BY RxBridge, RecvFinds DEF RxTyped, Recv
<1>2. Frames # <<>>
  BY <1>1, RxBridge, RingSeqPop DEF Frames
<1>3. rxBuf' = RingStore(rxBuf, rxCur, None) /\ rdh' = rdh /\ rxCur' = RingNext(RX_N, rxCur)
  BY RxBridge DEF Recv, RingStore
<1>4. RingSeq(RX_N, RingStore(rxBuf, rxCur, None), rdh, RingNext(RX_N, rxCur)) = Tail(Frames)
  BY <1>1, RxBridge, RingSeqForgets DEF Frames
<1>5. Frames' = Tail(Frames)
  BY <1>3, <1>4 DEF Frames
<1> QED BY <1>2, <1>5

LEMMA NextMaps == IInv /\ [Next]_vars => [RxQueue!Next]_([i \in 1 .. Waiting |->
                                               rxBuf[(rxCur + i - 1) % RX_N]])
<1> DEFINE q == [i \in 1 .. Waiting |-> rxBuf[(rxCur + i - 1) % RX_N]]
<1> SUFFICES ASSUME IInv, [Next]_vars PROVE [RxQueue!Next]_q
  OBVIOUS
<1>0. RxTyped /\ RxFramed /\ RxTyped'
  BY NextKeeps DEF IInv
<1>1. Frames = q /\ Frames' = q'
  BY <1>0, FramesAre DEF RxTyped, Frames, Waiting
<1>2. UNCHANGED rxVars => q' = q
  BY DEF rxVars, Waiting
<1>3. ASSUME Recv PROVE RxQueue!Next
  <2>1. q # <<>> /\ q' = Tail(q)
    BY <1>0, <1>1, <1>3, RecvMaps
  <2> QED BY <2>1 DEF RxQueue!Next, RxQueue!Read
<1>4. ASSUME NEW f \in Frame \cup {Damaged}, Receive(f) PROVE RxQueue!Next
  <2>1. q' = IF Len(q) < RX_N - 1 THEN Append(q, f) ELSE q
    BY <1>0, <1>1, <1>4, ReceiveMaps
  <2> QED BY <2>1 DEF RxQueue!Next, RxQueue!Arrive
<1>5. ASSUME ~Recv, \A f \in Frame \cup {Damaged} : ~Receive(f) PROVE UNCHANGED rxVars
  BY <1>5 DEF Next, Start, SendReturns, Transmit, Send, vars
<1> QED BY <1>2, <1>3, <1>4, <1>5

\* For every number of descriptors the receive ring is the queue of FrameQueue, of
\* room for one frame less than there are descriptors: no frame is read twice, or
\* written over before it is read, or read out of turn.
THEOREM Implements == Spec => RxQueueSpec
BY InitMaps, NextMaps, SpecIInv, PTL DEF Spec, RxQueueSpec, RxQueue!Spec
----------------------------------------------------------------------------
(* The bus and the table. *)

BusSlot == 1 .. Slots
Func == 0 .. Functions - 1
Bus == [BusSlot -> Slot]
There(bus) == {at \in BusSlot \X Func : Answers(bus[at[1]], at[2])}
Kind(bus, at) == bus[at[1]].func[at[2]]

\* The entries of the table are the functions of P, each told once.
Told(bus, t, P) ==
  /\ t \in Seq(Device) /\ P \subseteq There(bus)
  /\ \E pos \in Bijection(1 .. Len(t), P) : \A i \in 1 .. Len(t) : t[i] = Kind(bus, pos[i])

LEMMA KindIs ==
  ASSUME NEW bus \in Bus, NEW at \in There(bus)
  PROVE  Kind(bus, at) \in Device
<1>1. at[1] \in BusSlot /\ at[2] \in Func /\ Answers(bus[at[1]], at[2]) /\ bus[at[1]] \in Slot
  BY DEF There, Bus
<1>2. bus[at[1]].func \in [Func -> Device \cup {NoDevice}]
  BY <1>1 DEF Slot, Func
<1> QED BY <1>1, <1>2 DEF Answers, Kind

LEMMA NothingTold == ASSUME NEW bus PROVE Told(bus, <<>>, {})
<1>1. Len(<<>>) = 0 /\ <<>> \in Seq(Device)
  OBVIOUS
<1> DEFINE pos == [i \in 1 .. 0 |-> i]
<1>2. pos \in Bijection(1 .. 0, {})
  BY DEF Bijection, Injection, IsInjective, Surjection
<1> QED BY <1>1, <1>2 DEF Told

LEMMA OneMoreTold ==
  ASSUME NEW bus \in Bus, NEW t, NEW P, Told(bus, t, P), NEW at \in There(bus), at \notin P
  PROVE  Told(bus, Append(t, Kind(bus, at)), P \cup {at})
<1> DEFINE n == Len(t)
           r == Append(t, Kind(bus, at))
<1>1. PICK pos \in Bijection(1 .. n, P) : \A i \in 1 .. n : t[i] = Kind(bus, pos[i])
  BY DEF Told
<1>2. t \in Seq(Device) /\ Kind(bus, at) \in Device /\ n \in Nat /\ n = Len(t)
  BY KindIs DEF Told
<1> HIDE DEF n
<1>3. /\ r \in Seq(Device) /\ Len(r) = n + 1 /\ r[n + 1] = Kind(bus, at)
      /\ \A i \in 1 .. n : r[i] = t[i]
  BY <1>2, AppendProperties
<1> HIDE DEF r
<1> DEFINE q == [i \in 1 .. n + 1 |-> IF i = n + 1 THEN at ELSE pos[i]]
<1>4. /\ pos \in [1 .. n -> P] /\ \A i, j \in 1 .. n : pos[i] = pos[j] => i = j
      /\ \A x \in P : \E i \in 1 .. n : pos[i] = x
  BY <1>1 DEF Bijection, Injection, IsInjective, Surjection
<1>5. \A i \in 1 .. n + 1 : i # n + 1 => i \in 1 .. n /\ pos[i] \in P /\ pos[i] # at
  BY <1>2, <1>4
<1>6. q \in [1 .. n + 1 -> P \cup {at}]
  BY <1>5
<1>7. \A i, j \in 1 .. n + 1 : q[i] = q[j] => i = j
  BY <1>4, <1>5
<1>8. ASSUME NEW x \in P \cup {at} PROVE \E i \in 1 .. n + 1 : q[i] = x
  <2>1. CASE x = at
    <3>1. n + 1 \in 1 .. n + 1 /\ q[n + 1] = at
      BY <1>2
    <3> QED BY <2>1, <3>1
  <2>2. CASE x # at
    <3>1. PICK i \in 1 .. n : pos[i] = x
      BY <1>4, <2>2
    <3>2. i \in 1 .. n + 1 /\ i # n + 1
      BY <1>2, <3>1
    <3> QED BY <3>1, <3>2
  <2> QED BY <2>1, <2>2
<1>9. \A i \in 1 .. n + 1 : r[i] = Kind(bus, q[i])
  BY <1>1, <1>3, <1>5
<1> HIDE DEF q
<1>10. q \in Bijection(1 .. n + 1, P \cup {at})
  BY <1>6, <1>7, <1>8 DEF Bijection, Injection, IsInjective, Surjection
<1>11. P \cup {at} \subseteq There(bus)
  BY DEF Told
<1> QED BY <1>3, <1>9, <1>10, <1>11 DEF Told, r

\* What is appended for a slot, function by function.
SlotRounds(slot, t, f) ==
  /\ ScanSlot(slot, t) = f[Functions] /\ f[0] = t
  /\ \A k \in 1 .. Functions :
       f[k] = IF Answers(slot, k - 1) THEN Append(f[k - 1], slot.func[k - 1]) ELSE f[k - 1]
  /\ \A k \in 0 .. Functions : f[k] \in Seq(Device)

LEMMA SlotLoop ==
  ASSUME NEW slot \in Slot, NEW t \in Seq(Device)
  PROVE  \E f : SlotRounds(slot, t, f)
<1> DEFINE S == Seq(Device)
           Found(f) == f = [k \in 0 .. Functions |->
                              IF k = 0 THEN t
                              ELSE IF Answers(slot, k - 1) THEN Append(f[k - 1], slot.func[k - 1])
                              ELSE f[k - 1]]
<1>1. Functions \in Nat /\ \A k \in 1 .. Functions : k - 1 \in Func /\ k - 1 \in 0 .. Functions /\ k # 0
  BY PciAssumption DEF Func
<1>2. ASSUME NEW s \in S, NEW k \in 1 .. Functions
      PROVE  (IF Answers(slot, k - 1) THEN Append(s, slot.func[k - 1]) ELSE s) \in S
  <2>1. CASE Answers(slot, k - 1)
    <3>1. slot.func[k - 1] \in Device
      BY <1>1, <2>1 DEF Slot, Func, Answers
    <3>2. Append(s, slot.func[k - 1]) \in S
      BY <3>1, AppendProperties
    <3> QED BY <2>1, <3>2
  <2>2. CASE ~Answers(slot, k - 1)
    BY <2>2
  <2> QED BY <2>1, <2>2
<1>3. \E f : Found(f)
  <2> DEFINE g == [p \in S \X (1 .. Functions) |->
                     IF Answers(slot, p[2] - 1) THEN Append(p[1], slot.func[p[2] - 1]) ELSE p[1]]
  <2>1. ASSUME NEW s \in S, NEW k \in 1 .. Functions
        PROVE  g[<<s, k>>] = IF Answers(slot, k - 1) THEN Append(s, slot.func[k - 1]) ELSE s
    OBVIOUS
  <2>2. g \in [S \X (1 .. Functions) -> S]
    <3>1. ASSUME NEW p \in S \X (1 .. Functions) PROVE g[p] \in S
      <4>1. p[1] \in S /\ p[2] \in 1 .. Functions
        OBVIOUS
      <4> QED BY <1>2, <4>1
    <3> QED BY <3>1
  <2> HIDE DEF g
  <2>3. PICK f : Rounds(Functions, S, t, g, f)
    <3> HIDE DEF S
    <3>1. t \in S /\ Functions \in Nat
      BY <1>1 DEF S
    <3> QED BY <2>2, <3>1, CountedLoop
  <2>4. f \in [0 .. Functions -> S] /\ f[0] = t /\ \A k \in 1 .. Functions : f[k] = g[<<f[k - 1], k>>]
    <3> HIDE DEF S
    <3> QED BY <2>3 DEF Rounds
  <2>5. ASSUME NEW k \in 1 .. Functions
        PROVE  f[k] = IF Answers(slot, k - 1) THEN Append(f[k - 1], slot.func[k - 1]) ELSE f[k - 1]
    <3>1. f[k - 1] \in S /\ f[k] = g[<<f[k - 1], k>>]
      BY <1>1, <2>4
    <3> QED BY <2>1, <3>1
  <2>6. \A k \in 0 .. Functions : k # 0 => k \in 1 .. Functions
    OBVIOUS
  <2>7. f = [k \in 0 .. Functions |->
               IF k = 0 THEN t
               ELSE IF Answers(slot, k - 1) THEN Append(f[k - 1], slot.func[k - 1])
               ELSE f[k - 1]]
    BY <2>4, <2>5, <2>6
  <2> QED BY <2>7
<1>4. PICK f : ScanSlot(slot, t) = f[Functions] /\ Found(f)
  BY <1>3 DEF ScanSlot
<1>5. f[0] = t /\ \A k \in 1 .. Functions :
                    f[k] = IF Answers(slot, k - 1) THEN Append(f[k - 1], slot.func[k - 1]) ELSE f[k - 1]
  <2>1. \A k \in 0 .. Functions :
          f[k] = IF k = 0 THEN t
                 ELSE IF Answers(slot, k - 1) THEN Append(f[k - 1], slot.func[k - 1])
                 ELSE f[k - 1]
    BY <1>4
  <2> QED BY <1>1, <2>1
<1> DEFINE T == {k \in 0 .. Functions : f[k] \in S}
<1>6. 0 \in T
  BY <1>1, <1>5
<1>7. ASSUME NEW k \in 1 .. Functions, k - 1 \in T PROVE k \in T
  <2>1. f[k - 1] \in S
    BY <1>7
  <2>2. f[k] = IF Answers(slot, k - 1) THEN Append(f[k - 1], slot.func[k - 1]) ELSE f[k - 1]
    BY <1>5
  <2>3. f[k] \in S
    BY <1>2, <2>1, <2>2
  <2> QED BY <1>1, <2>3
<1> HIDE DEF T
<1>8. \A k \in 0 .. Functions : k \in T
  BY <1>1, <1>6, <1>7, UpTo
<1>9. \A k \in 0 .. Functions : f[k] \in Seq(Device)
  BY <1>8 DEF T
<1> QED BY <1>4, <1>5, <1>9 DEF SlotRounds

\* Of a slot, every function that answers.
LEMMA SlotTold ==
  ASSUME NEW bus \in Bus, NEW n \in BusSlot, NEW t, NEW P, Told(bus, t, P), \A at \in P : at[1] # n
  PROVE  Told(bus, ScanSlot(bus[n], t), P \cup {at \in There(bus) : at[1] = n})
<1> DEFINE slot == bus[n]
           Part(k) == {at \in There(bus) : at[1] = n /\ at[2] < k}
<1>1. /\ slot \in Slot /\ t \in Seq(Device) /\ Functions \in Nat
      /\ \A k \in 1 .. Functions : k - 1 \in Func /\ k - 1 \in 0 .. Functions /\ k # 0
  BY PciAssumption DEF Bus, Told, Func
<1>2. ASSUME NEW k \in 1 .. Functions, Answers(slot, k - 1)
      PROVE  <<n, k - 1>> \in There(bus) /\ Kind(bus, <<n, k - 1>>) = slot.func[k - 1]
  BY <1>1, <1>2 DEF There, Kind
<1> HIDE DEF slot
<1>3. PICK f : SlotRounds(slot, t, f)
  BY <1>1, SlotLoop
<1>4. /\ ScanSlot(slot, t) = f[Functions] /\ f[0] = t
      /\ \A k \in 1 .. Functions :
           f[k] = IF Answers(slot, k - 1) THEN Append(f[k - 1], slot.func[k - 1]) ELSE f[k - 1]
  BY <1>3 DEF SlotRounds
<1> DEFINE T == {k \in 0 .. Functions : Told(bus, f[k], P \cup Part(k))}
<1>5. 0 \in T
  <2>1. Part(0) = {}
    BY PciAssumption DEF There, Func
  <2>2. f[0] = t /\ 0 \in 0 .. Functions
    BY <1>1, <1>4
  <2> HIDE DEF Part
  <2> QED BY <2>1, <2>2
<1>6. ASSUME NEW k \in 1 .. Functions, k - 1 \in T PROVE k \in T
  <2>1. /\ k \in 0 .. Functions /\ k # 0
        /\ f[k] = IF Answers(slot, k - 1) THEN Append(f[k - 1], slot.func[k - 1]) ELSE f[k - 1]
    BY <1>1, <1>4
  <2>2. Told(bus, f[k - 1], P \cup Part(k - 1))
    BY <1>6
  <2>3. ASSUME NEW at \in There(bus), at[1] = n
        PROVE  at[2] \in Func /\ at = <<n, at[2]>> /\ (at[2] < k <=> at[2] < k - 1 \/ at[2] = k - 1)
    <3>1. at \in BusSlot \X Func /\ at[2] \in Func
      BY DEF There
    <3>2. at[2] \in Nat
      BY <3>1, PciAssumption DEF Func
    <3> QED BY <2>3, <3>1, <3>2
  <2>4. CASE Answers(slot, k - 1)
    <3> DEFINE at == <<n, k - 1>>
    <3>1. at \in There(bus) /\ Kind(bus, at) = slot.func[k - 1]
      BY <1>2, <2>4
    <3>2. at \notin P \cup Part(k - 1)
      BY <1>1, PciAssumption
    <3>3. Part(k) = Part(k - 1) \cup {at}
      BY <2>3, <3>1
    <3> HIDE DEF at, Part
    <3>4. Told(bus, Append(f[k - 1], Kind(bus, at)), (P \cup Part(k - 1)) \cup {at})
      BY <2>2, <3>1, <3>2, OneMoreTold
    <3>5. P \cup Part(k) = (P \cup Part(k - 1)) \cup {at}
      BY <3>3
    <3> QED BY <2>1, <2>4, <3>1, <3>4, <3>5
  <2>5. CASE ~Answers(slot, k - 1)
    <3>1. <<n, k - 1>> \notin There(bus)
      BY <2>5 DEF There, slot
    <3>2. Part(k) = Part(k - 1)
      BY <2>3, <3>1
    <3> HIDE DEF Part
    <3> QED BY <2>1, <2>2, <2>5, <3>2
  <2> QED BY <2>4, <2>5
<1> HIDE DEF T
<1>7. \A k \in 0 .. Functions : k \in T
  BY <1>1, <1>5, <1>6, UpTo
<1>8. Told(bus, f[Functions], P \cup Part(Functions))
  <2>1. Functions \in 0 .. Functions
    BY <1>1
  <2>2. Functions \in T
    BY <1>7, <2>1
  <2> HIDE DEF Part
  <2> QED BY <2>2 DEF T
<1>9. Part(Functions) = {at \in There(bus) : at[1] = n}
  BY PciAssumption DEF There, Func
<1> HIDE DEF Part
<1> QED BY <1>4, <1>8, <1>9 DEF slot

\* Of the bus, every function that answers, unless the table was full at a slot.
LEMMA BusTold ==
  ASSUME NEW bus \in Bus
  PROVE  \E P : Told(bus, Scan(bus), P) /\ (P = There(bus) \/ Len(Scan(bus)) >= MaxDevs)
<1> DEFINE S == Seq(Device)
           Round(s, n) == IF Len(s) < MaxDevs THEN ScanSlot(bus[n], s) ELSE s
           Scanned(f) == f = [n \in 0 .. Slots |->
                                IF n = 0 THEN <<>>
                                ELSE IF Len(f[n - 1]) < MaxDevs THEN ScanSlot(bus[n], f[n - 1])
                                ELSE f[n - 1]]
           Upto(n) == {at \in There(bus) : at[1] <= n}
<1>1. Slots \in Nat /\ MaxDevs \in Nat /\ \A n \in 1 .. Slots : n - 1 \in 0 .. Slots /\ n \in 0 .. Slots /\ n # 0 /\ n \in BusSlot
  BY PciAssumption DEF BusSlot
<1>2. ASSUME NEW s \in S, NEW n \in 1 .. Slots PROVE Round(s, n) \in S
  <2>1. bus[n] \in Slot
    BY <1>1 DEF Bus
  <2>2. PICK f : SlotRounds(bus[n], s, f)
    BY <2>1, SlotLoop
  <2>3. ScanSlot(bus[n], s) \in S
    BY <2>2, PciAssumption DEF SlotRounds
  <2> QED BY <2>3
<1>3. \E f : Scanned(f)
  <2> DEFINE g == [p \in S \X (1 .. Slots) |-> Round(p[1], p[2])]
  <2>1. ASSUME NEW s \in S, NEW n \in 1 .. Slots
        PROVE  g[<<s, n>>] = Round(s, n)
    <3> HIDE DEF Round
    <3> QED OBVIOUS
  <2>2. g \in [S \X (1 .. Slots) -> S]
    <3> HIDE DEF Round
    <3>1. ASSUME NEW p \in S \X (1 .. Slots) PROVE g[p] \in S
      <4>1. p[1] \in S /\ p[2] \in 1 .. Slots
        OBVIOUS
      <4> QED BY <1>2, <4>1
    <3> QED BY <3>1
  <2> HIDE DEF g
  <2>3. PICK f : Rounds(Slots, S, <<>>, g, f)
    <3>1. <<>> \in S
      OBVIOUS
    <3> HIDE DEF S
    <3>2. Slots \in Nat
      BY <1>1
    <3> QED BY <2>2, <3>1, <3>2, CountedLoop
  <2>4. f \in [0 .. Slots -> S] /\ f[0] = <<>> /\ \A n \in 1 .. Slots : f[n] = g[<<f[n - 1], n>>]
    <3> HIDE DEF S
    <3> QED BY <2>3 DEF Rounds
  <2>5. ASSUME NEW n \in 1 .. Slots
        PROVE  f[n] = IF Len(f[n - 1]) < MaxDevs THEN ScanSlot(bus[n], f[n - 1]) ELSE f[n - 1]
    <3>1. f[n - 1] \in S /\ f[n] = g[<<f[n - 1], n>>]
      BY <1>1, <2>4
    <3> QED BY <2>1, <3>1
  <2>6. \A n \in 0 .. Slots : n # 0 => n \in 1 .. Slots
    OBVIOUS
  <2>7. f = [n \in 0 .. Slots |->
               IF n = 0 THEN <<>>
               ELSE IF Len(f[n - 1]) < MaxDevs THEN ScanSlot(bus[n], f[n - 1])
               ELSE f[n - 1]]
    BY <2>4, <2>5, <2>6
  <2> QED BY <2>7
<1>4. PICK f : Scan(bus) = f[Slots] /\ Scanned(f)
  BY <1>3 DEF Scan
<1>5. f[0] = <<>> /\ \A n \in 1 .. Slots :
                       f[n] = IF Len(f[n - 1]) < MaxDevs THEN ScanSlot(bus[n], f[n - 1]) ELSE f[n - 1]
  <2>1. \A n \in 0 .. Slots :
          f[n] = IF n = 0 THEN <<>>
                 ELSE IF Len(f[n - 1]) < MaxDevs THEN ScanSlot(bus[n], f[n - 1])
                 ELSE f[n - 1]
    BY <1>4
  <2> QED BY <1>1, <2>1
<1> DEFINE Goal(n, P) == Told(bus, f[n], P) /\ P \subseteq Upto(n) /\ (P = Upto(n) \/ Len(f[n]) >= MaxDevs)
           T == {n \in 0 .. Slots : \E P : Goal(n, P)}
<1>6. 0 \in T
  <2>1. Upto(0) = {}
    BY DEF There, BusSlot
  <2>2. Told(bus, f[0], {})
    BY <1>5, NothingTold
  <2>3. 0 \in 0 .. Slots
    BY <1>1
  <2> HIDE DEF Upto
  <2>4. Goal(0, {})
    BY <2>1, <2>2
  <2> HIDE DEF Goal
  <2> QED BY <2>3, <2>4
<1>7. ASSUME NEW n \in 1 .. Slots, n - 1 \in T PROVE n \in T
  <2>1. PICK P : Goal(n - 1, P)
    BY <1>7
  <2>2. /\ Told(bus, f[n - 1], P) /\ P \subseteq Upto(n - 1) /\ (P = Upto(n - 1) \/ Len(f[n - 1]) >= MaxDevs)
        /\ n \in 0 .. Slots /\ n \in BusSlot
        /\ f[n] = IF Len(f[n - 1]) < MaxDevs THEN ScanSlot(bus[n], f[n - 1]) ELSE f[n - 1]
    BY <1>1, <1>5, <2>1
  <2>3. Upto(n) = Upto(n - 1) \cup {at \in There(bus) : at[1] = n} /\ Upto(n - 1) \subseteq Upto(n)
    BY DEF There, BusSlot
  <2>4. \A at \in P : at[1] # n
    BY <2>2 DEF There, BusSlot
  <2>5. Len(f[n - 1]) \in Nat
    BY <2>2 DEF Told
  <2>6. CASE Len(f[n - 1]) < MaxDevs
    <3> DEFINE Q == P \cup {at \in There(bus) : at[1] = n}
    <3>1. P = Upto(n - 1)
      BY <1>1, <2>2, <2>5, <2>6
    <3>2. Told(bus, ScanSlot(bus[n], f[n - 1]), Q)
      BY <2>2, <2>4, SlotTold
    <3>3. Q = Upto(n)
      BY <2>3, <3>1
    <3> HIDE DEF Q, Upto
    <3>4. Goal(n, Q)
      BY <2>2, <2>6, <3>2, <3>3
    <3> HIDE DEF Goal
    <3> QED BY <2>2, <3>4
  <2>7. CASE ~(Len(f[n - 1]) < MaxDevs)
    <3>1. f[n] = f[n - 1] /\ Len(f[n]) >= MaxDevs
      BY <1>1, <2>2, <2>5, <2>7
    <3> HIDE DEF Upto
    <3>2. Goal(n, P)
      BY <2>2, <2>3, <3>1
    <3> HIDE DEF Goal
    <3> QED BY <2>2, <3>2
  <2> QED BY <2>6, <2>7
<1>8. Slots \in T
  <2> HIDE DEF T
  <2>1. \A n \in 0 .. Slots : n \in T
    BY <1>1, <1>6, <1>7, UpTo
  <2> QED BY <1>1, <2>1
<1>9. PICK P : Goal(Slots, P)
  BY <1>8
<1>10. Upto(Slots) = There(bus)
  BY PciAssumption DEF There, BusSlot
<1> HIDE DEF Upto
<1> QED BY <1>4, <1>9, <1>10

\* Every function on the bus that answers, if the table can hold them all.
LEMMA AllTold ==
  ASSUME NEW bus \in Bus, Cardinality(There(bus)) <= MaxDevs
  PROVE  Told(bus, Scan(bus), There(bus))
<1> DEFINE t == Scan(bus)
<1>1. PICK P : Told(bus, t, P) /\ (P = There(bus) \/ Len(t) >= MaxDevs)
  BY BusTold
<1>2. IsFiniteSet(There(bus)) /\ Cardinality(There(bus)) \in Nat
  <2>1. IsFiniteSet(BusSlot) /\ IsFiniteSet(Func)
    BY PciAssumption, FS_Interval DEF BusSlot, Func
  <2>2. IsFiniteSet(BusSlot \X Func)
    BY <2>1, FS_Product
  <2>3. There(bus) \in SUBSET (BusSlot \X Func)
    BY DEF There
  <2>4. IsFiniteSet(There(bus))
    BY <2>2, <2>3, FS_Subset
  <2> QED BY <2>4, FS_CardinalityType
<1> HIDE DEF t
<1>3. Len(t) \in Nat /\ Cardinality(P) = Len(t) /\ P \in SUBSET There(bus)
  <2>1. t \in Seq(Device) /\ P \subseteq There(bus) /\ Bijection(1 .. Len(t), P) # {}
    BY <1>1 DEF Told
  <2>2. Len(t) \in Nat /\ ExistsBijection(1 .. Len(t), P)
    BY <2>1 DEF ExistsBijection
  <2>3. IsFiniteSet(1 .. Len(t)) /\ Cardinality(1 .. Len(t)) = Len(t)
    BY <2>2, FS_Interval
  <2> QED BY <2>1, <2>2, <2>3, FS_Bijection
<1>4. Cardinality(P) <= Cardinality(There(bus)) /\ (Cardinality(There(bus)) = Cardinality(P) => There(bus) = P)
  BY <1>2, <1>3, FS_Subset
<1>5. Len(t) >= MaxDevs => Cardinality(There(bus)) = Cardinality(P)
  BY <1>2, <1>3, <1>4, PciAssumption
<1> QED BY <1>1, <1>4, <1>5 DEF t

\* Then a device is in the table as often as it is on the bus.
LEMMA Counts ==
  ASSUME NEW bus \in Bus, NEW t, Told(bus, t, There(bus)), NEW d
  PROVE  LET places == {at \in There(bus) : Kind(bus, at) = d}
         IN  /\ Cardinality({i \in DOMAIN t : t[i] = d}) = Cardinality(places)
             /\ Find(t, d) <=> places # {}
<1> DEFINE places == {at \in There(bus) : Kind(bus, at) = d}
           A == {i \in DOMAIN t : t[i] = d}
<1>1. PICK pos \in Bijection(1 .. Len(t), There(bus)) : \A i \in 1 .. Len(t) : t[i] = Kind(bus, pos[i])
  BY DEF Told
<1>2. DOMAIN t = 1 .. Len(t) /\ Len(t) \in Nat
  BY DEF Told
<1>3. /\ pos \in [1 .. Len(t) -> There(bus)] /\ \A i, j \in 1 .. Len(t) : pos[i] = pos[j] => i = j
      /\ \A at \in There(bus) : \E i \in 1 .. Len(t) : pos[i] = at
  BY <1>1 DEF Bijection, Injection, IsInjective, Surjection
<1> HIDE DEF There, Kind
<1> DEFINE q == [i \in A |-> pos[i]]
<1>4. q \in [A -> places]
  BY <1>1, <1>2, <1>3
<1>5. \A i, j \in A : q[i] = q[j] => i = j
  BY <1>2, <1>3
<1>6. \A at \in places : \E i \in A : q[i] = at
  <2> SUFFICES ASSUME NEW at \in places PROVE \E i \in A : q[i] = at
    OBVIOUS
  <2>1. PICK i \in 1 .. Len(t) : pos[i] = at
    BY <1>3
  <2>2. i \in A
    BY <1>1, <1>2, <2>1
  <2> QED BY <2>1, <2>2
<1>7. IsFiniteSet(A)
  <2>1. IsFiniteSet(1 .. Len(t)) /\ A \in SUBSET (1 .. Len(t))
    BY <1>2, FS_Interval
  <2> QED BY <2>1, FS_Subset
<1> HIDE DEF q
<1>8. Find(t, d) <=> places # {}
  <2>1. Find(t, d) <=> A # {}
    BY DEF Find
  <2>2. A # {} <=> places # {}
    BY <1>4, <1>6
  <2> QED BY <2>1, <2>2
<1> HIDE DEF A, places
<1>9. q \in Bijection(A, places)
  BY <1>4, <1>5, <1>6 DEF Bijection, Injection, IsInjective, Surjection
<1>10. ExistsBijection(A, places)
  BY <1>9 DEF ExistsBijection
<1>11. Cardinality(A) = Cardinality(places)
  BY <1>7, <1>10, FS_Bijection
<1> QED BY <1>8, <1>11 DEF A, places
---------------------------------------------------------------------------
(* The start. *)

\* What hwdetect_init tells of.
Hardware ==
  {"cpu", "dma", "a20", "cmos_mem", "fpu", "apic", "tsc", "crypto", "memprot", "acpi", "hpet",
   "hypervisor", "vmware_bd", "fw_cfg", "debugcon", "smbios", "com1", "lpt", "floppy", "atapi",
   "ide_ctrl", "ahci", "usb_uhci", "usb_ohci", "usb_ehci", "usb_xhci", "vga_pci", "isa_bridge",
   "virtio_blk", "nic2", "audio"}

BootTyped ==
  /\ machine \in Machine /\ pc \in 1 .. 11 /\ status \in [Driver -> {-1, 0, 1, 2}]
  /\ gui_active \in BOOLEAN /\ svga_present \in BOOLEAN /\ tooSlow \in BOOLEAN

\* What each step finds stays so up to the steps that look at it.
TableScanned == pc > 6 => table = Scan(machine.bus)
DrivesProbed ==
  /\ pc <= 7 => signature = [i \in Drive |-> FALSE]
  /\ pc > 5 /\ ~tooSlow => present = [i \in Drive |-> Identified(machine.drives[i])]
  /\ pc > 7 /\ ~tooSlow => (status["atapi"] = 0 <=> \E i \in Drive : machine.drives[i] = "cd")
CardsLookedUp ==
  /\ pc > 7 => (status["ide_ctrl"] = 0 <=> Find(table, "ide")) /\ (status["usb_uhci"] = 0 <=> Find(table, "uhci"))
  /\ pc > 8 => /\ \A d \in {"e1000", "net"} : status[d] = 2 <=> ~Find(table, "e1000")
               /\ status["e1000"] = 0 => machine.link
Accelerated ==
  /\ pc <= 9 \/ ~gui_active => status["svga"] = -1
  /\ pc > 9 /\ gui_active => (status["svga"] = 2 <=> ~Find(table, "svga"))
  /\ status["svga"] = 0 <=> svga_present

\* The drivers of which something is told at a step, and so of all of them after it.
StartedBy(n) ==
  CASE n = 1 -> {"serial", "keyboard", "pic", "pit", "rtc", "font", "cc"}
    [] n = 2 -> IF gui_active THEN {"fbcon", "gui_wm"} ELSE {"vga"}
    [] n = 3 -> {"ramfs"} [] n = 4 -> {} [] n = 5 -> {"ata"} [] n = 6 -> {"pci"}
    [] n = 7 -> Hardware [] n = 8 -> {"e1000", "net"}
    [] n = 9 -> IF gui_active THEN {"svga"} ELSE {}
    [] n = 10 -> IF gui_active THEN {"mouse", "pcspk"} ELSE {"vga", "pcspk"}
AllStarted == \A n \in 1 .. 10 : pc > n => \A d \in StartedBy(n) : status[d] # -1

BootInv == BootTyped /\ TableScanned /\ DrivesProbed /\ CardsLookedUp /\ Accelerated /\ AllStarted

\* The step of kmain by its number.
Nth(step, n) == At(step) <=> pc = n

LEMMA StepIs ==
  BootTyped =>
    /\ Nth("start", 1) /\ Nth("gui", 2) /\ Nth("fs", 3) /\ Nth("sti", 4) /\ Nth("ata", 5)
    /\ Nth("pci", 6) /\ Nth("hwdetect", 7) /\ Nth("net", 8) /\ Nth("svga", 9) /\ Nth("mouse", 10)
    /\ Nth("shell", 11)
BY DEF BootTyped, Nth, At, Order

LEMMA BootStarts == BootInit => BootInv
<1> SUFFICES ASSUME BootInit PROVE BootInv
  OBVIOUS
<1>1. /\ machine \in Machine /\ pc = 1 /\ gui_active = FALSE /\ svga_present = FALSE /\ tooSlow = FALSE
      /\ status = [d \in Driver |-> -1] /\ signature = [i \in Drive |-> FALSE]
  BY DEF BootInit, AtaInit
<1>2. "svga" \in Driver
  BY DEF Driver
<1>3. status["svga"] = -1
  BY <1>1, <1>2
<1>4. BootTyped
  <2>1. status \in [Driver -> {-1, 0, 1, 2}]
    BY <1>1
  <2>2. pc \in 1 .. 11
    BY <1>1
  <2>3. gui_active \in BOOLEAN /\ svga_present \in BOOLEAN /\ tooSlow \in BOOLEAN
    BY <1>1, Zenon
  <2> QED BY <1>1, <2>1, <2>2, <2>3 DEF BootTyped
<1>5. ~(pc > 5) /\ ~(pc > 6) /\ ~(pc > 7) /\ ~(pc > 8) /\ ~(pc > 9)
  BY <1>1
<1>6. AllStarted
  BY <1>1 DEF AllStarted
<1>7. Accelerated
  BY <1>1, <1>3, <1>5 DEF Accelerated
<1> QED BY <1>1, <1>4, <1>5, <1>6, <1>7 DEF BootInv, TableScanned, DrivesProbed, CardsLookedUp

\* The states that a step changes nothing of the start in.
LEMMA BootStays == BootInv /\ UNCHANGED bootVars => BootInv'
<1> SUFFICES ASSUME BootInv, UNCHANGED bootVars PROVE BootInv'
  OBVIOUS
<1> USE DEF bootVars, ataVars
<1>1. BootTyped'
  BY DEF BootInv, BootTyped
<1>2. TableScanned' /\ CardsLookedUp'
  BY DEF BootInv, TableScanned, CardsLookedUp
<1>3. DrivesProbed'
  BY DEF BootInv, DrivesProbed
<1>4. Accelerated' /\ AllStarted'
  BY DEF BootInv, Accelerated, AllStarted, StartedBy
<1> QED BY <1>1, <1>2, <1>3, <1>4 DEF BootInv

LEMMA StartedDrivers == \A n \in 1 .. 10 : StartedBy(n) \subseteq Driver
<1>1. Hardware \subseteq Driver
  BY DEF Hardware, Driver
<1>2. /\ {"serial", "keyboard", "pic", "pit", "rtc", "font", "cc"} \subseteq Driver
      /\ {"fbcon", "gui_wm", "vga", "ramfs", "ata", "pci", "e1000", "net", "svga", "mouse", "pcspk"} \subseteq Driver
  BY DEF Driver
<1> HIDE DEF Hardware, Driver
<1>3. ASSUME NEW n \in 1 .. 10 PROVE StartedBy(n) \subseteq Driver
  <2>1. n = 1 \/ n = 2 \/ n = 3 \/ n = 4 \/ n = 5 \/ n = 6 \/ n = 7 \/ n = 8 \/ n = 9 \/ n = 10
    OBVIOUS
  <2> QED BY <1>1, <1>2, <2>1 DEF StartedBy
<1> QED BY <1>3

\* Nothing that was told of a driver is taken back, and of the drivers of the step
\* something is.
LEMMA StartedKeeps ==
  ASSUME BootTyped, AllStarted, NEW m, pc = m, pc' = pc + 1, gui_active' = gui_active \/ pc <= 2,
         \A d \in Driver : status[d] # -1 => status'[d] # -1,
         \A d \in StartedBy(m)' : status'[d] # -1
  PROVE  AllStarted'
<1>1. SUFFICES ASSUME NEW n \in 1 .. 10, pc' > n, NEW d \in StartedBy(n)' PROVE status'[d] # -1
  BY DEF AllStarted
<1>2. pc \in 1 .. 11
  BY DEF BootTyped
<1>3. CASE n = pc
  BY <1>1, <1>3
<1>4. CASE n # pc
  <2>1. pc > n
    BY <1>1, <1>2, <1>4
  <2>2. StartedBy(n)' = StartedBy(n)
    <3>1. gui_active' = gui_active \/ n = 1
      BY <1>2, <2>1
    <3> QED BY <3>1 DEF StartedBy
  <2>3. d \in StartedBy(n) /\ d \in Driver
    BY <1>1, <2>2, StartedDrivers
  <2> QED BY <2>1, <2>3 DEF AllStarted
<1> QED BY <1>3, <1>4

\* What is told of some drivers leaves the others as they were.
LEMMA ReadyIs ==
  ASSUME NEW s \in [Driver -> {-1, 0, 1, 2}], NEW drivers
  PROVE  /\ Ready(s, drivers) \in [Driver -> {-1, 0, 1, 2}]
         /\ \A d \in Driver : Ready(s, drivers)[d] = IF d \in drivers THEN 0 ELSE s[d]
BY DEF Ready

LEMMA BootConstants ==
  /\ {"svga", "e1000", "net", "ide_ctrl", "usb_uhci", "atapi"} \subseteq Driver
  /\ Hardware \subseteq Driver /\ {"ide_ctrl", "usb_uhci", "atapi"} \subseteq Hardware
  /\ "svga" \notin Hardware /\ "e1000" \notin Hardware /\ "net" \notin Hardware
BY DEF Driver, Hardware

\* The steps that only say that something is ready.
LEMMA ReadyKeeps ==
  ASSUME BootInv, NEW m \in {1, 2, 3, 4, 5, 6, 10}, pc = m, pc' = pc + 1, UNCHANGED <<machine, svga_present>>,
         NEW drivers, status' = Ready(status, drivers), StartedBy(m)' \subseteq drivers,
         \A d \in {"svga", "e1000", "net", "ide_ctrl", "usb_uhci", "atapi"} : d \notin drivers,
         gui_active' \in BOOLEAN, gui_active' = gui_active \/ pc <= 2, table' = table \/ pc <= 6,
         tooSlow' \in BOOLEAN
  PROVE  BootTyped' /\ CardsLookedUp' /\ Accelerated' /\ AllStarted'
<1>1. /\ BootTyped /\ CardsLookedUp /\ Accelerated /\ AllStarted
      /\ machine \in Machine /\ pc \in 1 .. 11 /\ status \in [Driver -> {-1, 0, 1, 2}] /\ svga_present \in BOOLEAN
  BY DEF BootInv, BootTyped
<1>2. /\ status' \in [Driver -> {-1, 0, 1, 2}]
      /\ \A d \in Driver : status'[d] = IF d \in drivers THEN 0 ELSE status[d]
  BY <1>1, ReadyIs
<1>3. \A d \in {"svga", "e1000", "net", "ide_ctrl", "usb_uhci", "atapi"} : status'[d] = status[d]
  BY <1>2, BootConstants
<1>4. pc' \in 1 .. 11 /\ (pc' > 7 => pc > 7) /\ (pc' > 8 => pc > 8) /\ (pc' > 9 <=> pc > 9) /\ (pc' <= 9 <=> pc <= 9)
  BY <1>1
<1>5. BootTyped'
  BY <1>1, <1>2, <1>4 DEF BootTyped
<1>6. CardsLookedUp'
  <2>1. pc' > 7 => table' = table /\ pc > 7
    BY <1>1, <1>4
  <2>2. pc' > 8 => pc' > 7 /\ pc > 8
    BY <1>1, <1>4
  <2> QED BY <1>1, <1>3, <2>1, <2>2 DEF CardsLookedUp
<1>7. Accelerated'
  <2>1. pc' > 9 => table' = table /\ gui_active' = gui_active
    BY <1>1, <1>4
  <2>2. pc' <= 9 \/ ~gui_active' => pc <= 9 \/ ~gui_active
    BY <1>1, <1>4
  <2>3. status'["svga"] = status["svga"] /\ svga_present' = svga_present
    BY <1>3
  <2> QED BY <1>1, <1>4, <2>1, <2>2, <2>3 DEF Accelerated
<1>8. AllStarted'
  <2>1. \A d \in Driver : status[d] # -1 => status'[d] # -1
    BY <1>2
  <2>2. \A d \in StartedBy(m)' : d \in Driver
    <3>1. m \in 1 .. 10
      OBVIOUS
    <3>2. (\A n \in 1 .. 10 : StartedBy(n) \subseteq Driver)'
      BY StartedDrivers, PTL
    <3> QED BY <3>1, <3>2
  <2>3. \A d \in StartedBy(m)' : status'[d] # -1
    BY <1>2, <2>2
  <2> QED BY <1>1, <2>1, <2>3, StartedKeeps
<1> QED BY <1>5, <1>6, <1>7, <1>8

LEMMA DrivesKeep ==
  ASSUME DrivesProbed, pc \in 1 .. 11, pc' = pc + 1, pc # 5, pc # 7, UNCHANGED <<machine, ataVars>>,
         status'["atapi"] = status["atapi"]
  PROVE  DrivesProbed'
<1>1. (pc' <= 7 => pc <= 7) /\ (pc' > 5 => pc > 5) /\ (pc' > 7 => pc > 7)
  OBVIOUS
<1> QED BY <1>1 DEF DrivesProbed, ataVars

LEMMA TableKeeps ==
  ASSUME TableScanned, pc \in 1 .. 11, pc' = pc + 1, pc # 6, UNCHANGED <<machine, table>>
  PROVE  TableScanned'
<1>1. pc' > 6 => pc > 6
  OBVIOUS
<1> QED BY <1>1 DEF TableScanned

\* The parts of the invariant, and the number of the step.
Stepping(step, n) ==
  /\ BootTyped /\ TableScanned /\ DrivesProbed /\ CardsLookedUp /\ Accelerated /\ AllStarted
  /\ machine \in Machine /\ status \in [Driver -> {-1, 0, 1, 2}]
  /\ pc \in 1 .. 11 /\ (At(step) => pc = n)
LEMMA StepNumber ==
  BootInv =>
    /\ Stepping("start", 1) /\ Stepping("gui", 2) /\ Stepping("fs", 3) /\ Stepping("sti", 4)
    /\ Stepping("ata", 5) /\ Stepping("pci", 6) /\ Stepping("hwdetect", 7) /\ Stepping("net", 8)
    /\ Stepping("svga", 9) /\ Stepping("mouse", 10)
<1> SUFFICES ASSUME BootInv PROVE
    /\ Stepping("start", 1) /\ Stepping("gui", 2) /\ Stepping("fs", 3) /\ Stepping("sti", 4)
    /\ Stepping("ata", 5) /\ Stepping("pci", 6) /\ Stepping("hwdetect", 7) /\ Stepping("net", 8)
    /\ Stepping("svga", 9) /\ Stepping("mouse", 10)
  OBVIOUS
<1>1. BootTyped
  BY DEF BootInv
<1>2. machine \in Machine /\ status \in [Driver -> {-1, 0, 1, 2}] /\ pc \in 1 .. 11
  BY <1>1 DEF BootTyped
<1>3. ASSUME NEW step, NEW n, At(step) => pc = n PROVE Stepping(step, n)
  BY <1>2, <1>3 DEF Stepping, BootInv
<1>4. /\ Nth("start", 1) /\ Nth("gui", 2) /\ Nth("fs", 3) /\ Nth("sti", 4) /\ Nth("ata", 5)
      /\ Nth("pci", 6) /\ Nth("hwdetect", 7) /\ Nth("net", 8) /\ Nth("svga", 9) /\ Nth("mouse", 10)
  BY <1>1, StepIs
<1> QED BY <1>3, <1>4 DEF Nth

Stepped == pc' = pc + 1 /\ UNCHANGED machine

LEMMA ReadyStep ==
  ASSUME BootInv, NEW m \in {1, 2, 3, 4, 10}, pc = m, Stepped, UNCHANGED <<table, ataVars, svga_present>>,
         NEW drivers, status' = Ready(status, drivers), StartedBy(m)' \subseteq drivers,
         \A d \in {"svga", "e1000", "net", "ide_ctrl", "usb_uhci", "atapi"} : d \notin drivers,
         gui_active' \in BOOLEAN, gui_active' = gui_active \/ pc <= 2
  PROVE  BootInv'
<1>1. /\ pc' = pc + 1 /\ pc \in 1 .. 11 /\ pc # 5 /\ pc # 6 /\ pc # 7 /\ TableScanned /\ DrivesProbed /\ BootTyped
      /\ UNCHANGED <<machine, table, svga_present>> /\ tooSlow' = tooSlow
  BY DEF Stepped, BootInv, BootTyped, ataVars
<1>2. tooSlow' \in BOOLEAN
  BY <1>1 DEF BootTyped
<1>3. BootTyped' /\ CardsLookedUp' /\ Accelerated' /\ AllStarted'
  BY <1>1, <1>2, ReadyKeeps
<1>4. "atapi" \in Driver
  BY BootConstants
<1>5. status'["atapi"] = status["atapi"]
  BY <1>4 DEF Ready
<1> QED BY <1>1, <1>3, <1>5, DrivesKeep, TableKeeps DEF BootInv

LEMMA StartUpKeeps == ASSUME BootInv, Stepped, StartUp PROVE BootInv'
<1> DEFINE drivers == {"serial", "keyboard", "pic", "pit", "rtc", "font", "cc"}
<1>1. Stepping("start", 1) /\ At("start")
  BY StepNumber DEF StartUp
<1>2. pc = 1 /\ gui_active \in BOOLEAN
  BY <1>1 DEF Stepping, BootTyped
<1>3. /\ status' = Ready(status, drivers) /\ UNCHANGED <<table, ataVars, gui_active, svga_present>>
  BY DEF StartUp
<1>4. \A d \in {"svga", "e1000", "net", "ide_ctrl", "usb_uhci", "atapi"} : d \notin drivers
  OBVIOUS
<1>5. StartedBy(1)' \subseteq drivers
  BY DEF StartedBy
<1> HIDE DEF drivers
<1>6. gui_active' \in BOOLEAN /\ gui_active' = gui_active
  BY <1>2, <1>3
<1> QED BY <1>2, <1>3, <1>4, <1>5, <1>6, ReadyStep

LEMMA GuiKeeps == ASSUME BootInv, Stepped, Gui PROVE BootInv'
<1> DEFINE drivers == IF gui_active' THEN {"fbcon", "gui_wm"} ELSE {"vga"}
<1>1. Stepping("gui", 2) /\ At("gui")
  BY StepNumber DEF Gui
<1>2. pc = 2 /\ pc <= 2
  BY <1>1 DEF Stepping
<1>3. /\ status' = Ready(status, drivers) /\ UNCHANGED <<table, ataVars, svga_present>>
      /\ gui_active' \in BOOLEAN
  BY DEF Gui
<1>4. \A d \in {"svga", "e1000", "net", "ide_ctrl", "usb_uhci", "atapi"} : d \notin drivers
  OBVIOUS
<1>5. StartedBy(2)' \subseteq drivers
  BY DEF StartedBy
<1> HIDE DEF drivers
<1> QED BY <1>2, <1>3, <1>4, <1>5, ReadyStep

LEMMA FsKeeps == ASSUME BootInv, Stepped, Fs PROVE BootInv'
<1> DEFINE drivers == {"ramfs"}
<1>1. Stepping("fs", 3) /\ At("fs")
  BY StepNumber DEF Fs
<1>2. pc = 3 /\ gui_active \in BOOLEAN
  BY <1>1 DEF Stepping, BootTyped
<1>3. status' = Ready(status, drivers) /\ UNCHANGED <<table, ataVars, gui_active, svga_present>>
  BY DEF Fs
<1>4. \A d \in {"svga", "e1000", "net", "ide_ctrl", "usb_uhci", "atapi"} : d \notin drivers
  OBVIOUS
<1>5. StartedBy(3)' \subseteq drivers
  BY DEF StartedBy
<1> HIDE DEF drivers
<1>6. gui_active' \in BOOLEAN /\ gui_active' = gui_active
  BY <1>2, <1>3
<1> QED BY <1>2, <1>3, <1>4, <1>5, <1>6, ReadyStep

LEMMA StiKeeps == ASSUME BootInv, Stepped, Sti PROVE BootInv'
<1>1. Stepping("sti", 4) /\ At("sti")
  BY StepNumber DEF Sti
<1>2. pc = 4 /\ gui_active \in BOOLEAN /\ status \in [Driver -> {-1, 0, 1, 2}]
  BY <1>1 DEF Stepping, BootTyped
<1>3. UNCHANGED <<table, ataVars, gui_active, svga_present, status>>
  BY DEF Sti
<1>4. status' = Ready(status, {})
  BY <1>2, <1>3 DEF Ready
<1>5. StartedBy(4)' \subseteq {}
  BY DEF StartedBy
<1>6. gui_active' \in BOOLEAN /\ gui_active' = gui_active
  BY <1>2, <1>3
<1> QED BY <1>2, <1>3, <1>4, <1>5, <1>6, ReadyStep

LEMMA MouseKeeps == ASSUME BootInv, Stepped, Mouse PROVE BootInv'
<1> DEFINE drivers == IF gui_active THEN {"mouse", "pcspk"} ELSE {"vga", "pcspk"}
<1>1. Stepping("mouse", 10) /\ At("mouse")
  BY StepNumber DEF Mouse
<1>2. pc = 10 /\ gui_active \in BOOLEAN
  BY <1>1 DEF Stepping, BootTyped
<1>3. status' = Ready(status, drivers) /\ UNCHANGED <<table, ataVars, gui_active, svga_present>>
  BY DEF Mouse
<1>4. \A d \in {"svga", "e1000", "net", "ide_ctrl", "usb_uhci", "atapi"} : d \notin drivers
  OBVIOUS
<1>5. StartedBy(10)' \subseteq drivers
  BY <1>3 DEF StartedBy
<1> HIDE DEF drivers
<1>6. gui_active' \in BOOLEAN /\ gui_active' = gui_active
  BY <1>2, <1>3
<1> QED BY <1>2, <1>3, <1>4, <1>5, <1>6, ReadyStep

LEMMA AtaKeeps == ASSUME BootInv, Stepped, AtaStep PROVE BootInv'
<1> DEFINE drivers == {"ata"}
<1>1. Stepping("ata", 5) /\ At("ata")
  BY StepNumber DEF AtaStep
<1>2. /\ pc = 5 /\ pc' = 6 /\ pc \in 1 .. 11 /\ gui_active \in BOOLEAN /\ tooSlow \in BOOLEAN
      /\ TableScanned /\ DrivesProbed /\ UNCHANGED machine
  BY <1>1 DEF Stepping, BootTyped, Stepped
<1>3. PICK slow \in SUBSET Drive : AtaProbe(machine.drives, slow)
  BY DEF AtaStep
<1>4. status' = Ready(status, drivers) /\ UNCHANGED <<table, gui_active, svga_present>>
  BY DEF AtaStep
<1>5. /\ present' = [i \in Drive |-> IF i \in slow THEN 0 ELSE Identified(machine.drives[i])]
      /\ signature' = [i \in Drive |-> FALSE] /\ tooSlow' = (tooSlow \/ slow # {})
  BY <1>3 DEF AtaProbe
<1>6. DrivesProbed'
  <2>1. pc' <= 7 /\ ~(pc' > 7)
    BY <1>2
  <2>2. ~tooSlow' => slow = {}
    BY <1>5
  <2>3. ~tooSlow' => present' = [i \in Drive |-> Identified(machine.drives[i])]
    BY <1>5, <2>2
  <2> QED BY <1>2, <1>5, <2>1, <2>3 DEF DrivesProbed
<1>7. \A d \in {"svga", "e1000", "net", "ide_ctrl", "usb_uhci", "atapi"} : d \notin drivers
  OBVIOUS
<1>8. StartedBy(5)' \subseteq drivers
  BY DEF StartedBy
<1> HIDE DEF drivers
<1>9. gui_active' \in BOOLEAN /\ gui_active' = gui_active /\ tooSlow' \in BOOLEAN
  BY <1>2, <1>4, <1>5
<1>10. pc' = pc + 1 /\ pc # 6
  BY <1>2
<1>11. BootTyped' /\ CardsLookedUp' /\ Accelerated' /\ AllStarted'
  BY <1>2, <1>4, <1>7, <1>8, <1>9, <1>10, ReadyKeeps
<1> QED BY <1>2, <1>4, <1>6, <1>10, <1>11, TableKeeps DEF BootInv

LEMMA PciKeeps == ASSUME BootInv, Stepped, PciStep PROVE BootInv'
<1> DEFINE drivers == {"pci"}
<1>1. Stepping("pci", 6) /\ At("pci")
  BY StepNumber DEF PciStep
<1>2. /\ pc = 6 /\ pc' = pc + 1 /\ pc \in 1 .. 11 /\ pc # 5 /\ pc # 7 /\ pc <= 6
      /\ gui_active \in BOOLEAN /\ tooSlow \in BOOLEAN /\ DrivesProbed /\ UNCHANGED machine
  BY <1>1 DEF Stepping, BootTyped, Stepped
<1>3. /\ status' = Ready(status, drivers) /\ UNCHANGED <<ataVars, gui_active, svga_present>>
      /\ table' = Scan(machine.bus)
  BY DEF PciStep
<1>4. TableScanned'
  BY <1>2, <1>3 DEF TableScanned
<1>5. \A d \in {"svga", "e1000", "net", "ide_ctrl", "usb_uhci", "atapi"} : d \notin drivers
  OBVIOUS
<1>6. StartedBy(6)' \subseteq drivers
  BY DEF StartedBy
<1> HIDE DEF drivers
<1>7. gui_active' \in BOOLEAN /\ gui_active' = gui_active /\ tooSlow' \in BOOLEAN
  BY <1>2, <1>3 DEF ataVars
<1>8. BootTyped' /\ CardsLookedUp' /\ Accelerated' /\ AllStarted'
  BY <1>2, <1>3, <1>5, <1>6, <1>7, ReadyKeeps
<1>9. "atapi" \in Driver
  BY BootConstants
<1>10. status'["atapi"] = status["atapi"]
  BY <1>3, <1>5, <1>9 DEF Ready
<1> QED BY <1>2, <1>3, <1>4, <1>8, <1>10, DrivesKeep DEF BootInv

\* What the tests of the hardware say goes into the registry as they say it.
LEMMA DetectedIs ==
  /\ DOMAIN Detected = Hardware
  /\ Detected["ide_ctrl"] = Find(table, "ide") /\ Detected["usb_uhci"] = Find(table, "uhci")
  /\ Detected["atapi"] = CdFound'
<1>1. DOMAIN Cards = {"ide_ctrl", "ahci", "usb_uhci", "usb_ohci", "usb_ehci", "usb_xhci", "vga_pci",
                      "isa_bridge", "virtio_blk", "nic2", "audio"}
  BY DEF Cards
<1>2. Cards["ide_ctrl"] = {"ide"} /\ Cards["usb_uhci"] = {"uhci"}
  BY DEF Cards
<1>3. DOMAIN Detected = Hardware
  BY <1>1 DEF Detected, Hardware, Always, Probed
<1>4. \A d \in {"ide_ctrl", "usb_uhci"} : Detected[d] = FindClass(table, Cards[d])
  BY <1>1, <1>3 DEF Detected, Hardware, Always, Probed
<1>5. Detected["atapi"] = CdFound'
  BY <1>1, <1>3 DEF Detected, Hardware, Always, Probed
<1>6. \A d : FindClass(table, {d}) = Find(table, d)
  BY DEF Find, FindClass
<1> QED BY <1>2, <1>3, <1>4, <1>5, <1>6

LEMMA MarkedIs ==
  ASSUME NEW s \in [Driver -> {-1, 0, 1, 2}], NEW found
  PROVE  /\ Marked(s, found) \in [Driver -> {-1, 0, 1, 2}]
         /\ \A d \in Driver : Marked(s, found)[d] = IF d \in DOMAIN found THEN IF found[d] THEN 0 ELSE 2 ELSE s[d]
BY DEF Marked

\* The loop that looks for a CD finds one if there is one and no loop gives up.
LEMMA CdIsFound ==
  ASSUME NEW kinds, AtapiProbe(kinds, {}), signature = [i \in Drive |-> FALSE]
  PROVE  CdFound' <=> \E i \in Drive : kinds[i] = "cd"
<1> DEFINE cds == {i \in Drive : kinds[i] = "cd"}
<1>1. signature' = [i \in Drive |-> signature[i] \/ (i \in cds /\ \A j \in cds : i <= j)]
  BY DEF AtapiProbe
<1>2. \A i \in Drive : signature'[i] <=> i \in cds /\ \A j \in cds : i <= j
  BY <1>1
<1>3. CdFound' <=> \E i \in Drive : signature'[i]
  BY DEF CdFound
<1>4. cds # {} => \E i \in cds : \A j \in cds : i <= j
  <2>1. cds \in SUBSET Nat
    BY AtaAssumption
  <2> HIDE DEF cds
  <2> QED BY <2>1, LeastOf
<1> QED BY <1>2, <1>3, <1>4

LEMMA HwDetectKeeps == ASSUME BootInv, Stepped, HwDetect PROVE BootInv'
<1>1. Stepping("hwdetect", 7) /\ At("hwdetect")
  BY StepNumber DEF HwDetect
<1>2. /\ pc = 7 /\ pc' = 8 /\ pc \in 1 .. 11 /\ gui_active \in BOOLEAN /\ tooSlow \in BOOLEAN /\ svga_present \in BOOLEAN
      /\ machine \in Machine /\ status \in [Driver -> {-1, 0, 1, 2}]
      /\ BootTyped /\ TableScanned /\ DrivesProbed /\ Accelerated /\ AllStarted /\ UNCHANGED machine
  BY <1>1 DEF Stepping, BootTyped, Stepped
<1>3. PICK slow \in SUBSET Drive : AtapiProbe(machine.drives, slow)
  BY DEF HwDetect
<1>4. status' = Marked(status, Detected) /\ UNCHANGED <<table, gui_active, svga_present>>
  BY DEF HwDetect
<1>5. /\ status' \in [Driver -> {-1, 0, 1, 2}]
      /\ \A d \in Hardware : status'[d] = IF Detected[d] THEN 0 ELSE 2
      /\ \A d \in Driver \ Hardware : status'[d] = status[d]
  BY <1>2, <1>4, MarkedIs, DetectedIs, BootConstants
<1>6. tooSlow' = (tooSlow \/ slow # {}) /\ present' = present
  BY <1>3 DEF AtapiProbe
<1>7. BootTyped'
  <2>1. tooSlow' \in BOOLEAN /\ gui_active' \in BOOLEAN /\ svga_present' \in BOOLEAN
    BY <1>2, <1>4, <1>6
  <2> QED BY <1>2, <1>5, <2>1 DEF BootTyped
<1>8. TableScanned'
  BY <1>2, <1>4, TableKeeps
<1>9. DrivesProbed'
  <2>1. pc' > 5 /\ ~(pc' <= 7) /\ pc > 5 /\ pc <= 7
    BY <1>2
  <2>2. ASSUME ~tooSlow' PROVE present' = [i \in Drive |-> Identified(machine'.drives[i])]
    BY <1>2, <1>6, <2>1, <2>2 DEF DrivesProbed
  <2>3. ASSUME ~tooSlow' PROVE status'["atapi"] = 0 <=> \E i \in Drive : machine'.drives[i] = "cd"
    <3>1. slow = {}
      BY <1>6, <2>3
    <3>2. CdFound' <=> \E i \in Drive : machine.drives[i] = "cd"
      BY <1>2, <1>3, <2>1, <3>1, CdIsFound DEF DrivesProbed
    <3>3. status'["atapi"] = IF CdFound' THEN 0 ELSE 2
      BY <1>5, DetectedIs, BootConstants
    <3> QED BY <1>2, <3>2, <3>3
  <2> QED BY <2>1, <2>2, <2>3 DEF DrivesProbed
<1>10. CardsLookedUp'
  <2>1. ~(pc' > 8)
    BY <1>2
  <2>2. "ide_ctrl" \in Hardware /\ "usb_uhci" \in Hardware
    BY BootConstants
  <2>3. /\ status'["ide_ctrl"] = IF Find(table, "ide") THEN 0 ELSE 2
        /\ status'["usb_uhci"] = IF Find(table, "uhci") THEN 0 ELSE 2
    BY <1>5, <2>2, DetectedIs
  <2> QED BY <1>4, <2>1, <2>3 DEF CardsLookedUp
<1>11. Accelerated'
  <2>1. pc <= 9 /\ pc' <= 9 /\ ~(pc' > 9)
    BY <1>2
  <2>2. status'["svga"] = status["svga"]
    BY <1>5, BootConstants
  <2> QED BY <1>2, <1>4, <2>1, <2>2 DEF Accelerated
<1>12. AllStarted'
  <2>1. \A d \in Driver : status[d] # -1 => status'[d] # -1
    BY <1>5
  <2>2. StartedBy(7)' = Hardware
    BY DEF StartedBy
  <2>3. \A d \in StartedBy(7)' : status'[d] # -1
    BY <1>5, <2>2
  <2>4. pc' = pc + 1
    BY <1>2
  <2> QED BY <1>2, <1>4, <2>1, <2>3, <2>4, StartedKeeps
<1> QED BY <1>7, <1>8, <1>9, <1>10, <1>11, <1>12 DEF BootInv

LEMMA NetKeeps == ASSUME BootInv, Stepped, NetStep PROVE BootInv'
<1> DEFINE s == IF ~Find(table, "e1000") THEN 2 ELSE IF machine.mmio /\ machine.link THEN 0 ELSE 1
<1>1. Stepping("net", 8) /\ At("net")
  BY StepNumber DEF NetStep
<1>2. /\ pc = 8 /\ pc' = 9 /\ pc' = pc + 1 /\ pc \in 1 .. 11 /\ gui_active \in BOOLEAN /\ tooSlow \in BOOLEAN
      /\ svga_present \in BOOLEAN /\ machine \in Machine /\ status \in [Driver -> {-1, 0, 1, 2}]
      /\ TableScanned /\ DrivesProbed /\ BootTyped /\ CardsLookedUp /\ Accelerated /\ AllStarted /\ UNCHANGED machine
  BY <1>1 DEF Stepping, BootTyped, Stepped
<1>3. /\ status' = [status EXCEPT !["e1000"] = s, !["net"] = s]
      /\ UNCHANGED <<table, ataVars, gui_active, svga_present>>
  BY DEF NetStep
<1>4. /\ s \in {0, 1, 2} /\ (s = 2 <=> ~Find(table, "e1000")) /\ (s = 0 => machine.link)
  OBVIOUS
<1> HIDE DEF s
<1>5. /\ status' \in [Driver -> {-1, 0, 1, 2}] /\ status'["e1000"] = s /\ status'["net"] = s
      /\ \A d \in Driver : d # "e1000" /\ d # "net" => status'[d] = status[d]
  BY <1>2, <1>3, <1>4, BootConstants
<1>6. \A d \in {"svga", "ide_ctrl", "usb_uhci", "atapi"} : status'[d] = status[d]
  BY <1>5, BootConstants
<1>7. BootTyped'
  <2>1. tooSlow' \in BOOLEAN /\ gui_active' \in BOOLEAN /\ svga_present' \in BOOLEAN
    BY <1>2, <1>3 DEF ataVars
  <2> QED BY <1>2, <1>5, <2>1 DEF BootTyped
<1>8. TableScanned' /\ DrivesProbed'
  BY <1>2, <1>3, <1>6, TableKeeps, DrivesKeep
<1>9. CardsLookedUp'
  <2>1. pc > 7
    BY <1>2
  <2> QED BY <1>2, <1>3, <1>4, <1>5, <1>6, <2>1 DEF CardsLookedUp
<1>10. Accelerated'
  <2>1. pc <= 9 /\ pc' <= 9 /\ ~(pc' > 9)
    BY <1>2
  <2> QED BY <1>2, <1>3, <1>6, <2>1 DEF Accelerated
<1>11. AllStarted'
  <2>1. \A d \in Driver : status[d] # -1 => status'[d] # -1
    BY <1>4, <1>5
  <2>2. StartedBy(8)' = {"e1000", "net"}
    BY DEF StartedBy
  <2>3. \A d \in StartedBy(8)' : status'[d] # -1
    BY <1>4, <1>5, <2>2
  <2> QED BY <1>2, <1>3, <2>1, <2>3, StartedKeeps
<1> QED BY <1>7, <1>8, <1>9, <1>10, <1>11 DEF BootInv

LEMMA SvgaKeeps == ASSUME BootInv, Stepped, NEW sync \in BOOLEAN, Svga(sync) PROVE BootInv'
<1> DEFINE found == Find(table, "svga")
           s == IF ~found THEN 2 ELSE IF svga_present' THEN 0 ELSE 1
<1>1. Stepping("svga", 9) /\ At("svga")
  BY StepNumber DEF Svga
<1>2. /\ pc = 9 /\ pc' = 10 /\ pc' = pc + 1 /\ pc \in 1 .. 11 /\ gui_active \in BOOLEAN /\ tooSlow \in BOOLEAN
      /\ svga_present \in BOOLEAN /\ machine \in Machine /\ status \in [Driver -> {-1, 0, 1, 2}]
      /\ TableScanned /\ DrivesProbed /\ BootTyped /\ CardsLookedUp /\ Accelerated /\ AllStarted /\ UNCHANGED machine
  BY <1>1 DEF Stepping, BootTyped, Stepped
<1>3. /\ svga_present' \in BOOLEAN /\ (svga_present' => gui_active /\ found)
      /\ UNCHANGED <<table, ataVars, gui_active>>
      /\ gui_active => status' = [status EXCEPT !["svga"] = s]
      /\ ~gui_active => status' = status
  BY DEF Svga
<1>4. s \in {0, 1, 2} /\ (s = 2 <=> ~found) /\ (s = 0 <=> svga_present')
  BY <1>3
<1>5. status["svga"] = -1
  BY <1>2 DEF Accelerated
<1> HIDE DEF s
<1>6. /\ status' \in [Driver -> {-1, 0, 1, 2}] /\ status'["svga"] = (IF gui_active THEN s ELSE -1)
      /\ \A d \in Driver : d # "svga" => status'[d] = status[d]
  BY <1>2, <1>3, <1>4, <1>5, BootConstants
<1>7. \A d \in {"e1000", "net", "ide_ctrl", "usb_uhci", "atapi"} : status'[d] = status[d]
  BY <1>6, BootConstants
<1>8. BootTyped'
  <2>1. tooSlow' \in BOOLEAN /\ gui_active' \in BOOLEAN
    BY <1>2, <1>3 DEF ataVars
  <2> QED BY <1>2, <1>3, <1>6, <2>1 DEF BootTyped
<1>9. TableScanned' /\ DrivesProbed'
  BY <1>2, <1>3, <1>7, TableKeeps, DrivesKeep
<1>10. CardsLookedUp'
  <2>1. pc > 7 /\ pc > 8
    BY <1>2
  <2> QED BY <1>2, <1>3, <1>7, <2>1 DEF CardsLookedUp
<1>11. Accelerated'
  <2>1. pc' > 9 /\ ~(pc' <= 9)
    BY <1>2
  <2>2. CASE gui_active
    <3>1. gui_active' /\ status'["svga"] = s /\ Find(table, "svga")' = found
      BY <1>3, <1>6, <2>2
    <3> QED BY <1>4, <2>1, <3>1 DEF Accelerated
  <2>3. CASE ~gui_active
    <3>1. ~gui_active' /\ status'["svga"] = -1 /\ ~svga_present'
      BY <1>3, <1>6, <2>3
    <3> QED BY <3>1 DEF Accelerated
  <2> QED BY <2>2, <2>3
<1>12. AllStarted'
  <2>1. \A d \in Driver : status[d] # -1 => status'[d] # -1
    BY <1>5, <1>6
  <2>2. StartedBy(9)' = IF gui_active THEN {"svga"} ELSE {}
    BY <1>3 DEF StartedBy
  <2>3. \A d \in StartedBy(9)' : status'[d] # -1
    BY <1>4, <1>6, <2>2
  <2> QED BY <1>2, <1>3, <2>1, <2>3, StartedKeeps
<1> QED BY <1>8, <1>9, <1>10, <1>11, <1>12 DEF BootInv

LEMMA BootSteps == BootInv /\ BootStep => BootInv'
<1> SUFFICES ASSUME BootInv, BootStep PROVE BootInv'
  OBVIOUS
<1>1. Stepped
  BY DEF BootStep, Stepped
<1>2. PICK sync \in BOOLEAN :
        \/ StartUp \/ Gui \/ Fs \/ Sti \/ AtaStep \/ PciStep \/ HwDetect \/ NetStep \/ Svga(sync) \/ Mouse
  BY DEF BootStep
<1> QED BY <1>1, <1>2, StartUpKeeps, GuiKeeps, FsKeeps, StiKeeps, AtaKeeps, PciKeeps, HwDetectKeeps,
  NetKeeps, SvgaKeeps, MouseKeeps

LEMMA BootSpecInv == DisplaySpec => []BootInv
<1>1. DisplayInit => BootInv
  BY BootStarts DEF DisplayInit
<1>2. BootInv /\ [DisplayNext]_displayVars => BootInv'
  <2> SUFFICES ASSUME BootInv, [DisplayNext]_displayVars PROVE BootInv'
    OBVIOUS
  <2>1. CASE BootStep
    BY <2>1, BootSteps
  <2>2. CASE UNCHANGED bootVars
    BY <2>2, BootStays
  <2>3. BootStep \/ UNCHANGED bootVars
    <3>1. CASE DisplayNext
      BY <3>1 DEF DisplayNext, ResRefused, ResGivenUp, Clicked, ResApply, Relocate, ResSettled, DrawDirect, MoveCursor
    <3>2. CASE UNCHANGED displayVars
      BY <3>2 DEF displayVars
    <3> QED BY <3>1, <3>2
  <2> QED BY <2>1, <2>2, <2>3
<1> QED BY <1>1, <1>2, PTL DEF DisplaySpec

\* A function on the bus is one that answers for itself.
LEMMA OnBusIs ==
  ASSUME machine.bus \in Bus
  PROVE  /\ \A d : d # NoDevice => OnBus(d) = {at \in There(machine.bus) : Kind(machine.bus, at) = d}
         /\ UNION {OnBus(d) : d \in Device} = There(machine.bus)
<1> DEFINE bus == machine.bus
           places == BusSlot \X Func
           On(at, d) == bus[at[1]].func[at[2]] = d /\ (at[2] = 0 \/ bus[at[1]].multi)
<1>1. \A d : OnBus(d) = {at \in places : On(at, d)}
  BY DEF OnBus, BusSlot, Func
<1>2. ASSUME NEW at \in places
      PROVE  /\ at[1] \in BusSlot /\ at[2] \in Func /\ (~(at[2] > 0) <=> at[2] = 0)
             /\ bus[at[1]].multi => bus[at[1]].func[0] # NoDevice
  <2>1. at[1] \in BusSlot /\ at[2] \in Func
    BY <1>2
  <2>2. bus[at[1]] \in Slot
    BY <2>1 DEF Bus
  <2>3. ~(at[2] > 0) <=> at[2] = 0
    BY <2>1, PciAssumption DEF Func
  <2> QED BY <2>1, <2>2, <2>3 DEF Slot
<1>3. ASSUME NEW at \in places, NEW d, d # NoDevice
      PROVE  On(at, d) <=> Answers(bus[at[1]], at[2]) /\ Kind(bus, at) = d
  BY <1>2, <1>3 DEF Answers, Kind
<1>4. There(bus) = {at \in places : Answers(bus[at[1]], at[2])}
  BY DEF There
<1> HIDE DEF places, On, bus
<1>5. ASSUME NEW d, d # NoDevice PROVE OnBus(d) = {at \in There(bus) : Kind(bus, at) = d}
  BY <1>1, <1>3, <1>4, <1>5
<1>6. \A d \in Device : d # NoDevice
  BY PciAssumption
<1>7. \A at \in There(bus) : Kind(bus, at) \in Device
  BY KindIs DEF bus
<1>8. UNION {OnBus(d) : d \in Device} = There(bus)
  <2>1. \A at : at \in UNION {OnBus(d) : d \in Device} <=> \E d \in Device : at \in OnBus(d)
    OBVIOUS
  <2>2. \A d \in Device : OnBus(d) = {at \in There(bus) : Kind(bus, at) = d}
    BY <1>5, <1>6
  <2> QED BY <1>7, <2>1, <2>2
<1> QED BY <1>5, <1>8 DEF bus

\* What the table says of the bus, once it is there and if it was large enough.
LEMMA TableSays ==
  ASSUME BootInv, pc > 6, FitsTable, NEW d, d # NoDevice
  PROVE  /\ Cardinality({i \in DOMAIN table : table[i] = d}) = Cardinality(OnBus(d))
         /\ Find(table, d) <=> OnBus(d) # {}
<1>1. machine.bus \in Bus /\ table = Scan(machine.bus)
  BY MachineAssumption DEF BootInv, BootTyped, TableScanned, Bus, BusSlot
<1>2. /\ OnBus(d) = {at \in There(machine.bus) : Kind(machine.bus, at) = d}
      /\ UNION {OnBus(e) : e \in Device} = There(machine.bus)
  BY <1>1, OnBusIs
<1>3. Cardinality(There(machine.bus)) <= MaxDevs
  BY <1>2 DEF FitsTable
<1>4. Told(machine.bus, table, There(machine.bus))
  BY <1>1, <1>3, AllTold
<1>5. /\ Cardinality({i \in DOMAIN table : table[i] = d})
         = Cardinality({at \in There(machine.bus) : Kind(machine.bus, at) = d})
      /\ Find(table, d) <=> {at \in There(machine.bus) : Kind(machine.bus, at) = d} # {}
  BY <1>1, <1>4, Counts
<1> QED BY <1>2, <1>5

\* The table of the PCI devices holds every function on the bus, once, if there are at most
\* as many as it has entries: the scan passes a function that answers for another one and
\* goes on behind a number that is left out.
THEOREM TableIsExact == DisplaySpec => []TableExact
<1>1. BootInv => TableExact
  <2> SUFFICES ASSUME BootInv, Booted, FitsTable, NEW d \in Device
               PROVE  Cardinality({i \in DOMAIN table : table[i] = d}) = Cardinality(OnBus(d))
    BY DEF TableExact
  <2>1. pc > 6
    <3>1. pc = 11
      BY StepIs DEF BootInv, Booted, Nth
    <3> QED BY <3>1
  <2>2. d # NoDevice
    BY PciAssumption
  <2> QED BY <2>1, <2>2, TableSays
<1> QED BY <1>1, BootSpecInv, PTL

\* When the shell starts the registry says of the cards and drives what the machine has,
\* for every machine: no step of the start takes back what an earlier one found, and none
\* looks before what it looks at is there.
THEOREM RegistryIsTrue == DisplaySpec => []RegistryTrue
<1>1. ASSUME BootInv, Booted PROVE RegistryTrue
  <2>1. /\ pc = 11 /\ BootTyped /\ DrivesProbed /\ CardsLookedUp /\ Accelerated /\ AllStarted
        /\ gui_active \in BOOLEAN /\ machine \in Machine
    BY <1>1, StepIs DEF BootInv, BootTyped, Booted, Nth
  <2>2. pc > 5 /\ pc > 6 /\ pc > 7 /\ pc > 8 /\ pc > 9 /\ ~(pc <= 9) /\ \A n \in 1 .. 10 : pc > n
    BY <2>1
  <2>3. ASSUME FitsTable
        PROVE  /\ \A d \in {"e1000", "net"} : status[d] = 2 <=> OnBus("e1000") = {}
               /\ status["e1000"] = 0 => machine.link
               /\ gui_active => (status["svga"] = 2 <=> OnBus("svga") = {})
               /\ status["ide_ctrl"] = 0 <=> OnBus("ide") # {}
               /\ status["usb_uhci"] = 0 <=> OnBus("uhci") # {}
    <3>1. \A d \in {"e1000", "svga", "ide", "uhci"} : d # NoDevice
      BY MachineAssumption
    <3>2. \A d \in {"e1000", "svga", "ide", "uhci"} : Find(table, d) <=> OnBus(d) # {}
      BY <1>1, <2>2, <2>3, <3>1, TableSays
    <3>3. /\ \A d \in {"e1000", "net"} : status[d] = 2 <=> ~Find(table, "e1000")
          /\ status["e1000"] = 0 => machine.link
          /\ status["ide_ctrl"] = 0 <=> Find(table, "ide")
          /\ status["usb_uhci"] = 0 <=> Find(table, "uhci")
      BY <2>1, <2>2 DEF CardsLookedUp
    <3>4. gui_active => (status["svga"] = 2 <=> ~Find(table, "svga"))
      BY <2>1, <2>2 DEF Accelerated
    <3> QED BY <3>2, <3>3, <3>4
  <2>4. ASSUME ~tooSlow PROVE status["atapi"] = 0 <=> \E i \in Drive : present[i] = 2
    <3>1. present = [i \in Drive |-> Identified(machine.drives[i])]
      BY <2>1, <2>2, <2>4 DEF DrivesProbed
    <3>2. status["atapi"] = 0 <=> \E i \in Drive : machine.drives[i] = "cd"
      BY <2>1, <2>2, <2>4 DEF DrivesProbed
    <3>3. \A i \in Drive : machine.drives[i] \in {"none", "disk", "cd"}
      BY <2>1, MachineAssumption
    <3>4. \A i \in Drive : present[i] = 2 <=> machine.drives[i] = "cd"
      BY <3>1, <3>3 DEF Identified
    <3> QED BY <3>2, <3>4
  <2>5. status["svga"] = 0 <=> svga_present
    BY <2>1 DEF Accelerated
  <2>6. ASSUME NEW d \in Driver, status[d] = -1
        PROVE  d \in IF gui_active THEN {"vga"} ELSE {"svga", "mouse", "fbcon", "gui_wm"}
    <3>1. \A n \in 1 .. 10 : d \notin StartedBy(n)
      BY <2>1, <2>2, <2>6 DEF AllStarted
    <3>2. \A n \in {1, 2, 3, 5, 6, 7, 8, 9, 10} : d \notin StartedBy(n)
      BY <3>1
    <3>3. /\ d \notin {"serial", "keyboard", "pic", "pit", "rtc", "font", "cc"} /\ d \notin {"ramfs"}
          /\ d \notin {"ata"} /\ d \notin {"pci"} /\ d \notin Hardware /\ d \notin {"e1000", "net"}
          /\ d \notin {"pcspk"}
          /\ gui_active => d \notin {"fbcon", "gui_wm"} /\ d \notin {"svga"} /\ d \notin {"mouse"}
          /\ ~gui_active => d \notin {"vga"}
      BY <2>1, <3>2 DEF StartedBy
    <3> QED BY <2>1, <3>3 DEF Driver, Hardware
  <2> QED BY <2>3, <2>4, <2>5, <2>6 DEF RegistryTrue
<1>2. BootInv => RegistryTrue
  BY <1>1 DEF RegistryTrue
<1> QED BY <1>2, BootSpecInv, PTL
----------------------------------------------------------------------------
(* The display. *)

\* As it is on the screen, but while res_apply waits: the frame buffer may have moved and the
\* cursor may be where the larger screen was.
DispTyped ==
  /\ fb_w \in Nat \ {0} /\ mouse_x \in Nat /\ cfg_res \in 1 .. Len(Mode)
  /\ use_back \in BOOLEAN /\ direct \in BOOLEAN
DrawnTo == IF direct THEN draw = fb ELSE use_back => draw = Back
DispInv ==
  /\ DispTyped /\ DrawnTo
  /\ settling \in BOOLEAN /\ lost \in BOOLEAN /\ (settling => ~lost)
  /\ ~settling => mouse_x < fb_w
  /\ draw_stride = fb_pitch
  /\ ~lost => /\ fb_pitch = scanout.pitch /\ fb_w = scanout.width
              /\ ~settling => fb = scanout.at

LEMMA DispFrame ==
  ASSUME DispInv, UNCHANGED display
  PROVE  DispInv'
BY DEF DispInv, DispTyped, DrawnTo, display

LEMMA DispModes ==
  ASSUME cfg_res \in 1 .. Len(Mode)
  PROVE  NextMode \in 1 .. Len(Mode) /\ Mode[NextMode] \in Nat \ {0}
<1>1. Len(Mode) \in Nat \ {0} /\ \A i \in 1 .. Len(Mode) : Mode[i] \in Nat \ {0}
  BY DisplayAssumption, LenProperties, ElementOfSeq, EmptySeq
<1>2. NextMode \in 1 .. Len(Mode)
  BY <1>1 DEF NextMode
<1> QED BY <1>1, <1>2

LEMMA DispInit ==
  ASSUME DisplayInit
  PROVE  DispInv
<1>1. PICK at \in Address, w \in BootMode, long \in BOOLEAN : scanout = Shown(at, w, long)
  BY DEF DisplayInit
<1>2. Len(Mode) \in Nat \ {0} /\ w \in Nat \ {0}
  BY DisplayAssumption, LenProperties, EmptySeq
<1>3. w \div 2 \in Nat /\ w \div 2 < w
  BY <1>2
<1>4. scanout.at = at /\ scanout.width = w
  BY <1>1 DEF Shown
<1>5. /\ fb = scanout.at /\ fb_w = w /\ fb_pitch = scanout.pitch /\ draw_stride = fb_pitch
      /\ cfg_res = 1 /\ mouse_x \in Nat /\ mouse_x < fb_w
  BY <1>3, <1>4 DEF DisplayInit
<1>6. direct = FALSE /\ settling = FALSE /\ lost = FALSE /\ use_back \in BOOLEAN /\ (use_back => draw = Back)
  BY DEF DisplayInit
<1>7. DispTyped
  <2>1. direct \in BOOLEAN
    BY <1>6
  <2>2. fb_w \in Nat \ {0} /\ mouse_x \in Nat /\ cfg_res \in 1 .. Len(Mode)
    BY <1>2, <1>5
  <2> QED BY <1>6, <2>1, <2>2 DEF DispTyped
<1>8. DrawnTo
  BY <1>6 DEF DrawnTo
<1>9. settling \in BOOLEAN /\ lost \in BOOLEAN /\ ~settling /\ ~lost
  BY <1>6
<1> QED BY <1>4, <1>5, <1>7, <1>8, <1>9 DEF DispInv

LEMMA DispStep ==
  ASSUME DispInv, [DisplayNext]_displayVars
  PROVE  DispInv'
<1>1. CASE BootStep /\ UNCHANGED display
  BY <1>1, DispFrame
<1>2. CASE ResRefused
  BY <1>2, DispModes DEF ResRefused, Clicked, DispInv, DispTyped, DrawnTo
<1>3. CASE \E at \in Address \cup {NoAddress}, long \in BOOLEAN : ResGivenUp(at, long)
  <2>1. /\ cfg_res' = NextMode /\ ~settling /\ lost' = TRUE
        /\ UNCHANGED <<fb, fb_w, fb_pitch, draw_stride, use_back, direct, draw, settling, mouse_x>>
    BY <1>3 DEF ResGivenUp, Clicked, Shell
  <2>2. DispTyped'
    BY <2>1, DispModes DEF DispInv, DispTyped
  <2>3. DrawnTo'
    BY <2>1 DEF DispInv, DrawnTo
  <2>4. settling' \in BOOLEAN /\ lost' \in BOOLEAN /\ lost' /\ ~settling'
    BY <2>1 DEF DispInv
  <2>5. mouse_x' < fb_w' /\ draw_stride' = fb_pitch'
    BY <2>1 DEF DispInv
  <2> QED BY <2>2, <2>3, <2>4, <2>5 DEF DispInv
<1>4. CASE \E at \in Address \cup {NoAddress}, long \in BOOLEAN : ResApply(at, long)
  <2>1. PICK at \in Address \cup {NoAddress}, long \in BOOLEAN : ResApply(at, long)
    BY <1>4
  <2>2. /\ cfg_res' = NextMode /\ scanout' = Shown(at, Mode[NextMode], long) /\ settling' = TRUE
        /\ fb' = at /\ fb_w' = Mode[NextMode] /\ fb_pitch' = scanout'.pitch /\ draw_stride' = fb_pitch'
        /\ draw' = (IF direct THEN at ELSE draw) /\ lost' = FALSE /\ UNCHANGED <<use_back, direct, mouse_x>>
    BY <2>1 DEF ResApply, Clicked
  <2>3. scanout'.width = Mode[NextMode]
    BY <2>2 DEF Shown
  <2>4. DispTyped'
    BY <2>2, DispModes DEF DispInv, DispTyped
  <2>5. DrawnTo'
    BY <2>2 DEF DispInv, DrawnTo
  <2>6. settling' \in BOOLEAN /\ lost' \in BOOLEAN /\ settling' /\ ~lost'
    BY <2>2
  <2>7. fb_pitch' = scanout'.pitch /\ fb_w' = scanout'.width /\ draw_stride' = fb_pitch'
    BY <2>2, <2>3
  <2> QED BY <2>4, <2>5, <2>6, <2>7 DEF DispInv
<1>5. CASE \E at \in Address \cup {NoAddress} : Relocate(at)
  BY <1>5 DEF Relocate, DispInv, DispTyped, DrawnTo
<1>6. CASE ResSettled
  <2>1. /\ fb' = FbStart /\ draw' = (IF direct THEN FbStart ELSE draw) /\ settling' = FALSE
        /\ mouse_x' = (IF mouse_x >= fb_w THEN fb_w - 1 ELSE mouse_x)
        /\ lost' = (scanout.at = NoAddress)
        /\ UNCHANGED <<scanout, fb_w, fb_pitch, draw_stride, use_back, direct, cfg_res>>
    BY <1>6 DEF ResSettled, CursorAfter
  <2>2. DispTyped' /\ mouse_x' < fb_w'
    BY <2>1 DEF DispInv, DispTyped
  <2>3. DrawnTo'
    BY <2>1 DEF DispInv, DrawnTo
  <2>4. ~lost' => fb' = scanout'.at
    BY <2>1 DEF FbStart
  <2>5. ~lost /\ fb_pitch = scanout.pitch /\ fb_w = scanout.width /\ draw_stride = fb_pitch
    BY <1>6 DEF ResSettled, DispInv
  <2>6. settling' \in BOOLEAN /\ lost' \in BOOLEAN /\ ~settling'
    BY <2>1
  <2> QED BY <2>1, <2>2, <2>3, <2>4, <2>5, <2>6 DEF DispInv
<1>7. CASE DrawDirect
  BY <1>7 DEF DrawDirect, Shell, DispInv, DispTyped, DrawnTo
<1>8. CASE \E dx \in Step : MoveCursor(dx)
  BY <1>8, DisplayAssumption DEF MoveCursor, Within, DispInv, DispTyped, DrawnTo
<1>9. CASE UNCHANGED displayVars
  BY <1>9, DispFrame DEF displayVars
<1> QED BY <1>1, <1>2, <1>3, <1>4, <1>5, <1>6, <1>7, <1>8, <1>9 DEF DisplayNext

LEMMA DispSpec == DisplaySpec => []DispInv
<1>1. DisplayInit => DispInv
  BY DispInit
<1>2. DispInv /\ [DisplayNext]_displayVars => DispInv'
  BY DispStep
<1> QED BY <1>1, <1>2, PTL DEF DisplaySpec

\* The cursor is on the screen whenever a frame may be drawn, for all modes and steps of
\* the mouse, whose handler runs between any two steps of a change of resolution.
THEOREM CursorStays == DisplaySpec => []CursorInside
<1>1. DispInv => CursorInside
  BY DEF DispInv, DispTyped, CursorInside, Shell
<1> QED BY <1>1, DispSpec, PTL

\* Between two frames the driver has the geometry and the address that the card has, wherever
\* and whenever the card moved its frame buffer during the last change, and draws into
\* fb_back or where the card draws too; a change given up halfway, and a large frame buffer
\* without acceleration, are left out.
THEOREM ScreenIsFollowed == DisplaySpec => []ScreenFollows
<1>1. DispInv => ScreenFollows
  BY DEF DispInv, DispTyped, DrawnTo, ScreenFollows, Shell
<1> QED BY <1>1, DispSpec, PTL
---------------------------------------------------------------------------
(* The command ring of the SVGA device.  F_NEXT and F_STOP are multiples of *)
(* the size of a command, and so is the ring: the driver never starts over. *)

Commands == Words \div CmdWords
Firsts(m) == [i \in RingIndex(Commands + 1) |-> m[i * CmdWords]]
CmdQueue(m, n, s) == RingSeq(Commands + 1, Firsts(m), n, s)

RingAt(n, s) == /\ n \in 0 .. Commands /\ s \in 0 .. n
                /\ next = n * CmdWords /\ stop = s * CmdWords

RingInv ==
  /\ \E n, s \in 0 .. Commands : RingAt(n, s)
  /\ DOMAIN mem = 0 .. Words - 1
  /\ cmd # NoCmd => off = next /\ next < Words
  /\ \A w \in 0 .. Words - 1 :
       w >= next => mem[w] = NoCmd \/ (cmd # NoCmd /\ w < next + CmdWords /\ mem[w] = cmd)

\* Multiples.
LEMMA TimesIs ==
  ASSUME NEW c \in Nat \ {0}, NEW a \in Nat
  PROVE  a * c \in Nat /\ (a + 1) * c = a * c + c /\ (a * c) \div c = a /\ (a * c) % c = 0
OBVIOUS

LEMMA TimesStep ==
  ASSUME NEW c \in Nat \ {0}, NEW a \in Nat, NEW b \in Nat, a < b
  PROVE  (a + 1) * c <= b * c /\ a * c < b * c
<1>1. PICK d \in Nat : b = a + 1 + d
  <2>1. b - (a + 1) \in Nat /\ b = a + 1 + (b - (a + 1))
    OBVIOUS
  <2> QED BY <2>1
<1>2. b * c = (a + 1) * c + d * c /\ d * c \in Nat
  BY <1>1
<1>3. (a + 1) * c = a * c + c /\ a * c \in Nat
  BY TimesIs
<1> QED BY <1>2, <1>3

LEMMA WordsAre ==
  /\ CmdWords \in Nat \ {0} /\ Commands \in Nat \ {0} /\ Words = Commands * CmdWords
  /\ Words \in Nat \ {0}
<1>1. /\ CmdWords \in Nat \ {0} /\ Words \in Nat \ {0} /\ Words > CmdWords
      /\ Words % CmdWords = 0
  BY FifoAssumption
<1>2. Words = (Words \div CmdWords) * CmdWords + (Words % CmdWords)
  BY <1>1
<1>3. Words \div CmdWords \in Nat /\ Words \div CmdWords # 0
  BY <1>1
<1> QED BY <1>1, <1>2, <1>3 DEF Commands

\* The commands between F_STOP and F_NEXT, by their first words.
Between(m, x, y) ==
  [k \in 1 .. (IF x >= y THEN x - y ELSE Words - y + x) \div CmdWords |->
     m[(y + (k - 1) * CmdWords) % Words]]

LEMMA CmdQueueIs ==
  ASSUME NEW m, NEW n \in 0 .. Commands, NEW s \in 0 .. n,
         NEW x, NEW y, x = n * CmdWords, y = s * CmdWords
  PROVE  Between(m, x, y) = CmdQueue(m, n, s)
<1>0. n \in Nat /\ s \in Nat /\ n - s \in Nat /\ n \in RingIndex(Commands + 1)
      /\ s \in RingIndex(Commands + 1) /\ Commands + 1 \in Nat \ {0}
  BY WordsAre DEF RingIndex
<1>1. x >= y /\ (x - y) \div CmdWords = n - s
  <2>1. x = y + (n - s) * CmdWords /\ y \in Nat /\ (n - s) * CmdWords \in Nat
    <3>1. n = s + (n - s)
      BY <1>0
    <3> QED BY <1>0, <3>1, WordsAre
  <2>2. ((n - s) * CmdWords) \div CmdWords = n - s
    BY <1>0, WordsAre, TimesIs
  <2>3. x - y = (n - s) * CmdWords
    BY <2>1
  <2> QED BY <2>1, <2>2, <2>3
<1>2. RingDist(Commands + 1, n, s) = n - s
  BY <1>0, RingDistIs
<1>3. ASSUME NEW k \in 1 .. n - s
      PROVE  m[(y + (k - 1) * CmdWords) % Words] = Firsts(m)[RingCell(Commands + 1, s, k - 1)]
  <2>1. k - 1 \in Nat /\ s + (k - 1) \in Nat /\ s + (k - 1) < Commands /\ s + (k - 1) < n
        /\ k - 1 \in RingIndex(Commands + 1) /\ s + (k - 1) \in RingIndex(Commands + 1)
    BY <1>0, <1>3, WordsAre DEF RingIndex
  <2>2. RingCell(Commands + 1, s, k - 1) = s + (k - 1)
    <3> DEFINE j == k - 1
               N == Commands + 1
    <3>1. j \in RingIndex(N) /\ s \in RingIndex(N) /\ N \in Nat \ {0} /\ s + j < N
      BY <1>0, <2>1, WordsAre
    <3> HIDE DEF j, N
    <3>2. RingCell(N, s, j) = s + j
      BY <3>1, RingCellIs DEF RingCell
    <3> QED BY <3>2 DEF j, N
  <2>3. y + (k - 1) * CmdWords = (s + (k - 1)) * CmdWords
    BY <1>0, <2>1, WordsAre
  <2>4. (s + (k - 1)) * CmdWords \in 0 .. Words - 1
    BY <1>0, <2>1, WordsAre, TimesIs, TimesStep
  <2>5. (y + (k - 1) * CmdWords) % Words = (s + (k - 1)) * CmdWords
    BY <2>3, <2>4, WordsAre, ModSmall
  <2> QED BY <2>1, <2>2, <2>5 DEF Firsts
<1> QED BY <1>1, <1>2, <1>3 DEF Between, CmdQueue, RingSeq

LEMMA QueuedIs ==
  ASSUME NEW n, NEW s, RingAt(n, s)
  PROVE  Queued = CmdQueue(mem, n, s)
<1>1. n \in 0 .. Commands /\ s \in 0 .. n /\ next = n * CmdWords /\ stop = s * CmdWords
  BY DEF RingAt
<1>2. Queued = Between(mem, next, stop)
  BY DEF Queued, Used, Between
<1> QED BY <1>1, <1>2, CmdQueueIs

LEMMA QueuedThen ==
  ASSUME NEW n, NEW s, RingAt(n, s)'
  PROVE  Queued' = CmdQueue(mem', n, s)
<1>1. n \in 0 .. Commands /\ s \in 0 .. n /\ next' = n * CmdWords /\ stop' = s * CmdWords
  BY DEF RingAt
<1>2. Queued' = Between(mem', next', stop')
  BY DEF Queued, Used, Between
<1> QED BY <1>1, <1>2, CmdQueueIs

LEMMA QueuedLen ==
  ASSUME NEW n, NEW s, RingAt(n, s)
  PROVE  Len(Queued) = n - s /\ n - s \in Nat
<1>1. n \in RingIndex(Commands + 1) /\ s \in RingIndex(Commands + 1) /\ Commands + 1 \in Nat \ {0}
      /\ n >= s /\ n - s \in Nat
  BY WordsAre DEF RingIndex, RingAt
<1>2. RingDist(Commands + 1, n, s) = n - s
  BY <1>1, RingDistIs
<1> QED BY <1>1, <1>2, QueuedIs, RingSeqLen DEF CmdQueue

LEMMA RingStarts == FifoInit => RingInv /\ Queued = <<>>
<1> SUFFICES ASSUME FifoInit PROVE RingInv /\ Queued = <<>>
  OBVIOUS
<1>1. RingAt(0, 0)
  BY WordsAre DEF FifoInit, RingAt
<1>2. RingInv
  BY <1>1, WordsAre DEF FifoInit, RingInv
<1>3. Len(Queued) = 0
  BY <1>1, QueuedLen
<1>4. Used = 0 /\ 0 \div CmdWords = 0
  BY WordsAre DEF FifoInit, Used
<1>5. Queued = <<>>
  BY <1>4 DEF Queued
<1> QED BY <1>2, <1>5

\* F_NEXT never comes so near to the end that a command has to start over: it stands
\* before the last command, or at the end, where the ring is rejected.
LEMMA ReserveDoes ==
  ASSUME RingInv, NEW r \in Rect, Reserve(r)
  PROVE  /\ cmd = NoCmd /\ cmd' = r /\ off' = next /\ next < Words
         /\ UNCHANGED <<mem, next, stop>>
         /\ RingInv' /\ Queued' = Queued
<1>1. PICK n \in 0 .. Commands, s \in 0 .. Commands : RingAt(n, s)
  BY DEF RingInv
<1>2. next < Words /\ n \in Nat /\ n # Commands
  BY <1>1, WordsAre DEF Reserve, Broken, RingAt
<1>3. next + CmdWords <= Words
  <2>1. n < Commands /\ (n + 1) * CmdWords = n * CmdWords + CmdWords
    BY <1>1, <1>2, WordsAre, TimesIs
  <2>2. (n + 1) * CmdWords <= Commands * CmdWords
    BY <1>2, <2>1, WordsAre, TimesStep
  <2> QED BY <1>1, <2>1, <2>2, WordsAre DEF RingAt
<1>4. ~AtEnd
  <2>1. next \in Nat
    BY <1>1, <1>2, WordsAre, TimesIs DEF RingAt
  <2> QED BY <1>3, <2>1, WordsAre DEF AtEnd
<1>5. cmd = NoCmd /\ cmd' = r /\ off' = next /\ UNCHANGED <<mem, next, stop>>
  BY <1>4 DEF Reserve
<1>6. RingInv'
  BY <1>1, <1>2, <1>5 DEF RingInv, RingAt
<1>7. Queued' = Queued
  BY <1>5 DEF Queued, Used
<1> QED BY <1>2, <1>5, <1>6, <1>7

LEMMA PutDoes ==
  ASSUME RingInv, Put
  PROVE  /\ UNCHANGED <<next, stop, off, cmd>>
         /\ RingInv' /\ Queued' = Queued
<1>1. PICK n \in 0 .. Commands, s \in 0 .. Commands : RingAt(n, s)
  BY DEF RingInv
<1>2. /\ cmd # NoCmd /\ off = next /\ next < Words /\ next \in Nat /\ n \in Nat /\ s \in Nat /\ s <= n
      /\ UNCHANGED <<next, stop, off, cmd>>
  BY <1>1, WordsAre, TimesIs DEF RingInv, Put, RingAt
<1>3. n < Commands /\ next + CmdWords <= Words
  <2>1. n # Commands
    BY <1>1, <1>2, WordsAre DEF RingAt
  <2>2. n < Commands
    BY <1>1, <1>2, <2>1, WordsAre
  <2>3. (n + 1) * CmdWords <= Commands * CmdWords /\ (n + 1) * CmdWords = n * CmdWords + CmdWords
    BY <1>2, <2>2, WordsAre, TimesStep, TimesIs
  <2> QED BY <1>1, <2>2, <2>3, WordsAre DEF RingAt
<1>4. WordsAt(off) = next .. next + CmdWords - 1
  <2>1. \A k \in 0 .. CmdWords - 1 : (off + k) % Words = next + k
    BY <1>2, <1>3, WordsAre, ModSmall
  <2>2. \A k \in 0 .. CmdWords - 1 : next + k \in next .. next + CmdWords - 1
    BY <1>2, WordsAre
  <2>3. \A w \in next .. next + CmdWords - 1 : w - next \in 0 .. CmdWords - 1 /\ w = next + (w - next)
    BY <1>2, WordsAre
  <2> QED BY <2>1, <2>2, <2>3 DEF WordsAt
<1>5. mem' = [w \in 0 .. Words - 1 |-> IF w \in next .. next + CmdWords - 1 THEN cmd ELSE mem[w]]
  BY <1>4 DEF Put
<1>6. RingInv'
  <2>1. RingAt(n, s)'
    BY <1>1, <1>2 DEF RingAt
  <2>2. \A w \in 0 .. Words - 1 :
          w >= next => mem'[w] = NoCmd \/ (cmd # NoCmd /\ w < next + CmdWords /\ mem'[w] = cmd)
    BY <1>2, <1>5, WordsAre DEF RingInv
  <2>3. DOMAIN mem' = 0 .. Words - 1
    BY <1>5
  <2> QED BY <1>2, <2>1, <2>2, <2>3 DEF RingInv
<1>7. Queued' = Queued
  <2>1. ASSUME NEW i \in RingIndex(Commands + 1), i < n PROVE Firsts(mem')[i] = Firsts(mem)[i]
    <3>1. i \in Nat /\ i * CmdWords < n * CmdWords /\ i * CmdWords \in Nat
      BY <1>2, <2>1, WordsAre, TimesStep, TimesIs DEF RingIndex
    <3>2. i * CmdWords \in 0 .. Words - 1 /\ i * CmdWords < next
      BY <1>1, <1>2, <3>1, WordsAre DEF RingAt
    <3>3. mem'[i * CmdWords] = mem[i * CmdWords]
      BY <1>2, <1>5, <3>2
    <3> QED BY <2>1, <3>3 DEF Firsts
  <2>2. CmdQueue(mem', n, s) = CmdQueue(mem, n, s)
    <3> DEFINE N == Commands + 1
    <3>1. N \in Nat \ {0} /\ n \in RingIndex(N) /\ s \in RingIndex(N)
      BY <1>2, <1>3, WordsAre DEF RingIndex
    <3>2. RingDist(N, n, s) = n - s
      BY <1>2, <3>1, RingDistIs
    <3>3. ASSUME NEW k \in 1 .. n - s
          PROVE  Firsts(mem')[RingCell(N, s, k - 1)] = Firsts(mem)[RingCell(N, s, k - 1)]
      <4> DEFINE j == k - 1
      <4>1. j \in RingIndex(N) /\ s + j < N /\ s + j \in RingIndex(N) /\ s + j < n
        BY <1>2, <1>3, <3>1, <3>3 DEF RingIndex
      <4> HIDE DEF j, N
      <4>2. RingCell(N, s, j) = s + j
        BY <3>1, <4>1, RingCellIs DEF RingCell
      <4>3. Firsts(mem')[s + j] = Firsts(mem)[s + j]
        BY <2>1, <4>1 DEF N
      <4> QED BY <4>2, <4>3 DEF j
    <3> QED BY <3>2, <3>3 DEF CmdQueue, RingSeq
  <2>3. RingAt(n, s)'
    BY <1>1, <1>2 DEF RingAt
  <2> QED BY <1>1, <2>2, <2>3, QueuedIs, QueuedThen
<1> QED BY <1>2, <1>6, <1>7

LEMMA CommitDoes ==
  ASSUME RingInv, Commit
  PROVE  /\ cmd # NoCmd /\ cmd' = NoCmd /\ UNCHANGED mem
         /\ Len(Queued) < Commands
         /\ RingInv' /\ Queued' = Append(Queued, cmd)
<1>1. PICK n \in 0 .. Commands, s \in 0 .. Commands : RingAt(n, s)
  BY DEF RingInv
<1>2. /\ cmd # NoCmd /\ cmd' = NoCmd /\ mem' = mem /\ stop' = stop /\ next' = off + CmdWords
      /\ off = next /\ next < Words /\ mem[off] = cmd
  BY DEF RingInv, Commit
<1>3. /\ n \in Nat /\ s \in Nat /\ n < Commands /\ n + 1 \in 0 .. Commands /\ s \in 0 .. n + 1
      /\ s <= n /\ next = n * CmdWords /\ next \in Nat /\ next' = (n + 1) * CmdWords
  <2>1. n # Commands
    BY <1>1, <1>2, WordsAre DEF RingAt
  <2>2. n < Commands /\ n \in Nat /\ s \in Nat /\ s <= n /\ next = n * CmdWords
    BY <1>1, <2>1, WordsAre DEF RingAt
  <2>3. n * CmdWords \in Nat /\ (n + 1) * CmdWords = n * CmdWords + CmdWords
    BY <2>2, WordsAre, TimesIs
  <2> QED BY <1>2, <2>2, <2>3, WordsAre
<1>4. RingAt(n + 1, s)'
  BY <1>1, <1>2, <1>3 DEF RingAt
<1>5. Len(Queued) < Commands
  BY <1>1, <1>3, QueuedLen, WordsAre
<1>6. RingInv'
  <2>1. \E a, b \in 0 .. Commands : RingAt(a, b)'
    BY <1>3, <1>4
  <2>2. \A w \in 0 .. Words - 1 : w >= next' => mem'[w] = NoCmd
    BY <1>2, <1>3, WordsAre DEF RingInv
  <2>3. DOMAIN mem' = 0 .. Words - 1
    BY <1>2 DEF RingInv
  <2> QED BY <1>2, <2>1, <2>2, <2>3 DEF RingInv
<1>7. CmdQueue(mem, n + 1, s) = Append(CmdQueue(mem, n, s), cmd)
  <2> DEFINE N == Commands + 1
             b == Firsts(mem)
  <2>1. N \in Nat \ {0} /\ n \in RingIndex(N) /\ s \in RingIndex(N) /\ n + 1 \in RingIndex(N)
        /\ n + 1 # N
    BY <1>3, WordsAre DEF RingIndex
  <2>2. DOMAIN b = RingIndex(N) /\ b[n] = cmd
    BY <1>2, <1>3, <2>1 DEF Firsts
  <2>3. RingStore(b, n, cmd) = b
    BY <2>2 DEF RingStore, Firsts
  <2> HIDE DEF N, b
  <2>4. RingNext(N, n) = n + 1
    BY <2>1, RingNextIs
  <2>5. n + 1 # s
    BY <1>3
  <2>6. RingSeq(N, RingStore(b, n, cmd), RingNext(N, n), s) = Append(RingSeq(N, b, n, s), cmd)
    BY <2>1, <2>2, <2>4, <2>5, RingSeqPush
  <2> QED BY <2>3, <2>4, <2>6 DEF CmdQueue, N, b
<1>8. Queued' = Append(Queued, cmd)
  BY <1>1, <1>2, <1>4, <1>7, QueuedIs, QueuedThen
<1> QED BY <1>2, <1>5, <1>6, <1>8

LEMMA ExecuteDoes ==
  ASSUME RingInv, Execute
  PROVE  /\ UNCHANGED <<mem, next, off, cmd>>
         /\ Queued # <<>> /\ Head(Queued) = mem[stop]
         /\ RingInv' /\ Queued' = Tail(Queued)
<1>1. PICK n \in 0 .. Commands, s \in 0 .. Commands : RingAt(n, s)
  BY DEF RingInv
<1>2. /\ UNCHANGED <<mem, next, off, cmd>> /\ next < Words /\ next # stop
      /\ stop' = (stop + CmdWords) % Words
  <2>1. next < Words
    <3>1. next \in Nat
      BY <1>1, WordsAre, TimesIs DEF RingAt
    <3> QED BY <3>1, WordsAre DEF Execute, Broken
  <2> QED BY <2>1 DEF Execute
<1>3. /\ n \in Nat /\ s \in Nat /\ s < n /\ n <= Commands /\ s + 1 \in 0 .. n
      /\ s + 1 \in 0 .. Commands /\ stop = s * CmdWords /\ stop' = (s + 1) * CmdWords
  <2>1. n \in Nat /\ s \in Nat /\ s # n /\ s < n /\ n <= Commands /\ stop = s * CmdWords
        /\ next = n * CmdWords
    BY <1>1, <1>2, WordsAre DEF RingAt
  <2>2. (s + 1) * CmdWords = s * CmdWords + CmdWords /\ s * CmdWords \in Nat
        /\ (s + 1) * CmdWords <= n * CmdWords /\ n * CmdWords \in Nat
    BY <2>1, WordsAre, TimesIs, TimesStep
  <2>3. stop + CmdWords \in 0 .. Words - 1
    BY <1>2, <2>1, <2>2, WordsAre
  <2>4. (stop + CmdWords) % Words = stop + CmdWords
    BY <2>3, WordsAre, ModSmall
  <2> QED BY <1>2, <2>1, <2>2, <2>4, WordsAre
<1>4. RingAt(n, s + 1)'
  BY <1>1, <1>2, <1>3 DEF RingAt
<1>5. RingInv'
  <2>1. \E x, y \in 0 .. Commands : RingAt(x, y)'
    BY <1>3, <1>4
  <2> QED BY <1>2, <2>1 DEF RingInv
<1>6. /\ CmdQueue(mem, n, s) # <<>> /\ Head(CmdQueue(mem, n, s)) = mem[stop]
      /\ CmdQueue(mem, n, s + 1) = Tail(CmdQueue(mem, n, s))
  <2> DEFINE N == Commands + 1
             b == Firsts(mem)
  <2>1. N \in Nat \ {0} /\ n \in RingIndex(N) /\ s \in RingIndex(N) /\ n # s /\ s + 1 # N
    BY <1>3, WordsAre DEF RingIndex
  <2>2. b[s] = mem[stop]
    BY <1>3, <2>1 DEF Firsts
  <2> HIDE DEF N, b
  <2>3. RingNext(N, s) = s + 1
    BY <2>1, RingNextIs
  <2>4. /\ RingSeq(N, b, n, s) # <<>> /\ Head(RingSeq(N, b, n, s)) = b[s]
        /\ RingSeq(N, b, n, RingNext(N, s)) = Tail(RingSeq(N, b, n, s))
    BY <2>1, RingSeqPop
  <2> QED BY <2>2, <2>3, <2>4 DEF CmdQueue, N, b
<1>7. Queued = CmdQueue(mem, n, s)
  BY <1>1, QueuedIs
<1>8. Queued' = CmdQueue(mem, n, s + 1)
  BY <1>2, <1>4, QueuedThen
<1> QED BY <1>2, <1>5, <1>6, <1>7, <1>8

LEMMA FifoStays == RingInv /\ UNCHANGED fifo => RingInv' /\ Queued' = Queued
BY DEF fifo, RingInv, RingAt, Queued, Used

LEMMA QueuedSeq == RingInv => \E S : Queued \in Seq(S)
<1> SUFFICES ASSUME RingInv PROVE \E S : Queued \in Seq(S)
  OBVIOUS
<1>1. PICK n \in 0 .. Commands, s \in 0 .. Commands : RingAt(n, s)
  BY DEF RingInv
<1> DEFINE N == Commands + 1
           b == Firsts(mem)
           S == {b[x] : x \in RingIndex(N)}
<1>2. N \in Nat \ {0} /\ n \in RingIndex(N) /\ s \in RingIndex(N)
  BY WordsAre DEF RingIndex
<1>3. \A x \in RingIndex(N) : b[x] \in S
  OBVIOUS
<1> HIDE DEF N, b, S
<1>4. RingSeq(N, b, n, s) \in Seq(S)
  BY <1>2, <1>3, RingSeqIs
<1>5. Queued \in Seq(S)
  BY <1>1, <1>4, QueuedIs DEF CmdQueue, N, b
<1> QED BY <1>5
---------------------------------------------------------------------------
(* The screen. *)

\* The cells of the updates in a sequence.
CellsOf(q) == UNION {q[k] : k \in DOMAIN q}

LEMMA CellsAppended ==
  ASSUME NEW S, NEW q \in Seq(S), NEW r
  PROVE  CellsOf(q) \cup r \subseteq CellsOf(Append(q, r))
<1>1. q \in Seq(S \cup {r}) /\ r \in S \cup {r}
  <2>1. S \subseteq S \cup {r}
    OBVIOUS
  <2> QED BY <2>1
<1>2. /\ DOMAIN q = 1 .. Len(q) /\ Len(q) \in Nat
      /\ DOMAIN Append(q, r) = 1 .. Len(q) + 1
      /\ \A k \in 1 .. Len(q) : Append(q, r)[k] = q[k]
      /\ Append(q, r)[Len(q) + 1] = r
  BY <1>1
<1>3. \A k \in DOMAIN q : k \in DOMAIN Append(q, r) /\ Append(q, r)[k] = q[k]
  BY <1>2
<1>4. Len(q) + 1 \in DOMAIN Append(q, r)
  BY <1>2
<1> QED BY <1>2, <1>3, <1>4 DEF CellsOf

LEMMA CellsLeft ==
  ASSUME NEW S, NEW q \in Seq(S), q # <<>>
  PROVE  CellsOf(q) \subseteq Head(q) \cup CellsOf(Tail(q))
<1>1. /\ DOMAIN q = 1 .. Len(q) /\ Len(q) \in Nat \ {0} /\ Head(q) = q[1]
      /\ Tail(q) \in Seq(S) /\ Len(Tail(q)) = Len(q) - 1
      /\ \A k \in 1 .. Len(q) - 1 : Tail(q)[k] = q[k + 1]
  <2>1. DOMAIN q = 1 .. Len(q) /\ Len(q) \in Nat /\ Len(q) # 0
    BY LenProperties, EmptySeq
  <2>2. Head(q) = q[1]
    OBVIOUS
  <2>3. /\ Tail(q) \in Seq(S) /\ Len(Tail(q)) = Len(q) - 1
        /\ \A k \in 1 .. Len(Tail(q)) : Tail(q)[k] = q[k + 1]
    BY HeadTailProperties
  <2> QED BY <2>1, <2>2, <2>3
<1>2. DOMAIN Tail(q) = 1 .. Len(q) - 1
  BY <1>1, LenProperties
<1>3. ASSUME NEW k \in 1 .. Len(q), k # 1
      PROVE  k - 1 \in DOMAIN Tail(q) /\ Tail(q)[k - 1] = q[k]
  <2>1. k - 1 \in 1 .. Len(q) - 1 /\ (k - 1) + 1 = k
    BY <1>1, <1>3
  <2> QED BY <1>1, <1>2, <2>1
<1>4. ASSUME NEW c, NEW k \in DOMAIN q, c \in q[k]
      PROVE  c \in Head(q) \/ \E j \in DOMAIN Tail(q) : c \in Tail(q)[j]
  <2>1. CASE k = 1
    BY <1>1, <1>4, <2>1
  <2>2. CASE k # 1
    BY <1>1, <1>3, <1>4, <2>2
  <2> QED BY <2>1, <2>2
<1> QED BY <1>4 DEF CellsOf

\* The dirty rectangle stays a rectangle, and holds what was added to it.
LEMMA HullIs ==
  ASSUME NEW s \in SUBSET Cells, s # {}
  PROVE  Hull(s) \in Rect /\ s \subseteq Hull(s) /\ Hull(s) \subseteq Cells
<1>1. Width \in Nat \ {0} /\ Rect = {lo .. hi : lo \in Cells, hi \in Cells} \ {{}}
  BY ScreenAssumption
<1>2. s \in SUBSET Nat /\ \A c \in s : c <= Width
  BY <1>1 DEF Cells
<1>3. PICK lo \in s : \A c \in s : lo <= c
  BY <1>2, LeastOf
<1>4. PICK hi \in s : \A c \in s : c <= hi
  BY <1>1, <1>2, GreatestOf
<1>5. Hull(s) = lo .. hi
  BY <1>1, <1>3, <1>4 DEF Hull, Cells
<1>6. lo \in Cells /\ hi \in Cells /\ lo \in Hull(s)
  BY <1>1, <1>3, <1>4, <1>5 DEF Cells
<1>7. s \subseteq Hull(s)
  BY <1>1 DEF Hull, Cells
<1> QED BY <1>1, <1>5, <1>6, <1>7 DEF Cells

LEMMA RectsAre ==
  /\ Cells \in Rect /\ \A r \in Rect : r \subseteq Cells /\ r # {}
  /\ NoCmd \notin Rect
<1>1. Width \in Nat \ {0} /\ Rect = {lo .. hi : lo \in Cells, hi \in Cells} \ {{}}
  BY ScreenAssumption
<1>2. 0 \in Cells /\ Width - 1 \in Cells /\ Cells = 0 .. Width - 1
  BY <1>1 DEF Cells
<1>3. \A r \in Rect : r \subseteq Cells /\ r # {}
  BY <1>1 DEF Cells
<1> QED BY <1>1, <1>2, <1>3, FifoAssumption

\* What the next frame draws.
Pending == IF full THEN Cells ELSE area

\* Before the rectangle of a frame is taken, and after.
Early == {"idle", "new", "last", "pace", "clip"}
Framed == {"draw", "cursor", "clear", "present"}

ScreenTyped ==
  /\ stale \subseteq Cells /\ unseen \subseteq Cells
  /\ area \in Rect \cup {{}} /\ surface \in {"back", "front", "direct"}
  /\ stage \in Early \cup Framed
  /\ stage \in Framed => clip \in Rect
  /\ editor => stage = "idle"
  /\ ~dirty => ~full /\ area = {}

\* Where the account of a stale cell stands at each step of a frame.
Drawn ==
  /\ stage \in Early /\ ~editor => stale \subseteq bare \cup raced \cup Pending
  /\ stage = "draw" => stale \subseteq bare \cup raced \cup clip
  /\ stage \in {"cursor", "clear"} => stale \subseteq bare \cup raced
  /\ stage = "present" => stale \subseteq bare \cup raced \cup Pending

\* And that of an unseen one.
Seen ==
  /\ stage \in Early /\ ~editor =>
       unseen \subseteq dropped \cup CellsOf(Queued) \cup Pending
  /\ stage \in Framed =>
       unseen \subseteq dropped \cup CellsOf(Queued) \cup clip
  /\ stage \in {"cursor", "clear", "present"} /\ surface = "front" => unseen \cap clip = {}

\* The command under way is this frame's.
Asked == cmd # NoCmd => stage = "present" /\ surface = "direct" /\ cmd = clip

ScreenInv == RingInv /\ ScreenTyped /\ Drawn /\ Seen /\ Asked

LEMMA InvalidateGrows ==
  ASSUME ScreenInv, NEW r \in Rect \cup {{}}, Invalidate(r)
  PROVE  /\ Pending \cup r \subseteq Pending' /\ area' \in Rect \cup {{}} /\ r \subseteq Cells
         /\ full' = full /\ (r # {} => dirty' = TRUE) /\ (dirty => dirty')
         /\ (~dirty' => ~full' /\ area' = {})
<1>1. area' = Hull(area \cup r) /\ dirty' = (dirty \/ r # {}) /\ full' = full
  BY DEF Invalidate
<1>2. area \in SUBSET Cells /\ r \in SUBSET Cells
  BY RectsAre DEF ScreenInv, ScreenTyped
<1>3. area \cup r \subseteq area' /\ area' \in Rect \cup {{}}
  <2>1. CASE area \cup r = {}
    <3>1. Hull({}) = {}
      BY DEF Hull
    <3> QED BY <1>1, <2>1, <3>1
  <2>2. CASE area \cup r # {}
    BY <1>1, <1>2, <2>2, HullIs
  <2> QED BY <2>1, <2>2
<1>4. ~dirty' => ~full' /\ area' = {}
  <2>1. SUFFICES ASSUME ~dirty' PROVE ~full' /\ area' = {}
    OBVIOUS
  <2>2. ~dirty /\ r = {} /\ ~full /\ area = {}
    BY <1>1, <2>1 DEF ScreenInv, ScreenTyped
  <2>3. Hull({}) = {}
    BY DEF Hull
  <2> QED BY <1>1, <2>2, <2>3
<1>5. Pending \cup r \subseteq Pending'
  BY <1>1, <1>2, <1>3 DEF Pending
<1> QED BY <1>1, <1>2, <1>3, <1>4, <1>5

LEMMA MarkDirtyAll ==
  ASSUME ScreenInv, MarkDirty
  PROVE  Pending' = Cells /\ dirty' = TRUE /\ area' = area
BY DEF MarkDirty, Pending, Cells

LEMMA ScreenStarts == ScreenInit => ScreenInv /\ Queued = <<>>
<1> SUFFICES ASSUME ScreenInit PROVE ScreenInv /\ Queued = <<>>
  OBVIOUS
<1>1. RingInv /\ Queued = <<>> /\ cmd = NoCmd
  BY RingStarts DEF ScreenInit, FifoInit
<1>2. ScreenTyped /\ Drawn /\ Seen /\ Asked
  BY <1>1 DEF ScreenInit, ScreenTyped, Drawn, Seen, Asked, Pending, Early, Framed
<1> QED BY <1>1, <1>2 DEF ScreenInv

\* The steps that only add to what the next frame draws.
LEMMA EarlyKeeps ==
  ASSUME ScreenInv, UNCHANGED fifo, UNCHANGED <<unseen, surface, editor, raced, dropped>>,
         stage \in Early, stage' \in Early, ~editor,
         stale' \subseteq stale \cup bare' \cup Pending', stale' \subseteq Cells, bare \subseteq bare',
         Pending \subseteq Pending', area' \in Rect \cup {{}}, ~dirty' => ~full' /\ area' = {}
  PROVE  ScreenInv'
<1> USE DEF ScreenInv
<1>1. RingInv' /\ Queued' = Queued /\ cmd' = cmd
  BY FifoStays DEF fifo
<1>2. ScreenTyped' /\ Asked'
  BY <1>1 DEF ScreenTyped, Asked, Early, Framed
<1>3. Drawn'
  BY DEF Drawn, Early
<1>4. Seen'
  BY <1>1 DEF Seen, Early, Framed
<1> QED BY <1>1, <1>2, <1>3, <1>4

LEMMA ChangeKeeps ==
  ASSUME ScreenInv, NEW r \in Rect, Change(r) \/ ChangeBare(r)
  PROVE  ScreenInv'
<1>0. /\ UNCHANGED fifo /\ UNCHANGED <<unseen, surface, stage, editor, clip, raced, dropped>>
      /\ stage \in Early /\ ~editor
  BY DEF Change, ChangeBare, frame, Calm, Early
<1>1. stale \subseteq Cells /\ r \subseteq Cells /\ area \in Rect \cup {{}}
  BY RectsAre DEF ScreenInv, ScreenTyped
<1>2. CASE Change(r)
  <2>1. /\ Pending \cup r \subseteq Pending' /\ area' \in Rect \cup {{}}
        /\ (~dirty' => ~full' /\ area' = {})
    BY <1>2, InvalidateGrows DEF Change
  <2>2. stale' = stale \cup r /\ bare' = bare
    BY <1>2 DEF Change
  <2> QED BY <1>0, <1>1, <2>1, <2>2, EarlyKeeps
<1>3. CASE ChangeBare(r)
  <2>1. /\ stale' = stale \cup r /\ bare' = bare \cup r /\ dirty' = TRUE
        /\ UNCHANGED <<area, full>> /\ Pending' = Pending
    BY <1>3 DEF ChangeBare, Pending, Cells
  <2> QED BY <1>0, <1>1, <2>1, EarlyKeeps
<1> QED BY <1>2, <1>3

\* gui_poll up to gui_draw.
LEMMA PollKeeps ==
  ASSUME ScreenInv, mouse \in Cells, Poll \/ PollNew \/ PollLast \/ Pace
  PROVE  ScreenInv' /\ Pending \subseteq Pending'
<1>0. /\ UNCHANGED fifo /\ UNCHANGED <<stale, unseen, surface, editor, clip, bare, raced, dropped>>
      /\ stage \in Early /\ stage' \in Early /\ ~editor
  BY DEF Poll, PollNew, PollLast, Pace, polling, Early, ScreenInv, ScreenTyped
<1>1. stale \subseteq Cells /\ area \in Rect \cup {{}} /\ (~dirty => ~full /\ area = {})
  BY DEF ScreenInv, ScreenTyped
<1>2. UNCHANGED flags \/ \E r \in Rect \cup {{}} : Invalidate(r)
  <2>1. ASSUME NEW c \in Cells PROVE {c} \in Rect
    <3>1. Hull({c}) \in Rect /\ Hull({c}) = {c}
      <4>1. \A d \in Cells : d \in Int
        BY ScreenAssumption DEF Cells
      <4>2. \A d \in Cells : (c <= d /\ d <= c) <=> d = c
        BY <4>1
      <4>3. Hull({c}) = {d \in Cells : c <= d /\ d <= c}
        BY DEF Hull
      <4>4. Hull({c}) = {c}
        BY <4>2, <4>3
      <4> QED BY <4>4, HullIs
    <3> QED BY <3>1
  <2>2. {last} \cap Cells \in Rect \cup {{}}
    <3>1. CASE last \in Cells
      <4>1. {last} \cap Cells = {last}
        BY <3>1
      <4> QED BY <2>1, <3>1, <4>1
    <3>2. CASE last \notin Cells
      BY <3>2
    <3> QED BY <3>1, <3>2
  <2> QED BY <2>1, <2>2 DEF Poll, PollNew, PollLast, Pace, ScreenInv, ScreenTyped
<1>3. /\ Pending \subseteq Pending' /\ area' \in Rect \cup {{}}
      /\ (~dirty' => ~full' /\ area' = {})
  <2>1. CASE UNCHANGED flags
    BY <1>1, <2>1 DEF flags, Pending, Cells
  <2>2. CASE \E r \in Rect \cup {{}} : Invalidate(r)
    BY <2>2, InvalidateGrows
  <2> QED BY <1>2, <2>1, <2>2
<1> QED BY <1>0, <1>1, <1>3, EarlyKeeps

LEMMA MarkKeeps ==
  ASSUME ScreenInv, ChangeAll \/ Resize \/ AltT \/ Enter \/ Exit \/ Migrate
  PROVE  ScreenInv'
<1> USE DEF ScreenInv
<1>0. UNCHANGED fifo /\ UNCHANGED <<stage, clip, bare, dropped>>
  BY DEF ChangeAll, Resize, AltT, Enter, Exit, Migrate, frame
<1>1. RingInv' /\ Queued' = Queued /\ cmd' = cmd
  BY <1>0, FifoStays DEF fifo
<1>2. CASE ChangeAll \/ Resize
  <2>1. Pending' = Cells /\ dirty' = TRUE /\ area' = area
    BY <1>2, MarkDirtyAll DEF ChangeAll, Resize
  <2>2. stale' = Cells /\ stage \in Early /\ UNCHANGED <<unseen, surface, editor, raced>>
    BY <1>2 DEF ChangeAll, Resize, Calm, Early
  <2>3. ScreenTyped'
    BY <1>0, <2>1, <2>2 DEF ScreenTyped
  <2>4. Drawn' /\ Seen' /\ Asked'
    BY <1>0, <1>1, <2>1, <2>2 DEF ScreenTyped, Drawn, Seen, Asked, Early, Framed
  <2> QED BY <1>1, <2>3, <2>4
<1>3. CASE AltT
  <2>1. Pending' = Cells /\ dirty' = TRUE /\ area' = area
    BY <1>3, MarkDirtyAll DEF AltT
  <2>2. /\ stale' = Cells /\ UNCHANGED <<unseen, surface, editor>>
        /\ raced' = IF stage \in {"draw", "cursor", "clear"} THEN Cells ELSE raced
    BY <1>3 DEF AltT
  <2>3. ScreenTyped'
    BY <1>0, <2>1, <2>2 DEF ScreenTyped
  <2>4. Drawn'
    BY <1>0, <2>1, <2>2 DEF ScreenTyped, Drawn, Framed
  <2>5. Seen' /\ Asked'
    BY <1>0, <1>1, <2>1, <2>2 DEF ScreenTyped, Seen, Asked
  <2> QED BY <1>1, <2>3, <2>4, <2>5
<1>4. CASE Enter
  <2>1. /\ stage = "idle" /\ editor' /\ UNCHANGED <<surface, flags, raced>>
        /\ unseen' = (IF surface = "front" THEN unseen ELSE Cells)
        /\ stale' = (IF surface = "back" THEN stale ELSE Cells)
    BY <1>4 DEF Enter
  <2>2. ScreenTyped'
    BY <1>0, <2>1 DEF ScreenTyped, flags
  <2>3. Drawn' /\ Seen' /\ Asked'
    BY <1>0, <1>1, <2>1 DEF Drawn, Seen, Asked, Early, Framed
  <2> QED BY <1>1, <2>2, <2>3
<1>5. CASE Exit
  <2>1. Pending' = Cells /\ dirty' = TRUE /\ area' = area
    BY <1>5, MarkDirtyAll DEF Exit
  <2>2. stage = "idle" /\ ~editor' /\ UNCHANGED <<stale, unseen, surface, raced>>
    BY <1>5 DEF Exit, ScreenTyped
  <2>3. ScreenTyped'
    BY <1>0, <2>1, <2>2 DEF ScreenTyped
  <2>4. Drawn' /\ Seen' /\ Asked'
    BY <1>0, <1>1, <2>1, <2>2 DEF ScreenTyped, Drawn, Seen, Asked, Early, Framed
  <2> QED BY <1>1, <2>3, <2>4
<1>6. CASE Migrate
  <2>1. Pending' = Cells /\ dirty' = TRUE /\ area' = area
    BY <1>6, MarkDirtyAll DEF Migrate
  <2>2. /\ stage = "idle" /\ surface' = "direct" /\ stale' = Cells /\ unseen' = Cells
        /\ UNCHANGED <<editor, raced>>
    BY <1>6 DEF Migrate
  <2>3. ScreenTyped'
    BY <1>0, <2>1, <2>2 DEF ScreenTyped
  <2>4. Drawn' /\ Seen' /\ Asked'
    BY <1>0, <1>1, <2>1, <2>2 DEF Drawn, Seen, Asked, Early, Framed
  <2> QED BY <1>1, <2>3, <2>4
<1> QED BY <1>2, <1>3, <1>4, <1>5, <1>6

\* The steps of a frame before it is presented.
LEMMA FrameKeeps ==
  ASSUME ScreenInv, SetClip \/ Draw \/ DrawCursor \/ Clear \/ Present
  PROVE  ScreenInv'
<1> USE DEF ScreenInv
<1>0. UNCHANGED fifo /\ UNCHANGED <<surface, editor, dropped>>
  BY DEF SetClip, Draw, DrawCursor, Clear, Present, polling
<1>1. RingInv' /\ Queued' = Queued /\ cmd' = cmd
  BY <1>0, FifoStays DEF fifo
<1> USE DEF Early, Framed
<1>2. CASE DrawCursor
  <2>1. stage = "cursor" /\ stage' = "clear" /\ UNCHANGED <<stale, flags, clip, bare, raced>>
    BY <1>2 DEF DrawCursor
  <2>2. unseen \subseteq unseen' /\ unseen' \subseteq unseen \cup clip
        /\ (surface = "front" => unseen' = unseen)
    BY <1>2 DEF DrawCursor
  <2>3. clip \in Rect /\ clip \subseteq Cells /\ ~editor
    BY <2>1, RectsAre DEF ScreenTyped
  <2>4. ScreenTyped' /\ Asked'
    BY <1>0, <1>1, <2>1, <2>2, <2>3 DEF ScreenTyped, Asked, flags
  <2>5. Drawn' /\ Seen'
    BY <1>0, <1>1, <2>1, <2>2 DEF Drawn, Seen
  <2> QED BY <1>1, <2>4, <2>5
<1>3. CASE SetClip
  <2>1. stage = "clip" /\ stage' = "draw" /\ clip' = (IF full \/ area = {} THEN Cells ELSE area)
        /\ UNCHANGED <<stale, unseen, flags, bare, raced>>
    BY <1>3 DEF SetClip
  <2>2. clip' \in Rect /\ Pending \subseteq clip'
    BY <2>1, RectsAre DEF ScreenTyped, Pending
  <2>3. ScreenTyped' /\ Asked'
    BY <1>0, <1>1, <2>1, <2>2 DEF ScreenTyped, Asked, flags
  <2>4. Drawn' /\ Seen'
    BY <1>0, <1>1, <2>1, <2>2 DEF Drawn, Seen, ScreenTyped
  <2> QED BY <1>1, <2>3, <2>4
<1>4. CASE Draw
  <2>1. /\ stage = "draw" /\ stage' = "cursor" /\ UNCHANGED <<flags, clip>>
        /\ stale' = stale \ clip /\ bare' = bare \ clip /\ raced' = raced \ clip
        /\ unseen' = (IF surface = "front" THEN unseen \ clip ELSE unseen \cup clip)
    BY <1>4 DEF Draw
  <2>2. clip \in Rect /\ clip \subseteq Cells /\ ~editor
    BY <2>1, RectsAre DEF ScreenTyped
  <2>3. ScreenTyped' /\ Asked'
    BY <1>0, <1>1, <2>1, <2>2 DEF ScreenTyped, Asked, flags
  <2>4. Drawn' /\ Seen'
    BY <1>0, <1>1, <2>1 DEF Drawn, Seen
  <2> QED BY <1>1, <2>3, <2>4
<1>5. CASE Clear
  <2>1. /\ stage = "clear" /\ stage' = "present" /\ dirty' = FALSE /\ area' = {} /\ full' = FALSE
        /\ UNCHANGED <<stale, unseen, clip, bare, raced>>
    BY <1>5 DEF Clear, polling
  <2>2. ScreenTyped' /\ Asked'
    BY <1>0, <1>1, <2>1 DEF ScreenTyped, Asked
  <2>3. Drawn' /\ Seen'
    BY <1>0, <1>1, <2>1 DEF Drawn, Seen
  <2> QED BY <1>1, <2>2, <2>3
<1>6. CASE Present
  <2>1. /\ stage = "present" /\ surface # "direct" /\ stage' = "idle"
        /\ unseen' = (IF surface = "back" THEN unseen \ clip ELSE unseen)
        /\ UNCHANGED <<stale, flags, bare, raced>>
    BY <1>6 DEF Present
  <2>2. Pending' = Pending /\ cmd = NoCmd
    BY <2>1 DEF Pending, Cells, flags, Asked
  <2>3. ScreenTyped' /\ Asked'
    BY <1>0, <1>1, <2>1, <2>2 DEF ScreenTyped, Asked, flags
  <2>4. Drawn'
    BY <1>0, <2>1, <2>2 DEF Drawn
  <2>5. unseen' \subseteq dropped \cup CellsOf(Queued)
    BY <2>1 DEF ScreenTyped, Seen
  <2>6. Seen'
    BY <1>0, <1>1, <2>1, <2>5 DEF Seen
  <2> QED BY <1>1, <2>3, <2>4, <2>6
<1> QED BY <1>2, <1>3, <1>4, <1>5, <1>6

\* The steps that use the ring, and those of the device.
LEMMA UpdateKeeps ==
  ASSUME ScreenInv, AskUpdate \/ PutUpdate \/ SendUpdate \/ LoseUpdate \/ Refresh \/ Tick \/ Move
  PROVE  ScreenInv'
<1> USE DEF ScreenInv
<1>0. UNCHANGED <<stale, surface, flags, editor, bare, raced>> /\ Pending' = Pending
  BY DEF AskUpdate, PutUpdate, SendUpdate, LoseUpdate, Refresh, Tick, Move, Pending, Cells, flags
<1> USE DEF Early, Framed
<1>1. CASE AskUpdate
  <2>1. /\ stage = "present" /\ surface = "direct" /\ Reserve(clip)
        /\ UNCHANGED <<unseen, stage, clip, dropped>>
    BY <1>1 DEF AskUpdate, frame
  <2>2. clip \in Rect
    BY <2>1 DEF ScreenTyped
  <2>3. RingInv' /\ Queued' = Queued /\ cmd' = clip
    BY <2>1, <2>2, ReserveDoes
  <2>4. ScreenTyped' /\ Asked'
    BY <1>0, <2>1, <2>3 DEF ScreenTyped, Asked, flags
  <2>5. Drawn' /\ Seen'
    BY <1>0, <2>1, <2>3 DEF Drawn, Seen
  <2> QED BY <2>3, <2>4, <2>5
<1>2. CASE PutUpdate
  <2>1. Put /\ UNCHANGED <<unseen, stage, clip, dropped>>
    BY <1>2 DEF PutUpdate, frame
  <2>2. RingInv' /\ Queued' = Queued /\ cmd' = cmd
    BY <2>1, PutDoes
  <2>3. ScreenTyped' /\ Asked'
    BY <1>0, <2>1, <2>2 DEF ScreenTyped, Asked, flags
  <2>4. Drawn' /\ Seen'
    BY <1>0, <2>1, <2>2 DEF Drawn, Seen
  <2> QED BY <2>2, <2>3, <2>4
<1>3. CASE SendUpdate
  <2>1. /\ Commit /\ stage' = "idle" /\ dropped' = dropped \ clip /\ unseen' = unseen
    BY <1>3 DEF SendUpdate
  <2>2. RingInv' /\ Queued' = Append(Queued, cmd) /\ cmd # NoCmd /\ cmd' = NoCmd
    BY <2>1, CommitDoes
  <2>3. stage = "present" /\ cmd = clip /\ ~editor
    BY <2>2 DEF Asked, ScreenTyped
  <2>4. CellsOf(Queued) \cup clip \subseteq CellsOf(Queued')
    BY <2>2, <2>3, QueuedSeq, CellsAppended
  <2>5. ScreenTyped' /\ Asked'
    BY <1>0, <2>1, <2>2, <2>3 DEF ScreenTyped, Asked, flags
  <2>6. Drawn'
    BY <1>0, <2>1, <2>3 DEF Drawn
  <2>7. unseen' \subseteq dropped' \cup CellsOf(Queued')
    BY <2>1, <2>3, <2>4 DEF Seen
  <2>8. Seen'
    BY <1>0, <2>1, <2>7 DEF Seen
  <2> QED BY <2>2, <2>5, <2>6, <2>8
<1>4. CASE LoseUpdate
  <2>1. /\ stage = "present" /\ stage' = "idle" /\ cmd = NoCmd /\ UNCHANGED fifo
        /\ dropped' = dropped \cup clip /\ unseen' = unseen
    BY <1>4 DEF LoseUpdate
  <2>2. RingInv' /\ Queued' = Queued /\ cmd' = cmd
    BY <2>1, FifoStays DEF fifo
  <2>3. ScreenTyped' /\ Asked'
    BY <1>0, <2>1, <2>2 DEF ScreenTyped, Asked, flags
  <2>4. Drawn' /\ Seen'
    BY <1>0, <2>1, <2>2 DEF Drawn, Seen
  <2> QED BY <2>2, <2>3, <2>4
<1>5. CASE Refresh
  <2>1. Execute /\ unseen' = unseen \ mem[stop] /\ UNCHANGED <<stage, clip, dropped>>
    BY <1>5 DEF Refresh, frame
  <2>2. /\ RingInv' /\ Queued' = Tail(Queued) /\ cmd' = cmd
        /\ Queued # <<>> /\ Head(Queued) = mem[stop]
    BY <2>1, ExecuteDoes
  <2>3. CellsOf(Queued) \subseteq mem[stop] \cup CellsOf(Queued')
    BY <2>2, QueuedSeq, CellsLeft
  <2>4. ScreenTyped' /\ Asked'
    BY <1>0, <2>1, <2>2 DEF ScreenTyped, Asked, flags
  <2>5. Drawn' /\ Seen'
    BY <1>0, <2>1, <2>3 DEF Drawn, Seen
  <2> QED BY <2>2, <2>4, <2>5
<1>6. CASE Tick \/ Move
  <2>1. UNCHANGED fifo /\ UNCHANGED <<unseen, stage, clip, dropped>>
    BY <1>6 DEF Tick, Move, frame
  <2>2. RingInv' /\ Queued' = Queued /\ cmd' = cmd
    BY <2>1, FifoStays DEF fifo
  <2>3. ScreenTyped' /\ Asked'
    BY <1>0, <2>1, <2>2 DEF ScreenTyped, Asked, flags
  <2>4. Drawn' /\ Seen'
    BY <1>0, <2>1, <2>2 DEF Drawn, Seen
  <2> QED BY <2>2, <2>3, <2>4
<1> QED BY <1>1, <1>2, <1>3, <1>4, <1>5, <1>6

\* The cursor stays on the screen.
OnScreen == mouse \in Cells
LEMMA MouseStays ==
  ASSUME OnScreen, [ScreenNext]_screenVars
  PROVE  OnScreen'
<1>1. Pointer \subseteq Cells
  BY ScreenAssumption
<1>2. \/ mouse' = mouse \/ mouse' \in Pointer
  BY DEF ScreenNext, Drawing, screenVars, pointer, MoveTo, ReadAt, Change, ChangeAll, Resize, ChangeBare,
         Move, AltT, Enter, Exit, Migrate, Poll, PollNew, PollLast, Pace, SetClip, Draw, DrawCursor,
         Clear, Present, AskUpdate, PutUpdate, SendUpdate, LoseUpdate, Refresh, Tick
<1> QED BY <1>1, <1>2 DEF OnScreen, Cells

LEMMA ScreenKeeps ==
  ASSUME ScreenInv, OnScreen, [ScreenNext]_screenVars
  PROVE  ScreenInv'
<1>1. ASSUME UNCHANGED screenVars PROVE ScreenInv'
  <2>1. UNCHANGED fifo /\ Pending' = Pending
    BY <1>1 DEF screenVars, flags, Pending, Cells
  <2>2. RingInv' /\ Queued' = Queued /\ cmd' = cmd
    BY <2>1, FifoStays DEF ScreenInv, fifo
  <2>3. (ScreenTyped /\ Drawn /\ Seen /\ Asked)'
    BY <1>1, <2>1, <2>2
    DEF ScreenInv, ScreenTyped, Drawn, Seen, Asked, screenVars, flags, frame, Early, Framed
  <2> QED BY <2>2, <2>3 DEF ScreenInv
<1>2. ASSUME NEW r \in Rect, Change(r) \/ ChangeBare(r) PROVE ScreenInv'
  BY <1>2, ChangeKeeps
<1>3. ASSUME Drawing PROVE ScreenInv'
  BY <1>3, MarkKeeps, PollKeeps, FrameKeeps, UpdateKeeps DEF Drawing, OnScreen
<1> QED BY <1>1, <1>2, <1>3, MarkKeeps, UpdateKeeps DEF ScreenNext

LEMMA ScreenSpecInv == ScreenSpec => [](ScreenInv /\ OnScreen)
<1>1. ScreenInit => OnScreen
  BY ScreenAssumption DEF ScreenInit, Cells, OnScreen
<1> QED BY <1>1, ScreenStarts, ScreenKeeps, MouseStays, PTL DEF ScreenSpec

\* When the desktop is at rest, the cells not drawn as it has them are those for which
\* nobody invalidated a rectangle, however changes, Alt+T, the editor and the move to
\* the device's framebuffer are interleaved with the steps of a frame.
THEOREM EverythingDrawn == ScreenSpec => []AllDrawn
<1>1. ScreenInv => AllDrawn
  BY DEF ScreenInv, ScreenTyped, Drawn, AllDrawn, Settled, Pending, Early, Framed
<1> QED BY <1>1, ScreenSpecInv, PTL

\* And the glass shows what was drawn, but for updates that are queued or were dropped.
THEOREM EverythingSeen == ScreenSpec => []AllSeen
<1>1. ScreenInv => AllSeen
  BY DEF ScreenInv, ScreenTyped, Seen, AllSeen, Settled, Pending, CellsOf, Early, Framed
<1> QED BY <1>1, ScreenSpecInv, PTL
---------------------------------------------------------------------------
(* The cursor. *)

\* What will be drawn before the next cursor is.
Ahead == IF stage \in Early \cup {"present"} THEN Pending ELSE IF stage = "draw" THEN clip ELSE {}

CursorTyped ==
  /\ mouse \in Cells /\ images \subseteq Cells
  /\ known => last = mouse

\* The cursor is where it is drawn, or is on its way there.
Placed ==
  \/ editor \/ moved \/ stage = "new" \/ mouse \in Ahead \/ mouse \in images
  \/ stage = "cursor" /\ mouse \in clip

\* An image of it is drawn over, or is where the next movement will have it drawn over.
Erased ==
  \A c \in images \ strays :
    c \in Ahead \/ (c = last /\ (moved \/ c = mouse) /\ stage \notin {"new", "last"})

CursorInv == CursorTyped /\ Placed /\ Erased

\* Where the interrupt may have moved the cursor.
Moved == UNCHANGED pointer \/ \E c \in Pointer \cup {mouse} : MoveTo(c)

LEMMA MovedIs ==
  ASSUME CursorTyped, Moved
  PROVE  /\ mouse' \in Cells /\ (last' = last => (known' => last' = mouse'))
         /\ (moved' \/ mouse' = mouse) /\ (moved => moved')
<1>1. Pointer \subseteq Cells
  BY ScreenAssumption
<1>2. CASE UNCHANGED pointer
  BY <1>2 DEF pointer, CursorTyped
<1>3. CASE \E c \in Pointer \cup {mouse} : MoveTo(c)
  BY <1>1, <1>3 DEF MoveTo, CursorTyped
<1> QED BY <1>2, <1>3 DEF Moved

\* The steps that draw no cursor and take nothing from what will be drawn.
LEMMA CursorRests ==
  ASSUME CursorInv, UNCHANGED <<cursor, editor>>, Moved, Ahead \subseteq Ahead',
         stage \in {"new", "cursor"} => stage' = stage /\ clip' = clip,
         stage' \in {"new", "last"} => stage' = stage
  PROVE  CursorInv'
<1> USE DEF CursorInv, cursor
<1>1. /\ mouse' \in Cells /\ (last' = last => (known' => last' = mouse'))
      /\ (moved' \/ mouse' = mouse) /\ (moved => moved')
  BY MovedIs
<1>2. CursorTyped'
  BY <1>1 DEF CursorTyped, Cells
<1>3. Placed'
  BY <1>1 DEF Placed
<1>4. Erased'
  <2>1. SUFFICES ASSUME NEW c \in images \ strays
                 PROVE  c \in Ahead' \/ (c = last /\ (moved' \/ c = mouse') /\ stage' \notin {"new", "last"})
    BY DEF Erased
  <2>2. c \in Ahead \/ (c = last /\ (moved \/ c = mouse) /\ stage \notin {"new", "last"})
    BY <2>1 DEF Erased
  <2> QED BY <1>1, <2>2
<1> QED BY <1>2, <1>3, <1>4

LEMMA RestingSteps ==
  ASSUME ScreenInv, CursorInv,
         \/ \E r \in Rect : Change(r) \/ ChangeBare(r)
         \/ ChangeAll \/ Move \/ AltT \/ Migrate \/ Pace \/ SetClip \/ Present
         \/ AskUpdate \/ PutUpdate \/ SendUpdate \/ LoseUpdate \/ Refresh \/ Tick
         \/ UNCHANGED screenVars
  PROVE  CursorInv'
<1> USE DEF Early
<1>0. area \subseteq Cells /\ Cells' = Cells /\ stage \in Early \cup Framed
  BY RectsAre DEF ScreenInv, ScreenTyped, Cells
<1>1. CASE \E r \in Rect : Change(r)
  <2>1. PICK r \in Rect : Change(r)
    BY <1>1
  <2>2. Pending \subseteq Pending' /\ UNCHANGED <<stage, clip, editor, cursor, pointer>>
    BY <2>1, InvalidateGrows DEF Change, frame
  <2>3. Calm
    BY <2>1 DEF Change
  <2> QED BY <1>0, <2>2, <2>3, CursorRests DEF Moved, Ahead, Calm
<1>2. CASE \E r \in Rect : ChangeBare(r)
  <2>1. Pending' = Pending /\ Calm /\ UNCHANGED <<stage, clip, editor, cursor, pointer>>
    BY <1>2 DEF ChangeBare, frame, Pending, Cells
  <2> QED BY <2>1, CursorRests DEF Moved, Ahead, Calm
<1>3. CASE ChangeAll \/ AltT
  <2>1. Pending' = Cells /\ UNCHANGED <<stage, clip, editor, cursor, pointer>>
    BY <1>3, MarkDirtyAll DEF ChangeAll, AltT, frame
  <2>2. Pending \subseteq Pending'
    BY <1>0, <2>1 DEF Pending
  <2>3. Ahead \subseteq Ahead'
    BY <2>1, <2>2 DEF Ahead
  <2> QED BY <1>3, <2>1, <2>3, CursorRests DEF Moved, ChangeAll, Calm
<1>4. CASE Migrate
  <2>1. Pending' = Cells /\ stage = "idle" /\ UNCHANGED <<stage, clip, editor, cursor, pointer>>
    BY <1>4, MarkDirtyAll DEF Migrate, frame
  <2>2. Pending \subseteq Pending'
    BY <1>0, <2>1 DEF Pending
  <2>3. Ahead \subseteq Ahead'
    BY <2>1, <2>2 DEF Ahead
  <2> QED BY <2>1, <2>3, CursorRests DEF Moved
<1>5. CASE Move \/ Refresh \/ Tick \/ AskUpdate \/ PutUpdate \/ UNCHANGED screenVars
  <2>1. UNCHANGED <<stage, clip, editor, flags, cursor>> /\ Moved
    BY <1>5 DEF Move, Refresh, Tick, AskUpdate, PutUpdate, screenVars, frame, Moved
  <2>2. Ahead' = Ahead
    BY <2>1 DEF Ahead, Pending, flags, Cells
  <2> QED BY <2>1, <2>2, CursorRests
<1>6. CASE Pace
  <2>1. stage = "pace" /\ stage' \in {"clip", "idle"} /\ UNCHANGED <<editor, flags, cursor, pointer>>
    BY <1>6 DEF Pace, polling
  <2>2. Ahead' = Ahead
    BY <2>1 DEF Ahead, Pending, flags, Cells
  <2> QED BY <2>1, <2>2, CursorRests DEF Moved
<1>7. CASE SetClip
  <2>1. /\ stage = "clip" /\ stage' = "draw" /\ clip' = (IF full \/ area = {} THEN Cells ELSE area)
        /\ UNCHANGED <<editor, flags, cursor, pointer>>
    BY <1>7 DEF SetClip
  <2>2. Ahead = Pending /\ Ahead' = clip'
    BY <2>1 DEF Ahead
  <2>3. Ahead \subseteq Ahead'
    BY <1>0, <2>1, <2>2 DEF Pending
  <2> QED BY <2>1, <2>3, CursorRests DEF Moved
<1>8. CASE Present \/ SendUpdate \/ LoseUpdate
  <2>1. stage = "present"
    <3>1. SendUpdate => stage = "present"
      <4>1. SendUpdate => cmd # NoCmd
        BY DEF SendUpdate, Commit
      <4> QED BY <4>1 DEF ScreenInv, Asked
    <3> QED BY <1>8, <3>1 DEF Present, LoseUpdate
  <2>2. stage' = "idle" /\ UNCHANGED <<editor, flags, cursor, pointer>>
    BY <1>8 DEF Present, SendUpdate, LoseUpdate
  <2>3. Ahead' = Ahead
    BY <2>1, <2>2 DEF Ahead, Pending, flags, Cells
  <2> QED BY <2>1, <2>2, <2>3, CursorRests DEF Moved
<1> QED BY <1>1, <1>2, <1>3, <1>4, <1>5, <1>6, <1>7, <1>8

\* Another resolution, and the editor.
LEMMA OtherSteps ==
  ASSUME ScreenInv, CursorInv, Resize \/ Enter \/ Exit
  PROVE  CursorInv'
<1> USE DEF Early, CursorInv
<1>0. Pointer \subseteq Cells /\ images \subseteq Cells /\ Cells' = Cells
  BY ScreenAssumption DEF CursorTyped, Cells
<1>1. CASE Resize \/ Exit
  <2>1. /\ Pending' = Cells /\ stage' = stage /\ stage \in Early
        /\ UNCHANGED <<moved, cursor>> /\ mouse' \in Cells /\ (known' => known /\ mouse' = mouse)
    <3>1. CASE Resize
      <4>1. mouse' \in Pointer /\ ~known' /\ UNCHANGED <<moved, cursor, stage>> /\ stage \in Early /\ MarkDirty
        BY <3>1 DEF Resize, frame, Calm
      <4> QED BY <1>0, <4>1, MarkDirtyAll
    <3>2. CASE Exit
      <4>1. UNCHANGED <<pointer, cursor, stage>> /\ stage \in Early /\ MarkDirty
        BY <3>2 DEF Exit, frame, ScreenInv, ScreenTyped
      <4> QED BY <4>1, MarkDirtyAll DEF pointer, CursorTyped
    <3> QED BY <1>1, <3>1, <3>2
  <2>2. Ahead' = Cells
    BY <2>1 DEF Ahead
  <2> QED BY <1>0, <2>1, <2>2 DEF CursorTyped, Placed, Erased, cursor
<1>2. CASE Enter
  <2>1. /\ editor' /\ images' \subseteq images /\ UNCHANGED <<pointer, last, strays, flags, stage, clip>>
    BY <1>2 DEF Enter, frame
  <2>2. Ahead' = Ahead
    BY <2>1 DEF Ahead, Pending, flags, Cells
  <2> QED BY <1>0, <2>1, <2>2 DEF CursorTyped, Placed, Erased, pointer
<1> QED BY <1>1, <1>2

\* gui_poll takes the cursor's place: all its images are to be drawn over before last_cx
\* is written.
LEMMA PollCursor ==
  ASSUME ScreenInv, CursorInv, Poll \/ PollNew \/ PollLast
  PROVE  CursorInv'
<1> USE DEF Early, CursorInv
<1>0. /\ ~editor /\ Pending \subseteq Pending' /\ Cells' = Cells
      /\ stage \in Early /\ stage' \in Early /\ UNCHANGED <<editor, images, strays>>
  <2>1. Pending \subseteq Pending'
    BY PollKeeps DEF CursorTyped
  <2> QED BY <2>1 DEF Poll, PollNew, PollLast, polling, cursor, ScreenInv, ScreenTyped, Cells
<1>1. Ahead = Pending /\ Ahead' = Pending'
  BY <1>0 DEF Ahead
<1>2. CASE Poll
  <2>1. CASE ~moved
    <3>1. stage = "idle" /\ stage' = "pace" /\ UNCHANGED <<cursor, editor>> /\ UNCHANGED pointer
      BY <1>2, <2>1 DEF Poll, polling, pointer
    <3> QED BY <1>0, <1>1, <3>1, CursorRests DEF Moved
  <2>2. CASE moved
    <3>1. /\ stage = "idle" /\ stage' = "new" /\ Invalidate({last} \cap Cells)
          /\ UNCHANGED <<mouse, known, cursor>>
      BY <1>2, <2>2 DEF Poll
    <3>2. area \cup ({last} \cap Cells) \subseteq area' /\ full' = full
      <4>1. area' = Hull(area \cup ({last} \cap Cells)) /\ full' = full
        BY <3>1 DEF Invalidate
      <4>2. area \subseteq Cells
        BY RectsAre DEF ScreenInv, ScreenTyped
      <4> DEFINE s == area \cup ({last} \cap Cells)
      <4>3. s \subseteq Cells
        BY <4>2
      <4> HIDE DEF s
      <4>4. s \subseteq Hull(s)
        <5>1. CASE s = {}
          BY <5>1
        <5>2. CASE s # {}
          BY <4>3, <5>2, HullIs
        <5> QED BY <5>1, <5>2
      <4> QED BY <4>1, <4>4 DEF s
    <3>3. last \in Cells => last \in Pending'
      BY <1>0, <3>2 DEF Pending
    <3>4. \A c \in images \ strays : c \in Pending'
      <4>1. SUFFICES ASSUME NEW c \in images \ strays PROVE c \in Pending'
        OBVIOUS
      <4>2. c \in Pending \/ c = last
        BY <1>1 DEF Erased
      <4>3. c \in Cells
        BY DEF CursorTyped
      <4> QED BY <1>0, <3>3, <4>2, <4>3
    <3> QED BY <1>0, <1>1, <3>1, <3>4 DEF CursorTyped, Placed, Erased, cursor
  <2> QED BY <2>1, <2>2
<1>3. CASE PollNew
  <2>1. stage = "new" /\ stage' = "last" /\ UNCHANGED cursor
    BY <1>3 DEF PollNew
  <2>2. Moved /\ (moved' \/ Invalidate({mouse}))
    BY <1>3 DEF PollNew, Moved, MoveTo
  <2>3. /\ mouse' \in Cells /\ (last' = last => (known' => last' = mouse'))
        /\ (moved' \/ mouse' = mouse)
    BY <2>2, MovedIs
  <2>4. CASE moved'
    BY <1>0, <1>1, <2>1, <2>3, <2>4 DEF CursorTyped, Placed, Erased, cursor
  <2>5. CASE Invalidate({mouse}) /\ ~moved'
    <3>1. mouse \in Hull(area \cup {mouse}) /\ area' = Hull(area \cup {mouse}) /\ full' = full
      <4>1. area \subseteq Cells
        BY RectsAre DEF ScreenInv, ScreenTyped
      <4> DEFINE s == area \cup {mouse}
      <4>2. s \in SUBSET Cells /\ s # {}
        BY <4>1 DEF CursorTyped
      <4>3. mouse \in s
        OBVIOUS
      <4> HIDE DEF s
      <4>4. s \subseteq Hull(s)
        BY <4>2, HullIs
      <4>5. mouse \in Hull(s)
        BY <4>3, <4>4
      <4> QED BY <2>5, <4>5 DEF s, Invalidate
    <3>2. mouse \in Pending'
      BY <1>0, <3>1 DEF Pending, CursorTyped
    <3> QED BY <1>0, <1>1, <2>1, <2>3, <2>5, <3>2 DEF CursorTyped, Placed, Erased, cursor
  <2> QED BY <2>2, <2>4, <2>5
<1>4. CASE PollLast
  <2>1. /\ stage = "last" /\ stage' = "pace"
        /\ \/ last' = mouse /\ UNCHANGED <<mouse, moved>>
           \/ moved' /\ ~known' /\ mouse' \in Cells
    BY <1>4, ScreenAssumption DEF PollLast, MoveTo
  <2>2. CursorTyped'
    BY <1>0, <2>1 DEF CursorTyped
  <2>3. Placed'
    BY <1>0, <1>1, <2>1 DEF Placed
  <2>4. Erased'
    BY <1>0, <1>1, <2>1 DEF Erased
  <2> QED BY <2>2, <2>3, <2>4
<1> QED BY <1>2, <1>3, <1>4

LEMMA DrawKeepsCursor ==
  ASSUME ScreenInv, CursorInv, Draw \/ DrawCursor \/ Clear
  PROVE  CursorInv'
<1> USE DEF Early, CursorInv
<1>0. ~editor /\ Cells' = Cells
  BY DEF Draw, DrawCursor, Clear, ScreenInv, ScreenTyped, Cells
<1>1. CASE Draw
  <2>1. /\ stage = "draw" /\ stage' = "cursor" /\ images' = images \ clip /\ strays' = strays \ clip
        /\ UNCHANGED <<clip, mouse, moved, known, last, editor>>
    BY <1>1 DEF Draw, pointer
  <2>2. Ahead = clip /\ Ahead' = {}
    BY <2>1 DEF Ahead
  <2> QED BY <1>0, <2>1, <2>2 DEF CursorTyped, Placed, Erased
<1>2. CASE DrawCursor
  <2>1. PICK c \in Cells :
          /\ ReadAt(c) /\ images' = images \cup ({c} \cap clip)
          /\ strays' = IF known' THEN strays ELSE strays \cup ({c} \cap clip)
    BY <1>2 DEF DrawCursor
  <2>2. stage = "cursor" /\ stage' = "clear" /\ UNCHANGED <<clip, last, editor>>
    BY <1>2 DEF DrawCursor
  <2>3. Ahead = {} /\ Ahead' = {}
    BY <2>2 DEF Ahead
  <2>4. Moved /\ ((moved' /\ ~known') \/ (c = mouse /\ UNCHANGED pointer))
    <3>1. CASE c = mouse /\ UNCHANGED pointer
      BY <3>1 DEF Moved
    <3>2. CASE \E d \in Pointer \ {mouse} : MoveTo(d)
      <4>1. \E d \in Pointer \cup {mouse} : MoveTo(d)
        BY <3>2
      <4> QED BY <3>2, <4>1 DEF Moved, MoveTo
    <3> QED BY <2>1, <3>1, <3>2 DEF ReadAt
  <2>5. /\ mouse' \in Cells /\ (known' => last = mouse')
        /\ (moved' \/ mouse' = mouse) /\ (moved => moved')
    BY <2>2, <2>4, MovedIs
  <2>6. CursorTyped'
    BY <1>0, <2>1, <2>2, <2>5 DEF CursorTyped
  <2>7. Placed'
    BY <1>0, <2>1, <2>2, <2>3, <2>4, <2>5 DEF Placed, pointer
  <2>8. Erased'
    <3>1. SUFFICES ASSUME NEW d \in images', d \notin strays'
                   PROVE  d = last /\ (moved' \/ d = mouse')
      BY <2>2 DEF Erased
    <3>2. CASE d \in images \ strays
      BY <2>3, <2>5, <3>2 DEF Erased
    <3>3. CASE d = c /\ d \in clip
      BY <2>1, <2>4, <2>5, <3>1, <3>3 DEF pointer
    <3> QED BY <2>1, <3>1, <3>2, <3>3
  <2> QED BY <2>6, <2>7, <2>8
<1>3. CASE Clear
  <2>1. /\ stage = "clear" /\ stage' = "present" /\ area' = {} /\ full' = FALSE
        /\ UNCHANGED <<mouse, moved, known, last, images, strays, editor>>
    BY <1>3 DEF Clear, pointer, cursor, polling
  <2>2. Ahead = {} /\ Ahead' = {}
    BY <2>1 DEF Ahead, Pending
  <2> QED BY <1>0, <2>1, <2>2 DEF CursorTyped, Placed, Erased
<1> QED BY <1>1, <1>2, <1>3

LEMMA CursorKeeps ==
  ASSUME ScreenInv, CursorInv, [ScreenNext]_screenVars
  PROVE  CursorInv'
BY RestingSteps, OtherSteps, PollCursor, DrawKeepsCursor DEF ScreenNext, Drawing

\* When the desktop and the mouse are at rest the cursor is drawn where it is, and
\* elsewhere only where gui_draw drew it at a place gui_poll did not know of, for every
\* screen, wherever among the steps of a frame the mouse interrupt moves it.
THEOREM CursorIsDrawn == ScreenSpec => []CursorDrawn
<1>1. ScreenInit => CursorInv
  <2>1. ScreenInit => mouse \in Cells
    BY ScreenAssumption DEF ScreenInit, Cells
  <2>2. ScreenInit => Ahead = Cells
    BY DEF ScreenInit, Ahead, Pending, Early
  <2> QED BY <2>1, <2>2 DEF ScreenInit, CursorInv, CursorTyped, Placed, Erased
<1>2. CursorInv /\ ScreenInv => CursorDrawn
  <2>1. SUFFICES ASSUME CursorInv, ScreenInv, Settled, ~moved PROVE mouse \in images /\ images \subseteq {mouse} \cup strays
    BY DEF CursorDrawn
  <2>2. Ahead = {}
    BY <2>1 DEF Settled, Ahead, Pending, ScreenInv, ScreenTyped, Early
  <2>3. stage = "idle" /\ ~editor
    BY <2>1 DEF Settled
  <2>4. mouse \in images
    BY <2>1, <2>2, <2>3 DEF CursorInv, Placed
  <2>5. \A c \in images \ strays : c = mouse
    BY <2>1, <2>2 DEF CursorInv, Erased
  <2> QED BY <2>4, <2>5
<1> QED BY <1>1, <1>2, CursorKeeps, ScreenSpecInv, PTL DEF ScreenSpec
---------------------------------------------------------------------------
(* Every step of the command ring is a step of the queue. *)

LEMMA UpdateStep == ScreenInv /\ [ScreenNext]_screenVars => [Updates!Next]_Queued
<1> SUFFICES ASSUME ScreenInv, [ScreenNext]_screenVars PROVE [Updates!Next]_Queued
  OBVIOUS
<1>0. RingInv
  BY DEF ScreenInv
<1>1. ASSUME Commit PROVE Updates!Next
  <2>1. Queued' = Append(Queued, cmd) /\ Len(Queued) < Words \div CmdWords /\ cmd # NoCmd
    BY <1>0, <1>1, CommitDoes DEF Commands
  <2>2. cmd \in Rect
    BY <2>1 DEF ScreenInv, Asked, ScreenTyped, Framed
  <2>3. Updates!Arrive(cmd)
    BY <2>1 DEF Updates!Arrive
  <2> QED BY <2>2, <2>3 DEF Updates!Next
<1>2. ASSUME Execute PROVE Updates!Next
  <2>1. Queued' = Tail(Queued) /\ Queued # <<>>
    BY <1>0, <1>2, ExecuteDoes
  <2> QED BY <1>0, <2>1 DEF Updates!Next, Updates!Read
<1>3. ASSUME AskUpdate PROVE Queued' = Queued
  <2>1. Reserve(clip) /\ clip \in Rect
    BY <1>3 DEF AskUpdate, ScreenInv, ScreenTyped, Framed
  <2> QED BY <1>0, <2>1, ReserveDoes
<1>4. ASSUME PutUpdate PROVE Queued' = Queued
  BY <1>0, <1>4, PutDoes DEF PutUpdate
<1>5. ASSUME UNCHANGED fifo PROVE Queued' = Queued
  BY <1>0, <1>5, FifoStays
<1>6. \/ UNCHANGED fifo \/ Commit \/ Execute \/ AskUpdate \/ PutUpdate
  BY DEF ScreenNext, Drawing, screenVars, Change, ChangeAll, Resize, ChangeBare, Move, AltT, Enter,
         Exit, Migrate, polling, Poll, PollNew, PollLast, Pace, SetClip, Draw, DrawCursor, Clear,
         Present, SendUpdate, LoseUpdate, Refresh, Tick
<1> QED BY <1>1, <1>2, <1>3, <1>4, <1>5, <1>6

\* For every size of the ring, the device gets every update that was committed, whole,
\* once and in order, and there are never more of them than the ring has room for.
THEOREM UpdatesInOrder == ScreenSpec => UpdatesSpec
<1>1. ScreenInit => Updates!Init
  BY ScreenStarts DEF Updates!Init
<1> QED BY <1>1, UpdateStep, ScreenSpecInv, PTL DEF ScreenSpec, UpdatesSpec, Updates!Spec

=============================================================================

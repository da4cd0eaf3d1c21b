---------------------------- MODULE Net_proofs ----------------------------
(***************************************************************************)
(* The ARP cache and the count of ping, for every number of hosts, entries *)
(* and requests, and whatever the network loses, repeats and reorders.     *)
(* What the two properties rest on is where a frame can come from: every   *)
(* frame on its way to us, or in the card, names the host that sent it and *)
(* that host's card; and from a ping on that began with no answer to an    *)
(* earlier one still to come, an echo reply among them is the answer of    *)
(* the host that ping is for to its request of that number.                *)
(***************************************************************************)
EXTENDS Net, SequenceTheorems, FiniteSetTheorems, CommonLemmas, TLAPS
\* A frame a host has sent us, and one we send.
FromHost(f, done, old, h) ==
  /\ f \in Frame /\ f.ip \in Host /\ f.mac = f.ip
  /\ f.kind = "echoReply" /\ ~old => f.ip = h /\ <<f.ip, f.seq>> \in done
FromUs(f, old, h) == f \in Frame /\ f.to \in Host /\ (f.kind = "echo" /\ ~old => f.to = h)
Frames ==
  /\ \A f \in air : FromHost(f, answered, leftover, dst)
  /\ queue \in Seq(Frame) /\ \A k \in 1 .. Len(queue) : FromHost(queue[k], answered, leftover, dst)
  /\ out # None => FromUs(out, leftover, dst)
TypeOK ==
  /\ ip \in Us /\ arp \in [Entries -> Entry]
  /\ pc \in {"idle", "lookup", "arp", "echo", "pause"} /\ at \in {"start", "head", "poll"}
  /\ dst \in Host /\ seq \in Seqs /\ left \in Nat
  /\ sent \in Nat /\ got \in Nat
  /\ counted \subseteq Host \X Seqs /\ answered \subseteq Host \X Seqs /\ leftover \in BOOLEAN
\* ping counts no more answers than it has sent requests, and sends no more than asked for.
Statistics ==
  /\ got <= sent /\ sent <= Count
  /\ pc = "echo" => got < sent
  /\ pc \in {"lookup", "arp"} => sent <= seq
  /\ pc \in {"echo", "pause"} => sent <= seq + 1
IInv == TypeOK /\ Frames /\ Statistics /\ CacheSound /\ CountedWasAnswered
---------------------------------------------------------------------------
(* The cache. *)

LEMMA SizesAre ==
  /\ RX_N \in Nat \ {0} /\ ARP_N \in Nat \ {0} /\ Count \in Nat \ {0}
  /\ Wait \in Nat \ {0} /\ Pause \in Nat \ {0}
BY NetAssumption

\* arp_learn writes to the entry of the host if there is one.
LEMMA EntryForIs ==
  ASSUME NEW table, NEW h
  PROVE  /\ EntryFor(table, h) \in Entries
         /\ Known(table, h) # {} => EntryFor(table, h) \in Known(table, h)
<1> DEFINE free == {e \in Entries : table[e] = None}
           use == IF Known(table, h) # {} THEN Known(table, h) ELSE IF free # {} THEN free ELSE {1}
<1>1. use # {} /\ use \subseteq Entries
  <2>1. 1 \in Entries
    BY SizesAre DEF Entries
  <2>2. Known(table, h) \subseteq Entries /\ free \subseteq Entries
    BY DEF Known
  <2> QED BY <2>1, <2>2
<1>2. EntryFor(table, h) = CHOOSE e \in use : \A d \in use : e <= d
  BY DEF EntryFor
<1>3. Known(table, h) # {} => use = Known(table, h)
  OBVIOUS
<1> HIDE DEF use
<1>4. use \in SUBSET Nat
  BY <1>1, SizesAre DEF Entries
<1>5. \E e \in use : \A d \in use : e <= d
  BY <1>1, <1>4, LeastOf
<1>6. EntryFor(table, h) \in use
  BY <1>2, <1>5
<1> QED BY <1>1, <1>3, <1>6

\* The cache stays sound when it learns the card of the host a frame comes from.
LEMMA LearnKeeps ==
  ASSUME arp \in [Entries -> Entry], CacheSound, NEW h \in Host, Learn(h, h)
  PROVE  arp' \in [Entries -> Entry] /\ CacheSound'
<1> DEFINE x == EntryFor(arp, h)
           new == [ip |-> h, mac |-> h]
<1>1. x \in Entries /\ (Known(arp, h) # {} => x \in Known(arp, h))
  BY EntryForIs
<1>2. arp' = [arp EXCEPT ![x] = new] /\ new \in Entry /\ new.ip = h /\ new.mac = h
  BY DEF Learn, Entry
<1> HIDE DEF x, new
<1>3. \A e \in Entries : arp'[e] = IF e = x THEN new ELSE arp[e]
  BY <1>1, <1>2
<1>4. \A e \in Entries \ {x} : arp[e] # None => arp[e].ip # h
  <2>1. SUFFICES ASSUME NEW e \in Entries \ {x}, arp[e] # None, arp[e].ip = h PROVE FALSE
    OBVIOUS
  <2>2. e \in Known(arp, h)
    BY <2>1 DEF Known
  <2>3. arp[x] # None /\ arp[x].ip = h
    BY <1>1, <2>2 DEF Known
  <2> QED BY <1>1, <2>1, <2>3 DEF CacheSound
<1>5. CacheSound'
  <2>1. SUFFICES ASSUME NEW e \in Entries, arp'[e] # None
                 PROVE  /\ arp'[e].mac = arp'[e].ip
                        /\ \A d \in Entries \ {e} : arp'[d] # None => arp'[d].ip # arp'[e].ip
    BY DEF CacheSound
  <2>2. CASE e = x
    BY <1>2, <1>3, <1>4, <2>2
  <2>3. CASE e # x
    <3>1. arp'[e] = arp[e] /\ arp[e] # None
      BY <1>3, <2>1, <2>3
    <3>2. arp[e].mac = arp[e].ip /\ arp[e].ip # h
      BY <1>4, <2>3, <3>1 DEF CacheSound
    <3>3. \A d \in Entries \ {e, x} : arp'[d] # None => arp'[d].ip # arp[e].ip
      BY <1>3, <3>1 DEF CacheSound
    <3> QED BY <1>2, <1>3, <3>1, <3>2, <3>3
  <2> QED BY <2>2, <2>3
<1>6. arp' \in [Entries -> Entry]
  BY <1>1, <1>2
<1> QED BY <1>5, <1>6
---------------------------------------------------------------------------
(* A frame is read. *)

LEMMA HandleKeeps ==
  ASSUME arp \in [Entries -> Entry], CacheSound, NEW f, FromHost(f, answered, leftover, dst), Handle(f),
         out # None => FromUs(out, leftover, dst)
  PROVE  arp' \in [Entries -> Entry] /\ CacheSound' /\ (out' # None => FromUs(out', leftover, dst))
<1>1. f \in Frame /\ f.ip \in Host /\ f.mac = f.ip
  BY DEF FromHost
<1>2. ASSUME NEW kind \in Kinds \ {"echo"} PROVE 
             FromUs([Reply(kind, f) EXCEPT !.mac = f.mac], leftover, dst)
  BY <1>1 DEF Reply, FromUs, Frame
<1>3. {"arpReply", "echoReply"} \subseteq Kinds \ {"echo"}
  BY DEF Kinds
<1>4. out' # None => FromUs(out', leftover, dst)
  BY <1>2, <1>3 DEF Handle, Send, Quiet
<1>5. CASE Learn(f.ip, f.mac)
  BY <1>1, <1>4, <1>5, LearnKeeps
<1>6. CASE UNCHANGED arp
  BY <1>4, <1>6 DEF CacheSound
<1> QED BY <1>5, <1>6 DEF Handle

LEMMA PollKeeps ==
  ASSUME IInv, PollOne, UNCHANGED <<hosts, dst, leftover>>
  PROVE  arp' \in [Entries -> Entry] /\ CacheSound' /\ Frames'
<1>0. /\ arp \in [Entries -> Entry] /\ CacheSound /\ Frames
      /\ air' = air /\ answered' = answered /\ dst' = dst /\ leftover' = leftover
  BY DEF IInv, TypeOK, hosts
<1>1. CASE Received = None
  <2>1. UNCHANGED <<queue, arp, out>>
    BY <1>1 DEF PollOne, Quiet
  <2> QED BY <1>0, <2>1 DEF Frames, FromHost, FromUs, CacheSound
<1>2. CASE Received # None
  <2>1. queue # <<>> /\ queue' = Tail(queue) /\ Handle(Head(queue))
    BY <1>2 DEF PollOne, Received, Card!Read
  <2>2. /\ Len(queue) \in Nat \ {0} /\ 1 \in 1 .. Len(queue) /\ Head(queue) = queue[1]
        /\ queue' \in Seq(Frame) /\ Len(queue') = Len(queue) - 1
        /\ \A k \in 1 .. Len(queue') : queue'[k] = queue[k + 1]
    BY <1>0, <2>1, EmptySeq, HeadTailProperties DEF Frames
  <2>3. FromHost(Head(queue), answered, leftover, dst)
    BY <1>0, <2>2 DEF Frames
  <2>4. arp' \in [Entries -> Entry] /\ CacheSound' /\ (out' # None => FromUs(out', leftover, dst))
    BY <1>0, <2>1, <2>3, HandleKeeps DEF Frames
  <2>5. \A k \in 1 .. Len(queue') : FromHost(queue'[k], answered, leftover, dst)
    BY <1>0, <2>2 DEF Frames
  <2> QED BY <1>0, <2>2, <2>4, <2>5 DEF Frames
<1> QED BY <1>1, <1>2

\* What ping reads is a frame a host has sent.
LEMMA ReceivedIs ==
  ASSUME IInv, Received # None
  PROVE  FromHost(Received, answered, leftover, dst)
<1>1. queue # <<>> /\ Received = Head(queue) /\ queue \in Seq(Frame)
  BY DEF Received, IInv, Frames
<1>2. Len(queue) \in Nat \ {0} /\ Head(queue) = queue[1]
  BY <1>1, EmptySeq
<1>3. \A k \in 1 .. Len(queue) : FromHost(queue[k], answered, leftover, dst)
  BY DEF IInv, Frames
<1>4. 1 \in 1 .. Len(queue)
  BY <1>2
<1>5. FromHost(queue[1], answered, leftover, dst)
  BY <1>3, <1>4
<1>6. Received = queue[1]
  BY <1>1, <1>2
<1> QED BY <1>5, <1>6
---------------------------------------------------------------------------
(* The network. *)

LEMMA InitIInv == Init => IInv
<1> SUFFICES ASSUME Init PROVE IInv
  OBVIOUS
<1>1. TypeOK
  <2>1. leftover \in BOOLEAN
    BY DEF Init
  <2>2. arp \in [Entries -> Entry] /\ seq \in Seqs
    BY SizesAre DEF Init, Entry, Seqs
  <2> QED BY <2>1, <2>2 DEF Init, TypeOK
<1>2. Frames
  <2>1. queue \in Seq(Frame) /\ Len(queue) = 0
    BY EmptySeq DEF Init, Card!Init
  <2> QED BY <2>1 DEF Init, Frames
<1>3. Statistics /\ CacheSound /\ CountedWasAnswered
  BY SizesAre DEF Init, Statistics, CacheSound, CountedWasAnswered
<1> QED BY <1>1, <1>2, <1>3 DEF IInv

\* An answer to our request comes from the host it was for.
LEMMA TransmitKeeps == ASSUME IInv, Transmit PROVE IInv'
<1> USE DEF Transmit
<1>1. CASE UNCHANGED hosts
  BY <1>1 DEF IInv, TypeOK, Frames, FromHost, FromUs, Statistics, CacheSound, CountedWasAnswered,
         ping, hosts
<1>2. CASE ~UNCHANGED hosts
  <2> DEFINE f == Reply(IF out.kind = "arp" THEN "arpReply" ELSE "echoReply", out)
             done == answered \cup IF out.kind = "echo" THEN {<<out.to, out.seq>>} ELSE {}
  <2>1. /\ out # None /\ Reaches(out) /\ air' = air \cup {f} /\ answered' = done
        /\ out' = None /\ UNCHANGED <<queue, ip, arp, ping>>
    BY <1>2
  <2>2. out \in Frame /\ out.to \in Host /\ out.seq \in Seqs
    BY <2>1 DEF IInv, Frames, FromUs, Frame
  <2>3. f \in Frame /\ f.ip = out.to /\ f.mac = out.to /\ f.seq = out.seq
    BY <2>2 DEF Reply, Frame, Kinds
  <2>4. f.kind = "echoReply" => out.kind = "echo"
    BY <2>1, <2>2 DEF Reply, Reaches
  <2>5. FromHost(f, done, leftover, dst)
    BY <2>1, <2>2, <2>3, <2>4 DEF FromHost, IInv, Frames, FromUs
  <2>6. answered \subseteq done /\ done \subseteq Host \X Seqs
    BY <2>2 DEF IInv, TypeOK
  <2> HIDE DEF f, done
  <2>7. \A g : FromHost(g, answered, leftover, dst) => FromHost(g, done, leftover, dst)
    BY <2>6 DEF FromHost
  <2>8. Frames'
    BY <2>1, <2>5, <2>7 DEF IInv, Frames, ping
  <2>9. CountedWasAnswered'
    BY <2>1, <2>6 DEF IInv, CountedWasAnswered, ping
  <2> QED BY <2>1, <2>6, <2>8, <2>9 DEF IInv, TypeOK, Statistics, CacheSound, ping
<1> QED BY <1>1, <1>2

LEMMA HostSendsKeeps == ASSUME IInv, NEW h \in Host, HostSends(h) PROVE IInv'
<1>1. PICK k \in {"arp", "echo"} :
        air' = air \cup {[kind |-> k, ip |-> h, to |-> ip, mac |-> h, seq |-> 0]}
  BY DEF HostSends
<1> DEFINE f == [kind |-> k, ip |-> h, to |-> ip, mac |-> h, seq |-> 0]
<1>2. FromHost(f, answered, leftover, dst)
  BY SizesAre DEF FromHost, Frame, Kinds, Seqs, IInv, TypeOK
<1> HIDE DEF f
<1>3. Frames'
  BY <1>1, <1>2 DEF IInv, Frames, HostSends, card, ping, f
<1> QED BY <1>3 DEF HostSends, IInv, TypeOK, Statistics, CacheSound, CountedWasAnswered, card, ping

LEMMA DeliverKeeps == ASSUME IInv, NEW f \in air, Deliver(f) PROVE IInv'
<1> USE DEF Deliver
<1>1. Frames /\ FromHost(f, answered, leftover, dst) /\ f \in Frame
  BY DEF IInv, Frames, FromHost
<1>2. queue' \in Seq(Frame) /\ \A k \in 1 .. Len(queue') : FromHost(queue'[k], answered, leftover, dst)
  <2>1. CASE queue' = queue
    BY <1>1, <2>1 DEF Frames
  <2>2. CASE queue' = Append(queue, f)
    <3>1. /\ Append(queue, f) \in Seq(Frame) /\ Len(Append(queue, f)) = Len(queue) + 1
          /\ Len(queue) \in Nat
          /\ \A k \in 1 .. Len(queue) : Append(queue, f)[k] = queue[k]
          /\ Append(queue, f)[Len(queue) + 1] = f
      BY <1>1, AppendProperties, LenProperties DEF Frames
    <3>2. \A k \in 1 .. Len(queue) + 1 : k \in 1 .. Len(queue) \/ k = Len(queue) + 1
      BY <3>1
    <3> QED BY <1>1, <2>2, <3>1, <3>2 DEF Frames
  <2> QED BY <2>1, <2>2 DEF Card!Arrive
<1>3. Frames'
  BY <1>1, <1>2 DEF Frames, ping
<1> QED BY <1>3 DEF IInv, TypeOK, Statistics, CacheSound, CountedWasAnswered, ping

LEMMA LoseKeeps == ASSUME IInv, NEW f \in air, Lose(f) PROVE IInv'
BY DEF Lose, IInv, TypeOK, Frames, Statistics, CacheSound, CountedWasAnswered, card, ping
---------------------------------------------------------------------------
(* ping. *)

\* A step that changes neither the cache nor the frames.
LEMMA RestKeeps ==
  ASSUME IInv, UNCHANGED <<card, hosts, arp, dst, leftover>>
  PROVE  Frames' /\ CacheSound' /\ (counted' = counted => CountedWasAnswered')
BY DEF IInv, Frames, CacheSound, CountedWasAnswered, card, hosts

\* A ping begins; it has a leftover unless no answer is left anywhere.
LEMMA StartKeeps == ASSUME IInv, NEW h \in Host, Start(h) PROVE IInv'
<1> USE DEF Start
<1>1. leftover' \in BOOLEAN
  BY DEF AnswerMayCome
<1>2. Frames'
  <2>1. \A f \in air : FromHost(f, {}, leftover', h)
    BY DEF IInv, Frames, FromHost, AnswerMayCome
  <2>2. queue \in Seq(Frame) /\ DOMAIN queue = 1 .. Len(queue)
    BY LenProperties DEF IInv, Frames
  <2>3. \A k \in 1 .. Len(queue) : FromHost(queue[k], {}, leftover', h)
    BY <2>2 DEF IInv, Frames, FromHost, AnswerMayCome
  <2>4. out # None => FromUs(out, leftover', h)
    BY DEF IInv, Frames, FromUs, AnswerMayCome
  <2> QED BY <2>1, <2>2, <2>3, <2>4 DEF Frames, card
<1>3. CacheSound' /\ CountedWasAnswered' /\ Statistics'
  BY SizesAre DEF IInv, CacheSound, CountedWasAnswered, Statistics
<1> QED BY <1>1, <1>2, <1>3, SizesAre DEF IInv, TypeOK, Seqs

LEMMA AskKeeps == ASSUME IInv, AskArp PROVE IInv'
<1> USE DEF AskArp, hosts
<1>1. FromUs([kind |-> "arp", ip |-> ip, to |-> dst, mac |-> "all", seq |-> 0], leftover, dst)
  BY SizesAre DEF FromUs, Frame, Kinds, Seqs, IInv, TypeOK
<1>2. Frames'
  BY <1>1 DEF IInv, Frames, Send
<1> QED BY <1>2, SizesAre DEF IInv, TypeOK, Statistics, CacheSound, CountedWasAnswered

LEMMA SendEchoKeeps == ASSUME IInv, SendEcho PROVE IInv'
<1> USE DEF SendEcho, hosts
<1>1. Find(arp, dst) \in Host
  <2> DEFINE K == Known(arp, dst)
             x == CHOOSE e \in K : \A d \in K : e <= d
  <2>1. K # {} /\ Find(arp, dst) = arp[x].mac
    BY DEF Find
  <2> HIDE DEF x
  <2>2. K \in SUBSET Nat
    BY SizesAre DEF Known, Entries
  <2> HIDE DEF K
  <2>3. \E e \in K : \A d \in K : e <= d
    BY <2>1, <2>2, LeastOf
  <2>4. x \in K
    BY <2>3 DEF x
  <2>5. x \in Entries /\ arp[x] # None
    BY <2>4 DEF K, Known
  <2>6. arp[x] \in [ip : Host, mac : Host]
    BY <2>5 DEF IInv, TypeOK, Entry
  <2> QED BY <2>1, <2>6
<1>2. FromUs([kind |-> "echo", ip |-> ip, to |-> dst, mac |-> Find(arp, dst), seq |-> seq],
              leftover, dst)
  BY <1>1 DEF FromUs, Frame, Kinds, IInv, TypeOK
<1>3. Frames'
  BY <1>2 DEF IInv, Frames, Send
<1>4. Statistics'
  BY SizesAre DEF IInv, TypeOK, Statistics, Seqs
<1>5. CacheSound' /\ CountedWasAnswered'
  BY DEF IInv, CacheSound, CountedWasAnswered
<1>6. sent' \in Nat
  BY DEF IInv, TypeOK
<1> QED BY <1>3, <1>4, <1>5, <1>6 DEF IInv, TypeOK

LEMMA PollEchoKeeps == ASSUME IInv, PollEcho PROVE IInv'
<1> USE DEF PollEcho, hosts
<1>1. arp' \in [Entries -> Entry] /\ CacheSound' /\ Frames'
  BY PollKeeps
<1>2. CASE IsReply(Received)
  <2>1. FromHost(Received, answered, leftover, dst) /\ Received.kind = "echoReply" /\ Received.seq = seq
    BY <1>2, ReceivedIs DEF IsReply
  <2>2. Received.ip \in Host /\ (~leftover => Received.ip = dst /\ <<Received.ip, seq>> \in answered)
    BY <2>1 DEF FromHost
  <2>3. /\ counted' = counted \cup {<<Received.ip, seq>>} /\ got' = got + 1 /\ pc' = "pause" /\ at' = "start"
        /\ UNCHANGED <<hosts, ip, dst, seq, left, sent, leftover>>
    BY <1>2
  <2>4. CountedWasAnswered'
    BY <2>2, <2>3 DEF IInv, CountedWasAnswered
  <2>5. Statistics'
    BY <2>3 DEF IInv, TypeOK, Statistics, Seqs
  <2>6. counted' \subseteq Host \X Seqs /\ got' \in Nat
    BY <2>2, <2>3 DEF IInv, TypeOK
  <2> QED BY <1>1, <2>3, <2>4, <2>5, <2>6 DEF IInv, TypeOK
<1>3. CASE ~IsReply(Received)
  BY <1>1, <1>3 DEF IInv, TypeOK, Statistics, CountedWasAnswered
<1> QED BY <1>2, <1>3

LEMMA ExpireKeeps == ASSUME IInv, Expire PROVE IInv'
<1> USE DEF Expire
<1>1. Frames' /\ CacheSound' /\ CountedWasAnswered'
  BY RestKeeps
<1>2. /\ seq' \in Seqs /\ pc' \in {"idle", "lookup", "arp", "echo", "pause"}
      /\ pc' \in {"lookup", "pause", "idle"} /\ (pc' = "lookup" => seq' = seq + 1)
      /\ (pc' = "pause" => pc = "echo" /\ seq' = seq)
  BY SizesAre DEF NextSeq, Seqs, IInv, TypeOK
<1>3. Statistics'
  <2>1. pc \in {"arp", "pause", "echo"} /\ UNCHANGED <<got, sent>>
    OBVIOUS
  <2>2. got <= sent /\ sent <= Count /\ sent <= seq + 1
    BY <2>1 DEF IInv, TypeOK, Statistics, Seqs
  <2> QED BY <1>2, <2>1, <2>2 DEF Statistics
<1> QED BY <1>1, <1>2, <1>3 DEF IInv, TypeOK, hosts

LEMMA NextKeeps == IInv /\ [Next]_vars => IInv'
<1> SUFFICES ASSUME IInv, [Next]_vars PROVE IInv'
  OBVIOUS
<1>1. CASE Transmit
  BY <1>1, TransmitKeeps
<1>2. ASSUME NEW h \in Host, HostSends(h) PROVE IInv'
  BY <1>2, HostSendsKeeps
<1>3. ASSUME NEW f \in air, Deliver(f) PROVE IInv'
  BY <1>3, DeliverKeeps
<1>4. ASSUME NEW f \in air, Lose(f) PROVE IInv'
  BY <1>4, LoseKeeps
<1>5. ASSUME NEW h \in Host, Start(h) PROVE IInv'
  BY <1>5, StartKeeps
<1>6. CASE AskArp
  BY <1>6, AskKeeps
<1>7. CASE SendEcho
  BY <1>7, SendEchoKeeps
<1>8. CASE SetDeadline
  <2>1. Frames' /\ CacheSound' /\ CountedWasAnswered'
    BY <1>8, RestKeeps DEF SetDeadline
  <2> QED BY <1>8, <2>1, SizesAre DEF SetDeadline, IInv, TypeOK, Statistics, hosts
<1>9. CASE Expire
  BY <1>9, ExpireKeeps
<1>10. CASE PollArp
  <2>1. arp' \in [Entries -> Entry] /\ CacheSound' /\ Frames'
    BY <1>10, PollKeeps DEF PollArp
  <2> QED BY <1>10, <2>1 DEF PollArp, IInv, TypeOK, Statistics, CountedWasAnswered, hosts
<1>11. CASE PollEcho
  BY <1>11, PollEchoKeeps
<1>12. CASE PollPause
  <2>1. arp' \in [Entries -> Entry] /\ CacheSound' /\ Frames'
    BY <1>12, PollKeeps DEF PollPause
  <2> QED BY <1>12, <2>1 DEF PollPause, IInv, TypeOK, Statistics, CountedWasAnswered, hosts
<1>13. CASE Tick
  <2>1. Frames' /\ CacheSound' /\ CountedWasAnswered'
    BY <1>13, RestKeeps DEF Tick
  <2> QED BY <1>13, <2>1 DEF Tick, IInv, TypeOK, Statistics, hosts
<1>14. CASE Wake
  <2>1. Frames' /\ CacheSound' /\ CountedWasAnswered'
    BY <1>14, RestKeeps DEF Wake
  <2> QED BY <1>14, <2>1 DEF Wake, IInv, TypeOK, Statistics, hosts
<1>15. CASE NetCfg
  <2>1. Frames' /\ CacheSound' /\ CountedWasAnswered'
    BY <1>15, RestKeeps DEF NetCfg, ping
  <2> QED BY <1>15, <2>1 DEF NetCfg, IInv, TypeOK, Statistics, hosts, ping
<1>16. CASE UNCHANGED vars
  <2>1. Frames' /\ CacheSound' /\ CountedWasAnswered'
    BY <1>16, RestKeeps DEF vars, ping
  <2> QED BY <1>16, <2>1 DEF vars, IInv, TypeOK, Statistics, hosts, ping
<1> QED BY <1>1, <1>2, <1>3, <1>4, <1>5, <1>6, <1>7, <1>8, <1>9, <1>10, <1>11, <1>12, <1>13,
           <1>14, <1>15, <1>16 DEF Next, Main, World

LEMMA SpecIInv == Spec => []IInv
BY InitIInv, NextKeeps, PTL DEF Spec

\* The cache holds at most one entry for a host, with that host's card, for every number
\* of hosts and entries, whatever entry had to go.
THEOREM CacheIsSound == Spec => []CacheSound
BY SpecIInv, PTL DEF IInv

\* What ping counts for its request i is the answer the host it pings has given to request
\* i of this ping, however late, repeated or out of order the answers come - if no answer
\* to an earlier ping could still come when it began.
THEOREM CountIsTrue == Spec => []CountedWasAnswered
BY SpecIInv, PTL DEF IInv

\* The statistics ping prints: no more answers than requests, and no more requests than
\* it was to send.
THEOREM StatisticsAdd == Spec => [](got <= sent /\ sent <= Count)
<1>1. IInv => got <= sent /\ sent <= Count
  BY DEF IInv, Statistics
<1> QED BY <1>1, SpecIInv, PTL
=============================================================================

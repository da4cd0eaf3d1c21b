-------------------------------- MODULE Net --------------------------------
(***************************************************************************)
(* The network stack (net.c) over the card: an ARP cache, answers to ARP   *)
(* and to echo requests, and the ping command, which is the only code that *)
(* ever reads a frame.  A network that loses, delays, repeats and reorders *)
(* frames stands between the card and the other hosts.                     *)
(*                                                                         *)
(* A frame has the fields the stack looks at.  The address of a host's     *)
(* card is the host; the addresses of our machine are those netcfg sets.   *)
(* What is no ARP and no echo, or came damaged, is read and dropped: a     *)
(* poll that finds nothing.  Receiving is the queue of FrameQueue, which   *)
(* E1000 implements; of sending the stack only knows that the frame in the *)
(* one transmit buffer leaves some time, or is written over.               *)
(***************************************************************************)
EXTENDS Integers, Sequences, FiniteSets

CONSTANTS
  Host, Us,   \* addresses of the other hosts, and of this machine
  None,
  RX_N,       \* frames the card holds for us
  ARP_N,      \* entries of arp_tab
  Count,      \* echo requests in a ping
  Wait,       \* ticks of the waits for an answer (100 in the code)
  Pause,      \* ticks between two requests (20)
  MaxPings,   \* bound: how many pings are run
  MaxAir      \* bound: frames on their way to us

Kinds == {"arp", "arpReply", "echo", "echoReply"}
Seqs  == 0 .. Count - 1

\* ip: who sends it; to: the address it is for; mac: the card it comes from or goes to.
Frame == [kind : Kinds, ip : Host \cup Us, to : Host \cup Us, mac : Host \cup {"all"}, seq : Seqs]

NoMac == "none"

ASSUME NetAssumption ==
  /\ Host \cap Us = {} /\ Us # {} /\ {"all", NoMac} \cap (Host \cup Us) = {} /\ None \notin Frame
  /\ {RX_N, ARP_N, Count, Wait, Pause} \subseteq Nat \ {0} /\ {MaxPings, MaxAir} \subseteq Nat

VARIABLES
  queue,        \* the frames the card has received
  out,          \* the frame e1000_send has given to the card, None once sent
  air,          \* the frames on their way to us
  ip,           \* net_ip
  arp,          \* arp_tab: entries in use have an address
  pc,           \* the loop of ping_cmd: "idle", "lookup", "arp", "echo", "pause"
  at,           \* in a loop: before it, at its head or in hlt, or at the poll
  dst, seq,     \* the host pinged, i
  left,         \* ticks to the deadline of the loop
  sent, got,
  pings,
  counted,      \* what this ping has counted: who sent the answer, and its seq
  answered,     \* hosts that have replied to an echo since this ping began, with its seq
  leftover      \* when it began an answer to an earlier ping could still come

card == <<queue, out>>
ping == <<pc, at, dst, seq, left, sent, got, pings, counted, leftover>>
hosts == <<air, answered>>
vars == <<card, hosts, ip, arp, ping>>

Card == INSTANCE FrameQueue WITH Capacity <- RX_N

Entry == [ip : Host, mac : Host] \cup {None}
Entries == 1 .. ARP_N
---------------------------------------------------------------------------
(* The ARP cache. *)

\* arp_find.
Known(table, h) == {e \in Entries : table[e] # None /\ table[e].ip = h}
Find(table, h) == IF Known(table, h) = {} THEN NoMac
                  ELSE table[CHOOSE e \in Known(table, h) : \A d \in Known(table, h) : e <= d].mac

\* The entry arp_learn writes: the one of the host, or the first that is free, or the first.
EntryFor(table, h) ==
  LET free == {e \in Entries : table[e] = None}
      use  == IF Known(table, h) # {} THEN Known(table, h) ELSE IF free # {} THEN free ELSE {1}
  IN CHOOSE e \in use : \A d \in use : e <= d

\* Mutant: a full cache gives the host the card of another.
LearnKeepsIp(h, mac) ==
  arp' = [arp EXCEPT ![EntryFor(arp, h)] = IF @ # None THEN [@ EXCEPT !.mac = mac] ELSE [ip |-> h, mac |-> mac]]

Learn(h, mac) == arp' = [arp EXCEPT ![EntryFor(arp, h)] = [ip |-> h, mac |-> mac]]
---------------------------------------------------------------------------
(* The other hosts and the network. *)

Reply(kind, f) == [kind |-> kind, ip |-> f.to, to |-> f.ip, mac |-> f.to, seq |-> f.seq]

\* The card sends: the host it is for answers, or the frame is lost on the way there
\* or back.  An ARP request goes to all, an echo to one card.
Reaches(f) == f.kind = "arp" \/ (f.kind = "echo" /\ f.mac = f.to)
Transmit ==
  /\ out # None /\ out' = None
  /\ \/ UNCHANGED hosts
     \/ /\ Reaches(out) /\ Cardinality(air) < MaxAir
        /\ air' = air \cup {Reply(IF out.kind = "arp" THEN "arpReply" ELSE "echoReply", out)}
        /\ answered' = answered \cup IF out.kind = "echo" THEN {<<out.to, out.seq>>} ELSE {}
  /\ UNCHANGED <<queue, ip, arp, ping>>

\* A host asks us.
HostSends(h) ==
  /\ Cardinality(air) < MaxAir
  /\ \E k \in {"arp", "echo"} :
       air' = air \cup {[kind |-> k, ip |-> h, to |-> ip, mac |-> h, seq |-> 0]}
  /\ UNCHANGED <<card, answered, ip, arp, ping>>

\* A frame reaches the card, and may reach it again.
Deliver(f) ==
  /\ f \in air /\ (air' = air \/ air' = air \ {f})
  /\ Card!Arrive(f)
  /\ UNCHANGED <<out, answered, ip, arp, ping>>

Lose(f) == f \in air /\ air' = air \ {f} /\ UNCHANGED <<card, answered, ip, arp, ping>>
---------------------------------------------------------------------------
(* net_poll_one: one frame is read, learned from and answered. *)

Quiet == UNCHANGED out
Send(f) == out' = f

Handle(f) ==
  \/ /\ f.kind = "arp" /\ Learn(f.ip, f.mac)
     /\ IF f.to = ip THEN Send([Reply("arpReply", f) EXCEPT !.mac = f.mac]) ELSE Quiet
  \/ f.kind = "arpReply" /\ Learn(f.ip, f.mac) /\ Quiet
  \/ f.kind \in {"echo", "echoReply"} /\ f.to # ip /\ UNCHANGED arp /\ Quiet
  \/ /\ f.kind = "echo" /\ f.to = ip /\ Learn(f.ip, f.mac)
     /\ Send([Reply("echoReply", f) EXCEPT !.mac = f.mac])
  \/ f.kind = "echoReply" /\ f.to = ip /\ Learn(f.ip, f.mac) /\ Quiet

Received == IF queue = <<>> THEN None ELSE Head(queue)
PollOne ==
  IF Received = None THEN UNCHANGED <<queue, arp>> /\ Quiet ELSE Card!Read /\ Handle(Received)

\* Mutant: the number of the reply is not looked at.
IsAnyReply(f) == f # None /\ f.kind = "echoReply" /\ f.to = ip

\* net_poll_one returned 3 with our number.  The id is the same for every ping, and who
\* sent the answer is not looked at.
IsReply(f) == f # None /\ f.kind = "echoReply" /\ f.to = ip /\ f.seq = seq
---------------------------------------------------------------------------
(* ping_cmd. *)

\* The next request, or the end.
NextSeq ==
  IF seq + 1 < Count THEN pc' = "lookup" /\ seq' = seq + 1 ELSE pc' = "idle" /\ seq' = 0

\* A request has not left yet, or its answer is on its way or not read.
AnswerMayCome ==
  \/ out # None /\ out.kind = "echo"
  \/ \E f \in air : f.kind = "echoReply"
  \/ \E k \in DOMAIN queue : queue[k].kind = "echoReply"

Start(h) ==
  /\ pc = "idle" /\ pings < MaxPings
  /\ pc' = "lookup" /\ dst' = h /\ seq' = 0 /\ sent' = 0 /\ got' = 0 /\ counted' = {}
  /\ pings' = pings + 1 /\ answered' = {} /\ leftover' = AnswerMayCome
  /\ UNCHANGED <<card, air, ip, arp, at, left>>

\* The deadline for ARP is set before the request is sent, the others after.
AskArp ==
  /\ pc = "lookup" /\ Find(arp, dst) = NoMac
  /\ Send([kind |-> "arp", ip |-> ip, to |-> dst, mac |-> "all", seq |-> 0])
  /\ pc' = "arp" /\ at' = "head" /\ left' = Wait
  /\ UNCHANGED <<queue, hosts, ip, arp, dst, seq, sent, got, pings, counted, leftover>>

SendEcho ==
  /\ pc = "lookup" /\ Find(arp, dst) # NoMac
  /\ Send([kind |-> "echo", ip |-> ip, to |-> dst, mac |-> Find(arp, dst), seq |-> seq])
  /\ pc' = "echo" /\ at' = "start" /\ sent' = sent + 1
  /\ UNCHANGED <<queue, hosts, ip, arp, dst, seq, left, got, pings, counted, leftover>>

SetDeadline ==
  /\ pc \in {"echo", "pause"} /\ at = "start"
  /\ left' = (IF pc = "echo" THEN Wait ELSE Pause) /\ at' = "head"
  /\ UNCHANGED <<card, hosts, ip, arp, pc, dst, seq, sent, got, pings, counted, leftover>>

\* "sem resposta ARP" goes on without a pause, "timeout" with one.
Expire ==
  /\ at = "head" /\ left = 0 /\ at' = "start"
  /\ \/ pc \in {"arp", "pause"} /\ NextSeq
     \/ pc = "echo" /\ pc' = "pause" /\ UNCHANGED seq
  /\ UNCHANGED <<card, hosts, ip, arp, dst, left, sent, got, pings, counted, leftover>>

PollArp ==
  /\ pc = "arp" /\ at = "poll" /\ PollOne
  /\ IF Find(arp', dst) # NoMac THEN pc' = "lookup" ELSE pc' = "arp"
  /\ at' = "head"
  /\ UNCHANGED <<hosts, ip, dst, seq, left, sent, got, pings, counted, leftover>>

\* Mutant: each frame that is not the reply starts the wait anew.
PollEchoWaitsAnew ==
  /\ pc = "echo" /\ at = "poll" /\ PollOne
  /\ IF IsReply(Received)
     THEN pc' = "pause" /\ at' = "start" /\ got' = got + 1 /\ counted' = counted \cup {<<Received.ip, seq>>} /\ UNCHANGED left
     ELSE at' = "head" /\ left' = (IF Received = None THEN left ELSE Wait) /\ UNCHANGED <<pc, got, counted>>
  /\ UNCHANGED <<hosts, ip, dst, seq, sent, pings, leftover>>

PollEcho ==
  /\ pc = "echo" /\ at = "poll" /\ PollOne
  /\ IF IsReply(Received)
     THEN pc' = "pause" /\ at' = "start" /\ got' = got + 1 /\ counted' = counted \cup {<<Received.ip, seq>>}
     ELSE at' = "head" /\ UNCHANGED <<pc, got, counted>>
  /\ UNCHANGED <<hosts, ip, dst, seq, left, sent, pings, leftover>>

PollPause ==
  /\ pc = "pause" /\ at = "poll" /\ PollOne /\ at' = "head"
  /\ UNCHANGED <<hosts, ip, pc, dst, seq, left, sent, got, pings, counted, leftover>>

\* The timer interrupt; hlt also ends with any other.
Tick ==
  /\ pc # "idle"
  /\ left' = IF left = 0 THEN 0 ELSE left - 1
  /\ \/ UNCHANGED at
     \/ at = "head" /\ left > 0 /\ at' = "poll"
  /\ UNCHANGED <<card, hosts, ip, arp, pc, dst, seq, sent, got, pings, counted, leftover>>

Wake ==
  /\ at = "head" /\ left > 0 /\ at' = "poll"
  /\ UNCHANGED <<card, hosts, ip, arp, pc, dst, seq, left, sent, got, pings, counted, leftover>>

\* netcfg_cmd, with an address that parses.
NetCfg ==
  /\ pc = "idle" /\ \E a \in Us : ip' = a
  /\ UNCHANGED <<card, hosts, arp, ping>>

Init ==
  /\ Card!Init /\ out = None
  /\ air = {} /\ answered = {} /\ ip \in Us
  /\ arp = [e \in Entries |-> None]
  /\ pc = "idle" /\ at = "start" /\ dst \in Host /\ seq = 0 /\ left = 0
  /\ sent = 0 /\ got = 0 /\ pings = 0 /\ counted = {} /\ leftover = FALSE

Main == \/ AskArp \/ SendEcho \/ SetDeadline \/ Expire
        \/ PollArp \/ PollEcho \/ PollPause

World == Transmit \/ (\E h \in Host : HostSends(h)) \/ (\E f \in air : Deliver(f) \/ Lose(f))

Next == Main \/ Tick \/ Wake \/ NetCfg \/ World \/ \E h \in Host : Start(h)

Spec == Init /\ [][Next]_vars

\* The processor goes on and the timer ticks; nothing is asked of card and network.
FairSpec == Spec /\ WF_vars(Main) /\ WF_vars(Tick)
---------------------------------------------------------------------------
\* The ARP cache has at most one entry for an address, and it is that of the host's
\* card, whatever entry had to go for it.
CacheSound ==
  \A e \in Entries : arp[e] # None =>
    arp[e].mac = arp[e].ip /\ \A d \in Entries \ {e} : arp[d] # None => arp[d].ip # arp[e].ip

\* What ping counts for its request i is the answer the host it pings has given to
\* request i of this ping, never a late or repeated answer to another one - if no answer
\* to an earlier ping could still come when it began.
CountedWasAnswered ==
  ~leftover => counted \subseteq answered /\ \A c \in counted : c[1] = dst

\* "resposta de", and the host it was told to ping, is what ping writes for each answer
\* it counts (net.c:349).  Does not hold: no one looks at the sender (net.c:347).
AnswersAreFromDst == \A c \in counted : c[1] = dst

\* ping comes to an end whatever is lost, and however many frames arrive.
PingEnds == pc # "idle" ~> pc = "idle"
=============================================================================

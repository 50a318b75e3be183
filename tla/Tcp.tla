--------------------------------- MODULE Tcp ---------------------------------
(***************************************************************************)
(* A TCP connection made by connect: modules/net/source/socket.c, from the *)
(* side of the kernel, with a peer and a network outside it.               *)
(*                                                                         *)
(* The network may lose, repeat and reorder packets: `sent' holds every    *)
(* packet the kernel has sent, each of which the peer may receive any      *)
(* number of times or never; the peer's data may arrive in any segments,   *)
(* in any order, any number of times.  The peer is a correct TCP: it takes *)
(* data in order, acknowledges what it has, and repeats what is not        *)
(* acknowledged.                                                           *)
(*                                                                         *)
(* tcp_socket_handler runs in the network interrupt, one packet at a time, *)
(* beside the threads in send and receive: nothing but the order of its    *)
(* stores protects the queue of buffers it hands to the reader.  Two       *)
(* threads exclude each other by the listener's lock, held for a whole     *)
(* send or receive.                                                        *)
(*                                                                         *)
(* The model stops at the first situation the code has no answer to, and   *)
(* `hazard' names it.                                                      *)
(***************************************************************************)
EXTENDS Integers, Sequences, SequencesExt

CONSTANTS
  W,             \* sequence numbers are modulo W (2^32 in the code)
  ISNs,          \* initial sequence numbers of the peer
  Bytes,         \* how many bytes the peer sends; byte i of its data is the number i
  MaxSegment,    \* the longest segment of the peer
  Window,        \* th_win of its segments
  SendSizes,     \* sizes given to send
  ReceiveSizes,  \* sizes given to receive
  Threads, NULL,
  MaxCalls       \* sends, receives and closes

VARIABLES
  isn,      \* the peer's initial sequence number
  tcp,      \* is_connect, and the listener's flags, sequence numbers and lock
  asm,      \* the listener's buffer_read and its sizes and offsets
  queue,    \* the tcp_listener_buffer_t objects, in the order of their links; the last one
            \* is last_allocated
  last_read,  \* the index of listener->last_read in the queue, 0: the first, dummy one
  irq,      \* the interrupt handler: where it is in tcp_send_buffer and what it hands over,
            \* and whether the packet has TH_FIN
  th,       \* per thread: where it is, and the size of its call
  sent,     \* packets the kernel has sent
  peer,     \* what the peer has taken (its payloads in order and the next number it
            \* expects) and the acknowledgements it has given
  pushed,   \* the bytes handed to the queue
  taken,    \* the bytes handed to the callers of receive
  acked,    \* the payloads whose send returned 0
  calls, hazard

vars == <<isn, tcp, asm, queue, last_read, irq, th, sent, peer, pushed, taken, acked, calls,
          hazard>>

\* The sequence number of byte i of the peer's data.
Number(i) == (isn + i) % W

Segments == {s \in (1..Bytes) \X (1..MaxSegment) : s[1] + s[2] <= Bytes + 1}

EmptyBuffer == [size |-> 0, buffer |-> <<>>, next |-> FALSE]
IdleIrq == [at |-> "none", buffer |-> <<>>, fin |-> FALSE]

Init ==
  /\ isn \in ISNs
  /\ tcp = [is_connect |-> FALSE, is_accept |-> FALSE, is_reset |-> FALSE, is_fin |-> FALSE,
            sequence_send |-> 0, sequence_receive |-> 0, sequence_waiting_for_ack |-> 0,
            lock |-> NULL]
  /\ asm = [buffer |-> <<>>, read |-> 0, start |-> 0, smallest |-> 0, continuous |-> 0]
  /\ queue = <<EmptyBuffer>> /\ last_read = 0
  /\ irq = IdleIrq
  /\ th = [t \in Threads |-> [at |-> "user", size |-> 0, left |-> 0]]
  /\ sent = {}
  /\ peer = [syn |-> FALSE, next |-> 0, got |-> <<>>, acks |-> {}]
  /\ pushed = <<>> /\ taken = <<>> /\ acked = <<>>
  /\ calls = 0 /\ hazard = "none"

Bad(h, name) == hazard' = IF h THEN name ELSE hazard

-----------------------------------------------------------------------------
(* Reassembly, the data part of tcp_socket_handler, as a function of the   *)
(* assembly record and sequence_receive.  buffer_read_size_allocated is    *)
(* the length of the buffer; 0 is a byte of it nobody has written.         *)

\* awaiting_data_to_read == 0: a buffer from sequence_receive up to the segment's end.
Fresh(a, receive, seq, n) ==
  [a EXCEPT !.buffer = [k \in 1..(seq + n - receive) |-> 0], !.read = 0,
            !.start = receive, !.smallest = seq]

Allocate(a, receive, seq, n) ==
  IF a.read = Len(a.buffer) /\ seq + n - receive \in 0..Window
    THEN Fresh(a, receive, seq, n) ELSE a

\* ignore_data after line 108: the subtraction is unsigned, so an old segment is out of it.
OutOfWindow(a, receive, seq, n) ==
  a.read = Len(a.buffer) /\ seq + n - receive \notin 0..Window

Grow(a, end) ==
  IF end > Len(a.buffer) /\ end <= Window
    THEN [a EXCEPT !.buffer = @ \o [k \in 1..(end - Len(@)) |-> 0]] ELSE a

\* Lines 125 to 132.
Smallest(a, seq, n) ==
  IF a.smallest > seq
    THEN [a EXCEPT !.smallest = seq,
                   !.continuous = IF a.smallest = seq + n THEN @ + n ELSE n]
    ELSE a

Write(a, offset, i, n) ==
  [a EXCEPT !.read = @ + n,
            !.buffer = [k \in 1..Len(@) |->
                          IF k \in (offset + 1)..(offset + n) THEN i + k - offset - 1 ELSE @[k]]]

\* What the handler makes of segment <<i, n>>: the assembly, sequence_receive, the bytes
\* it hands over if it hands any over, and what is wrong with it: bytes already in the
\* buffer are counted again, or a segment it ignores enlarges a buffer it has handed over
\* or not begun.
Nothing(a, receive, bad) ==
  [asm |-> a, receive |-> receive, hand |-> FALSE, out |-> <<>>, bad |-> bad]

Hand_Mutant(a, receive, next, bad) ==   \* all of the buffer is acknowledged
  IF a.read = Len(a.buffer)
    THEN [asm |-> a, receive |-> (a.start + Len(a.buffer)) % W, hand |-> TRUE,
          out |-> a.buffer, bad |-> bad]
  ELSE IF a.smallest = a.start
    THEN [asm |-> [a EXCEPT !.buffer = SubSeq(@, a.continuous + 1, Len(@)),
                            !.read = @ - a.continuous,
                            !.start = (@ + a.continuous) % W, !.continuous = 0,
                            !.smallest = (a.start + Len(a.buffer)) % W],
          receive |-> (a.start + Len(a.buffer)) % W, hand |-> TRUE, out |-> SubSeq(a.buffer, 1, a.continuous),
          bad |-> bad]
    ELSE Nothing(a, receive, bad)
Hand(a, receive, next, bad) ==
  IF a.read = Len(a.buffer)
    THEN [asm |-> a, receive |-> (a.start + Len(a.buffer)) % W, hand |-> TRUE,
          out |-> a.buffer, bad |-> bad]
  ELSE IF a.smallest = a.start
    THEN [asm |-> [a EXCEPT !.buffer = SubSeq(@, a.continuous + 1, Len(@)),
                            !.read = @ - a.continuous,
                            !.start = (@ + a.continuous) % W, !.continuous = 0,
                            !.smallest = (a.start + Len(a.buffer)) % W],
          receive |-> next % W, hand |-> TRUE, out |-> SubSeq(a.buffer, 1, a.continuous),
          bad |-> bad]
    ELSE Nothing(a, receive, bad)

Put(a, receive, offset, seq, i, n) ==
  Hand(Write(Smallest(a, seq, n), offset, i, n), receive, seq + n,
       IF \E k \in (offset + 1)..(offset + n) : a.buffer[k] # 0 THEN "again" ELSE "none")

Placed(a, receive, end, seq, i, n, ignore) ==
  IF seq < a.start THEN Nothing(a, receive, "none")
  ELSE IF ignore \/ (end > Window /\ end > Len(a.buffer))
    THEN Nothing(Grow(a, end), receive, IF Grow(a, end) # a THEN "stray" ELSE "none")
  ELSE Put(Grow(a, end), receive, seq - a.start, seq, i, n)

PlaceIn(a, receive, i, n, ignore) ==
  Placed(a, receive, Number(i) - a.start + n, Number(i), i, n, ignore)

Assemble(a, receive, i, n) ==
  PlaceIn(Allocate(a, receive, Number(i), n), receive, i, n, OutOfWindow(a, receive, Number(i), n))

-----------------------------------------------------------------------------
(* The peer, and tcp_socket_handler.                                       *)

\* The peer takes a packet of the kernel: the SYN, or data in order.  It has no use for a
\* FIN without TH_ACK.
PeerTake ==
  /\ hazard = "none"
  /\ \E p \in sent :
       \/ /\ p.kind = "syn" /\ ~peer.syn
          /\ peer' = [peer EXCEPT !.syn = TRUE, !.next = 1, !.acks = {1}]
       \/ /\ p.kind = "data" /\ p.seq = peer.next
          /\ peer' = [peer EXCEPT !.next = (@ + p.size) % W, !.got = Append(@, p.id),
                                  !.acks = @ \cup {(peer.next + p.size) % W}]
  /\ UNCHANGED <<isn, tcp, asm, queue, last_read, irq, th, sent, pushed, taken, acked, calls,
                 hazard>>

\* Its packets: SYN and RST in answer to the SYN; once the connection stands, any segment,
\* the last with or without FIN, a FIN or nothing but an acknowledgement.
Packet == [syn |-> FALSE, rst |-> FALSE, i |-> 1, n |-> 0, fin |-> FALSE, ack |-> 0]

PeerPackets ==
  {[Packet EXCEPT !.syn = TRUE, !.ack = 1]}
    \cup {[Packet EXCEPT !.rst = TRUE, !.ack = a] : a \in peer.acks}
    \cup (IF ~tcp.is_accept THEN {} ELSE
            {[Packet EXCEPT !.ack = a, !.fin = f] : a \in peer.acks, f \in BOOLEAN}
            \cup {[Packet EXCEPT !.i = s[1], !.n = s[2], !.ack = a, !.fin = f] :
                    s \in Segments, a \in peer.acks, f \in BOOLEAN})

InCall(at) == {t \in Threads : th[t].at = at}

\* The acknowledgement that covers the data being sent.
Covers(a) == \A t \in InCall("send") : a = (tcp.sequence_send + th[t].size) % W

First(bads) == SelectSeq(bads, LAMBDA b : b # "none")
Flag(h, name) == IF h THEN name ELSE "none"
Halt(bads) == hazard' = IF First(bads) = <<>> THEN "none" ELSE First(bads)[1]

\* Any TH_ACK ends the wait for one (line 75); TH_RST, TH_SYN, then the data r makes.
Handle(p, r) ==
  /\ tcp' = [tcp EXCEPT !.sequence_waiting_for_ack = 0,
                        !.is_reset = @ \/ p.rst,
                        !.is_accept = @ \/ p.syn,
                        !.sequence_send = IF p.syn THEN (@ + 1) % W ELSE @,
                        !.sequence_receive = IF p.syn THEN Number(1) ELSE r.receive]
  /\ asm' = r.asm
  /\ irq' = IF r.hand THEN [at |-> "next", buffer |-> r.out, fin |-> p.fin]
            ELSE [IdleIrq EXCEPT !.at = IF p.fin THEN "fin" ELSE "none"]
  /\ Halt(<<Flag(tcp.sequence_waiting_for_ack # 0 /\ ~Covers(p.ack), "acked"),
            Flag(p.syn /\ tcp.is_accept, "resync"),
            r.bad>>)

tcp_socket_handler ==
  /\ hazard = "none" /\ irq.at = "none" /\ peer.syn
  /\ \E p \in PeerPackets :
       /\ p.fin => p.n = 0 \/ p.i + p.n = Bytes + 1
       /\ Handle(p, IF p.n = 0 THEN Nothing(asm, tcp.sequence_receive, "none")
                    ELSE Assemble(asm, tcp.sequence_receive, p.i, p.n))
  /\ UNCHANGED <<isn, queue, last_read, th, sent, peer, pushed, taken, acked, calls>>

\* tcp_send_buffer, store by store, on last_allocated.
SendBuffer(at, then) ==
  /\ hazard = "none" /\ irq.at = at
  /\ irq' = [irq EXCEPT !.at = then]
  /\ UNCHANGED <<isn, tcp, asm, last_read, th, sent, peer, taken, acked, calls, hazard>>

SendBufferNext_Mutant ==   \* the size is stored first
  /\ SendBuffer("next", "buffer")
  /\ queue' = Append([queue EXCEPT ![Len(queue)].next = TRUE,
                                         ![Len(queue)].size = Len(irq.buffer)], EmptyBuffer)
  /\ UNCHANGED pushed
SendBufferNext ==
  /\ SendBuffer("next", "buffer")
  /\ queue' = Append([queue EXCEPT ![Len(queue)].next = TRUE], EmptyBuffer)
  /\ UNCHANGED pushed

SendBufferData ==
  /\ SendBuffer("buffer", "size")
  /\ queue' = [queue EXCEPT ![Len(queue) - 1].buffer = irq.buffer]
  /\ UNCHANGED pushed

SendBufferSize ==
  /\ SendBuffer("size", IF irq.fin THEN "fin" ELSE "none")
  /\ queue' = [queue EXCEPT ![Len(queue) - 1].size = Len(irq.buffer)]
  /\ pushed' = pushed \o irq.buffer

\* TH_FIN, after the packet's data.  A FIN whose turn it is not is counted as well, and so is
\* one on the sending side.
HandleFin ==
  /\ hazard = "none" /\ irq.at = "fin"
  /\ tcp' = [tcp EXCEPT !.is_fin = TRUE, !.sequence_receive = (@ + 1) % W,
                        !.sequence_send = (@ + 1) % W]
  /\ irq' = IdleIrq
  /\ Halt(<<Flag(tcp.is_fin \/ tcp.sequence_receive # Number(Bytes + 1), "fin"),
            Flag(InCall("send") # {}, "skew")>>)
  /\ UNCHANGED <<isn, asm, queue, last_read, th, sent, peer, pushed, taken, acked, calls>>

-----------------------------------------------------------------------------
(* connect, send, receive and close.                                       *)

Frame == UNCHANGED <<isn, asm, irq, peer, pushed>>

At(t, at) == hazard = "none" /\ th[t].at = at
Goto(t, at) == th' = [th EXCEPT ![t].at = at]

\* A call on the connection: it takes the listener's lock.
Call(t, at, n) ==
  /\ At(t, "user") /\ tcp.is_connect /\ tcp.lock = NULL
  /\ calls < MaxCalls /\ calls' = calls + 1
  /\ th' = [th EXCEPT ![t] = [at |-> at, size |-> n, left |-> n]]

Return(t, c) == tcp' = [c EXCEPT !.lock = NULL] /\ Goto(t, "user")

Connect(t) ==
  /\ At(t, "user") /\ sent = {}
  /\ tcp' = [tcp EXCEPT !.lock = t]
  /\ sent' = {[kind |-> "syn", seq |-> tcp.sequence_send, size |-> 0, id |-> 0]}
  /\ Goto(t, "connect")
  /\ UNCHANGED <<queue, last_read, taken, acked, calls, hazard>> /\ Frame

\* is_accept; ECONNREFUSED; or ETIMEDOUT after the SYN was sent ten times.
ConnectReturn(t) ==
  /\ At(t, "connect")
  /\ \/ tcp.is_accept /\ Return(t, [tcp EXCEPT !.is_connect = TRUE])
     \/ ~tcp.is_accept /\ Return(t, tcp)
  /\ UNCHANGED <<queue, last_read, sent, taken, acked, calls, hazard>> /\ Frame

\* The data goes out, again every second until it is acknowledged.  The wait is skipped
\* when the number to wait for is 0; the number may not be the one the peer expects, or
\* may have served for data the caller was told had failed.
SendStart(t, n) ==
  /\ Call(t, "send", n)
  /\ tcp' = [tcp EXCEPT !.lock = t, !.sequence_waiting_for_ack = tcp.sequence_send]
  /\ sent' = sent \cup {[kind |-> "data", seq |-> tcp.sequence_send, size |-> n, id |-> calls']}
  /\ Halt(<<Flag(tcp.sequence_send = 0, "zero"),
            Flag(tcp.sequence_send # peer.next, "skew"),
            Flag(\E p \in sent : p.kind = "data" /\ p.seq = tcp.sequence_send, "reused")>>)
  /\ UNCHANGED <<queue, last_read, taken, acked>> /\ Frame

SendReturn_Mutant(t) ==   \* without an acknowledgement
  /\ At(t, "send")
  /\ Return(t, [tcp EXCEPT !.sequence_send = (@ + th[t].size) % W])
  /\ acked' = Append(acked, (CHOOSE p \in sent : p.kind = "data" /\ p.seq = tcp.sequence_send).id)
  /\ UNCHANGED <<queue, last_read, sent, taken, calls, hazard>> /\ Frame
SendReturn(t) ==
  /\ At(t, "send") /\ tcp.sequence_waiting_for_ack = 0
  /\ Return(t, [tcp EXCEPT !.sequence_send = (@ + th[t].size) % W])
  /\ acked' = Append(acked, (CHOOSE p \in sent : p.kind = "data" /\ p.seq = tcp.sequence_send).id)
  /\ UNCHANGED <<queue, last_read, sent, taken, calls, hazard>> /\ Frame

\* EPIPE after ten seconds.
SendTimeout(t) ==
  /\ At(t, "send") /\ tcp.sequence_waiting_for_ack # 0
  /\ Return(t, tcp)
  /\ UNCHANGED <<queue, last_read, sent, taken, acked, calls, hazard>> /\ Frame

ReceiveStart(t, n) ==
  /\ Call(t, "check", n)
  /\ tcp' = [tcp EXCEPT !.lock = t]
  /\ UNCHANGED <<queue, last_read, sent, taken, acked, hazard>> /\ Frame

Unread == queue[last_read + 1].size > 0

\* The loop's condition, with nothing read yet: the peer has finished, five seconds are
\* over, or the queue is looked at.  What the queue holds when the peer has finished is
\* not given to the caller, who sees the end of the data.
ReceiveCheck(t) ==
  /\ At(t, "check")
  /\ \/ tcp.is_fin /\ Return(t, tcp) /\ Bad(Unread, "eof")
     \/ ~tcp.is_fin /\ Return(t, tcp) /\ UNCHANGED hazard
     \/ ~tcp.is_fin /\ Goto(t, "drain") /\ UNCHANGED <<tcp, hazard>>
  /\ UNCHANGED <<queue, last_read, sent, taken, acked, calls>> /\ Frame

\* One buffer of the queue: a part of it, or all of it and the reader moves on.
ReceiveTake(t) ==
  LET data == queue[last_read + 1]
      size_reading == IF data.size < th[t].left THEN data.size ELSE th[t].left
      Byte(k) == IF k <= Len(data.buffer) THEN data.buffer[k] ELSE 0
  IN  /\ At(t, "drain") /\ Unread /\ th[t].left > 0
      /\ taken' = taken \o [k \in 1..size_reading |-> Byte(k)]
      /\ th' = [th EXCEPT ![t].left = @ - size_reading]
      /\ \/ /\ size_reading < data.size
            /\ queue' = [queue EXCEPT ![last_read + 1].size = @ - size_reading,
                                      ![last_read + 1].buffer =
                                         SubSeq(@, size_reading + 1, Len(@))]
            /\ UNCHANGED last_read
         \/ /\ size_reading = data.size
            /\ last_read' = last_read + 1
            /\ UNCHANGED queue
      /\ UNCHANGED <<tcp, sent, acked, calls, hazard>> /\ Frame

ReceiveDrained(t) ==
  /\ At(t, "drain") /\ (~Unread \/ th[t].left = 0)
  /\ \/ th[t].left < th[t].size /\ Return(t, tcp)
     \/ th[t].left = th[t].size /\ Goto(t, "check") /\ UNCHANGED tcp
  /\ UNCHANGED <<queue, last_read, sent, taken, acked, calls, hazard>> /\ Frame

\* A FIN, sent once; the descriptor is gone, no call follows.
Close(t) ==
  /\ At(t, "user") /\ tcp.is_connect /\ tcp.lock = NULL /\ calls < MaxCalls
  /\ calls' = MaxCalls
  /\ tcp' = [tcp EXCEPT !.sequence_waiting_for_ack = tcp.sequence_send]
  /\ sent' = sent \cup {[kind |-> "fin", seq |-> tcp.sequence_send, size |-> 0, id |-> 0]}
  /\ UNCHANGED <<queue, last_read, th, taken, acked, hazard>> /\ Frame

\* spinlock_acquire gives up on a lock held for seconds, and its result is not looked at.
SpinOut(t) ==
  /\ At(t, "user") /\ tcp.is_connect /\ tcp.lock # NULL /\ calls < MaxCalls
  /\ hazard' = "unlocked"
  /\ UNCHANGED <<tcp, queue, last_read, th, sent, taken, acked, calls>> /\ Frame

-----------------------------------------------------------------------------
Stopped ==
  /\ hazard # "none"
  /\ UNCHANGED vars

Next ==
  \/ PeerTake \/ tcp_socket_handler \/ HandleFin
  \/ SendBufferNext \/ SendBufferData \/ SendBufferSize
  \/ \E t \in Threads :
       \/ Connect(t) \/ ConnectReturn(t)
       \/ \E n \in SendSizes : SendStart(t, n)
       \/ SendReturn(t) \/ SendTimeout(t)
       \/ \E n \in ReceiveSizes : ReceiveStart(t, n)
       \/ ReceiveCheck(t) \/ ReceiveTake(t) \/ ReceiveDrained(t)
       \/ Close(t) \/ SpinOut(t)
  \/ Stopped

Spec == Init /\ [][Next]_vars

-----------------------------------------------------------------------------
(* Properties.                                                             *)

Upto(n) == [i \in 1..n |-> i]

\* However the peer's segments are cut, lost, repeated and reordered, tcp_socket_handler
\* hands the peer's bytes to the queue in order and once, and never acknowledges a byte
\* (sequence_receive) before it is handed over: the peer would not send it again.  No
\* buffer is empty: the reader would wait at it for ever.
Stream ==
  hazard = "none" =>
    /\ pushed = Upto(Len(pushed))
    /\ irq.at \in {"next", "buffer", "size"} => irq.buffer # <<>>
    /\ tcp.is_accept /\ irq.at = "none" =>
         (tcp.sequence_receive - Number(1)) % W <= Len(pushed) + (IF tcp.is_fin THEN 1 ELSE 0)

\* receive, which reads the queue while the interrupt handler extends it, gives its callers
\* the bytes in order and once.
Received == hazard = "none" => taken = Upto(Len(taken)) /\ Len(taken) <= Len(pushed)

\* A send that returned 0 is with the peer, after those before it and before those after it.
SentInOrder == hazard = "none" => IsPrefix(acked, peer.got)
=============================================================================

-------------------------------- MODULE Ring --------------------------------
(***************************************************************************)
(* The descriptor rings of the e1000 network card and the driver's two     *)
(* entry points: the interrupt handler that empties the receive ring and   *)
(* controller_send_packet, which fills the transmit ring                   *)
(* (modules/e1000/source/controller.c).                                    *)
(*                                                                         *)
(* The card is external: it stores a packet in the descriptor its receive  *)
(* head names unless head and tail are equal, and transmits from its       *)
(* transmit head until head and tail are equal.  Packets are numbered.     *)
(* The handler runs with interrupts disabled over one of the threads in    *)
(* Interrupted, which stand still meanwhile; the network stack it calls    *)
(* for a packet may send an answer, so it is a sender too.                 *)
(***************************************************************************)
EXTENDS Integers, Sequences, FiniteSets

CONSTANTS
  N,            \* rx_desc_count and tx_desc_count: PAGE_SIZE / 16
  Threads,      \* threads that send
  Interrupted,  \* those on the processor that takes the interrupt
  IRQ,          \* the interrupt handler as a sender
  MaxArrive,    \* bound on the packets that arrive
  MaxSends      \* bound on the packets that are sent

VARIABLES
  rx,      \* receive ring: RDH0, RDT0 and the packet in each descriptor
  cause,   \* RXQ0 in the interrupt cause register ICR
  msi,     \* an interrupt message is on its way to the processor
  h,       \* the handler: where it is and its local variables
  late,    \* the cause was cleared with a packet behind the head that was read
  arrived, \* packets the card has stored
  given,   \* packets handed to rx_packet, in order
  tx,      \* transmit ring: TDH, TDT, the packet and the DD bit of each one
  owner,   \* holder of tx_desc_lock, or none
  pc, index, \* each sender's place in controller_send_packet, and current_index
  queued,  \* packets put in the ring
  sent,    \* packets on the wire, in order
  hazard   \* the first thing that went wrong

rxVars == <<rx, cause, msi, h, late, arrived, given>>
txVars == <<tx, owner, pc, index, queued, sent>>
vars == <<rx, cause, msi, h, late, arrived, given, tx, owner, pc, index, queued, sent, hazard>>

Senders == Threads \cup {IRQ}
Slots == 0 .. N - 1
None == "none"
Empty == 0

ASSUME RingAssumption == N \in Nat \ {0} /\ None \notin Senders

MaySend == queued + Cardinality({s \in Senders : pc[s] # "idle"}) < MaxSends

-----------------------------------------------------------------------------
(* Initialisation.                                                         *)

controller_init_rx == [RDH |-> 0, RDT |-> N - 1, desc |-> [i \in Slots |-> Empty]]

controller_init_tx_Mutant ==
  [TDH |-> 0, TDT |-> 0, desc |-> [i \in Slots |-> Empty], DD |-> Slots \ {N - 1}]
controller_init_tx ==
  [TDH |-> 0, TDT |-> 0, desc |-> [i \in Slots |-> Empty], DD |-> Slots]

Init ==
  /\ rx = controller_init_rx /\ tx = controller_init_tx
  /\ cause = FALSE /\ msi = FALSE /\ late = FALSE
  /\ h = [pc |-> "idle", head |-> 0, tail |-> 0, i |-> 0]
  /\ arrived = 0 /\ given = <<>> /\ queued = 0 /\ sent = <<>>
  /\ owner = None
  /\ pc = [s \in Senders |-> "idle"] /\ index = [s \in Senders |-> 0]
  /\ hazard = None

-----------------------------------------------------------------------------
(* The card.                                                               *)

\* A packet is stored and raises RXQ0.  With head at tail it is dropped.
Receive ==
  /\ hazard = None /\ arrived < MaxArrive /\ rx.RDH # rx.RDT
  /\ rx' = [rx EXCEPT !.desc[rx.RDH] = arrived + 1, !.RDH = (rx.RDH + 1) % N]
  /\ arrived' = arrived + 1
  /\ cause' = TRUE /\ msi' = TRUE
  /\ UNCHANGED <<h, late, given, txVars, hazard>>

\* The packet at the transmit head goes out and its descriptor is done.
Transmit ==
  /\ hazard = None /\ tx.TDH # tx.TDT
  /\ sent' = Append(sent, tx.desc[tx.TDH])
  /\ tx' = [tx EXCEPT !.DD = @ \cup {tx.TDH}, !.TDH = (tx.TDH + 1) % N]
  /\ UNCHANGED <<rxVars, owner, pc, index, queued, hazard>>

-----------------------------------------------------------------------------
(* e1000_controller_on_interrupt.                                          *)

\* int arguments: head is one less than the register, and may be -1.
e1000_count_rx_descriptor_Mutant(head, tail) ==
  IF tail <= head THEN head - tail ELSE N - 1 + head - tail
e1000_count_rx_descriptor(head, tail) ==
  IF tail <= head THEN head - tail ELSE N + head - tail

rx_desc_count_to_handle == e1000_count_rx_descriptor(h.head - 1, h.tail)

\* The index the loop uses: i + tail_current, not reduced modulo the count.
LoopIndex_Mutant == h.i + (h.tail % N)
LoopIndex == h.i + ((h.tail + 1) % N)

\* Entry.  Without RXQ0 the handler returns at once.
OnInterrupt ==
  /\ hazard = None /\ msi /\ h.pc = "idle"
  /\ msi' = FALSE
  /\ h' = [h EXCEPT !.pc = IF cause THEN "head" ELSE "idle"]
  /\ UNCHANGED <<rx, cause, late, arrived, given, txVars, hazard>>

\* RDH is read, and RDT, which only the handler writes.
ReadHead ==
  /\ hazard = None /\ h.pc = "head"
  /\ h' = [pc |-> "clear", head |-> rx.RDH, tail |-> rx.RDT, i |-> 0]
  /\ late' = FALSE
  /\ UNCHANGED <<rx, cause, msi, arrived, given, txVars, hazard>>

\* RXQ0 is written to ICR.  Whether the read of ICR has cleared it already
\* makes no difference, as nobody reads it in between.
ClearCause ==
  /\ hazard = None /\ h.pc = "clear"
  /\ cause' = FALSE
  /\ late' = (rx.RDH # h.head)
  /\ h' = [h EXCEPT !.pc = "loop"]
  /\ UNCHANGED <<rx, msi, arrived, given, txVars, hazard>>

\* One packet goes up, perhaps to be answered, and its descriptor is reset.
\* An index past the last descriptor is outside the page.
HandUp ==
  /\ hazard = None /\ h.pc = "loop" /\ pc[IRQ] = "idle"
  /\ h.i < rx_desc_count_to_handle
  /\ IF LoopIndex \notin Slots
       THEN hazard' = "overrun" /\ UNCHANGED <<rxVars, txVars>>
       ELSE /\ given' = Append(given, rx.desc[LoopIndex])
            /\ rx' = [rx EXCEPT !.desc[LoopIndex] = Empty]
            /\ h' = [h EXCEPT !.i = @ + 1]
            /\ \/ UNCHANGED pc
               \/ MaySend /\ pc' = [pc EXCEPT ![IRQ] = "lock"]
            /\ UNCHANGED <<cause, msi, late, arrived, tx, owner, index, queued, sent, hazard>>

\* The handled descriptors go back to the card.
WriteTail ==
  /\ hazard = None /\ h.pc = "loop" /\ pc[IRQ] = "idle"
  /\ h.i = rx_desc_count_to_handle
  /\ rx' = [rx EXCEPT !.RDT = (h.tail + rx_desc_count_to_handle) % N]
  /\ h' = [h EXCEPT !.pc = "idle"]
  /\ UNCHANGED <<cause, msi, late, arrived, given, txVars, hazard>>

-----------------------------------------------------------------------------
(* controller_send_packet.                                                 *)

Runs(s) == s = IRQ \/ s \notin Interrupted \/ h.pc = "idle"

\* A thread calls; a packet longer than PACKET_SIZE is refused at once.
Call(s) ==
  /\ hazard = None /\ Runs(s) /\ pc[s] = "idle"
  /\ MaySend
  /\ pc' = [pc EXCEPT ![s] = "lock"]
  /\ UNCHANGED <<rxVars, tx, owner, index, queued, sent, hazard>>

\* spinlock_acquire, then TDT is read; or it gives up and the call ends with EIO.
Acquire(s) ==
  /\ pc[s] = "lock"
  /\ IF owner = None
       THEN /\ owner' = s /\ index' = [index EXCEPT ![s] = tx.TDT]
            /\ pc' = [pc EXCEPT ![s] = "wait"]
       ELSE pc' = [pc EXCEPT ![s] = "idle"] /\ UNCHANGED <<owner, index>>
  /\ UNCHANGED <<tx, queued, sent, hazard>>

\* Once the descriptor is done, data and length are stored and DD is cleared.
Fill(s) ==
  /\ pc[s] = "wait" /\ index[s] \in tx.DD
  /\ tx' = [tx EXCEPT !.desc[index[s]] = queued + 1, !.DD = @ \ {index[s]}]
  /\ queued' = queued + 1
  /\ pc' = [pc EXCEPT ![s] = "tail"]
  /\ UNCHANGED <<owner, index, sent, hazard>>

\* TDT moves on and the lock is released.  A tail that meets the head from
\* behind looks to the card like an empty ring.
WriteTdt(s) ==
  /\ pc[s] = "tail"
  /\ tx' = [tx EXCEPT !.TDT = (index[s] + 1) % N]
  /\ hazard' = IF (index[s] + 1) % N = tx.TDH THEN "full" ELSE None
  /\ owner' = None
  /\ pc' = [pc EXCEPT ![s] = "idle"]
  /\ UNCHANGED <<index, queued, sent>>

Sending(s) ==
  /\ hazard = None /\ Runs(s)
  /\ Acquire(s) \/ Fill(s) \/ WriteTdt(s)
  /\ UNCHANGED rxVars

-----------------------------------------------------------------------------
Handler == OnInterrupt \/ ReadHead \/ ClearCause \/ HandUp \/ WriteTail

\* Something went wrong, or nothing arrives and nobody sends any more.
Rest ==
  /\ hazard # None \/ (arrived = MaxArrive /\ queued = MaxSends)
  /\ UNCHANGED vars

Next ==
  \/ Receive \/ Transmit
  \/ Handler
  \/ \E t \in Threads : Call(t)
  \/ \E s \in Senders : Sending(s)
  \/ Rest

\* The card transmits what it is given, an interrupt is taken and its handler
\* goes on, and a sender that can go on does.  Nobody has to send or arrive.
FairSpec ==
  /\ Init /\ [][Next]_vars
  /\ WF_vars(Transmit) /\ WF_vars(Handler)
  /\ \A s \in Senders : WF_vars(Sending(s))

-----------------------------------------------------------------------------
(* Properties.                                                             *)

\* Every packet the card stores goes up once and in the order of arrival, and
\* every packet a sender put in the transmit ring goes out once and in the
\* order the senders took the lock: a descriptor is never handled by the
\* driver while it belongs to the card, nor given to two senders
\* (e1000_controller_on_interrupt, controller_send_packet).
OnceInOrder ==
  /\ given = [i \in 1 .. Len(given) |-> i] /\ Len(given) <= arrived
  /\ sent = [i \in 1 .. Len(sent) |-> i] /\ Len(sent) <= queued

\* A packet the card stored goes up, unless a batch ran past the end of the
\* ring or its interrupt cause was cleared after the head had been read and no
\* packet has come since (lines 50-55).
PacketsGoUp ==
  \A k \in 1 .. MaxArrive :
    arrived >= k ~> (Len(given) >= k \/ hazard # None \/ []late)

\* A call of controller_send_packet returns, and what it put in the ring goes
\* out, unless the ring was filled to the last descriptor; also when the
\* handler sends over a thread that holds tx_desc_lock.
SendCompletes ==
  /\ \A s \in Senders : pc[s] # "idle" ~> (pc[s] = "idle" \/ hazard # None)
  /\ \A k \in 1 .. MaxSends : queued >= k ~> (Len(sent) >= k \/ hazard # None)
=============================================================================

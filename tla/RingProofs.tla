------------------------------ MODULE RingProofs ------------------------------
(***************************************************************************)
(* Packets go through the two rings of the e1000 once and in order, for a  *)
(* ring of any size, any number of senders and any number of packets:      *)
(* RingInv is inductive and implies OnceInOrder.                           *)
(*                                                                         *)
(* Counting packets from the start turns a position in a ring into a count *)
(* modulo N.  The head of a ring is at the count of what the card has done, *)
(* its tail at the count of what the driver has done, and the two never are *)
(* N or more apart; the packets between them are in the descriptors their   *)
(* numbers say.                                                            *)
(***************************************************************************)
EXTENDS Ring, TLAPS

\* Packets whose descriptors are back with the card: a batch is given back by its end.
Returned == Len(given) - (IF h.pc = "loop" THEN h.i ELSE 0)

\* Packets TDT has passed: the last one filled may not be among them yet.
Posted == queued - (IF \E s \in Senders : pc[s] = "tail" THEN 1 ELSE 0)

TypeOK ==
  /\ rx \in [RDH : Slots, RDT : Slots, desc : [Slots -> Nat]]
  /\ tx \in [TDH : Slots, TDT : Slots, desc : [Slots -> Nat], DD : SUBSET Slots]
  /\ h \in [pc : {"idle", "head", "clear", "loop"}, head : Slots, tail : Slots, i : Nat]
  /\ arrived \in Nat /\ queued \in Nat
  /\ given \in Seq(Nat) /\ sent \in Seq(Nat)
  /\ owner \in Senders \cup {None}
  /\ pc \in [Senders -> {"idle", "lock", "wait", "tail"}]
  /\ index \in [Senders -> Slots]

\* The receive ring: packet k is in descriptor k - 1 until it is handed up.
RxRing ==
  /\ rx.RDH = arrived % N /\ rx.RDT = (Returned - 1) % N
  /\ Returned >= 0 /\ arrived - Returned < N /\ Len(given) <= arrived
  /\ \A k \in 1 .. Len(given) : given[k] = k
  /\ \A k \in Len(given) .. (arrived - 1) : rx.desc[k % N] = k + 1

\* The handler works on the packets that had arrived when it read RDH.
Batch ==
  h.pc \in {"clear", "loop"} =>
    /\ h.tail = rx.RDT /\ (h.pc = "clear" => h.i = 0)
    /\ \E seen \in Returned .. arrived : h.head = seen % N /\ Len(given) <= seen

\* tx_desc_lock: only its holder is past it, and works on the descriptor at TDT.
Locked ==
  \A s \in Senders : pc[s] \in {"wait", "tail"} =>
    owner = s /\ (hazard = None => index[s] = tx.TDT)

\* The transmit ring: packet k is in descriptor k - 1 until it is sent.
TxRing ==
  /\ tx.TDH = Len(sent) % N /\ Len(sent) <= queued
  /\ \A k \in 1 .. Len(sent) : sent[k] = k
  /\ \A k \in Len(sent) .. (queued - 1) : tx.desc[k % N] = k + 1
  /\ hazard = None =>
       /\ tx.TDT = Posted % N
       /\ Posted >= Len(sent) /\ Posted - Len(sent) < N

RingInv == TypeOK /\ RxRing /\ Batch /\ Locked /\ TxRing

-----------------------------------------------------------------------------
(* Positions in a ring: counts modulo N.                                   *)

\* A count is a number of rounds of the ring and a position in it.
LEMMA Rounds ==
  ASSUME NEW k \in Int
  PROVE  k % N \in Slots /\ \E q \in Int : k = q * N + (k % N)
<1>1. k % N \in 0 .. N - 1
  BY RingAssumption
<1>2. k \div N \in Int /\ k = (k \div N) * N + (k % N)
  BY RingAssumption
<1> QED BY <1>1, <1>2 DEF Slots

\* Less than a round in either direction is no round at all.
LEMMA NoRound ==
  ASSUME NEW e \in Int, e * N < N, e * N > -N
  PROVE  e = 0
<1>1. ASSUME e >= 1 PROVE FALSE
  BY <1>1, RingAssumption
<1>2. ASSUME e <= -1 PROVE FALSE
  BY <1>2, RingAssumption
<1> QED BY <1>1, <1>2

\* Counts some rounds apart are the same position.
LEMMA SamePosition ==
  ASSUME NEW a \in Int, NEW b \in Int, NEW q \in Int, a = b + q * N
  PROVE  a % N = b % N
<1>1. PICK u \in Int : a = u * N + (a % N)
  BY Rounds
<1>2. PICK v \in Int : b = v * N + (b % N)
  BY Rounds
<1> DEFINE e == u - v - q
           U == u * N
           V == v * N
           Q == q * N
           E == e * N
           A == a % N
           B == b % N
<1>3. A \in 0 .. N - 1 /\ B \in 0 .. N - 1
  BY Rounds DEF Slots
<1>4. U \in Int /\ V \in Int /\ Q \in Int /\ e \in Int /\ E = U - V - Q
  BY RingAssumption
<1>5. a = U + A /\ b = V + B /\ a = b + Q
  BY <1>1, <1>2
<1>6. E = B - A
  <2> HIDE DEF U, V, Q, E, A, B
  <2> QED BY <1>3, <1>4, <1>5, RingAssumption
<1>7. e = 0
  <2> HIDE DEF A, B, e
  <2> QED BY <1>3, <1>4, <1>6, NoRound, RingAssumption
<1>8. E = 0
  BY <1>7, RingAssumption
<1> HIDE DEF A, B, E
<1>9. A = B
  BY <1>3, <1>6, <1>8, RingAssumption
<1> QED BY <1>9 DEF A, B

\* A position is its own; adding to a position is adding to the count.
LEMMA Position ==
  ASSUME NEW a \in Int, NEW b \in Int
  PROVE  /\ a \in Slots => a % N = a
         /\ ((a % N) + b) % N = (a + b) % N
         /\ (a + N) % N = a % N
<1>1. a \in Slots => a % N = a
  BY RingAssumption DEF Slots
<1>2. PICK q \in Int : a = q * N + (a % N)
  BY Rounds
<1> DEFINE A == a % N
           Q == q * N
<1>3. A \in Int /\ Q \in Int /\ N \in Int /\ a = Q + A
  BY <1>2, Rounds, RingAssumption DEF Slots
<1>4. a + b = (A + b) + Q /\ a + N = a + 1 * N
  <2> HIDE DEF A, Q
  <2> QED BY <1>3
<1>5. (a + b) % N = (A + b) % N
  <2> HIDE DEF A
  <2>1. a + b \in Int /\ A + b \in Int
    BY <1>3
  <2> QED BY <1>4, <2>1, SamePosition
<1>6. (a + N) % N = a % N
  <2>1. a + N \in Int /\ 1 \in Int
    BY <1>3
  <2> QED BY <1>4, <2>1, SamePosition
<1> QED BY <1>1, <1>5, <1>6

\* A register moved on by one is at the next count.
LEMMA Step ==
  ASSUME NEW k \in Int
  PROVE  ((k % N) + 1) % N = (k + 1) % N /\ (k + 1) % N \in Slots
<1>1. 1 \in Int /\ k + 1 \in Int
  OBVIOUS
<1> QED BY <1>1, Position, Rounds

\* Less than a round further on: the position moves by as much, or passes the end once.
LEMMA Further ==
  ASSUME NEW a \in Int, NEW d \in 0 .. N - 1
  PROVE  (a + d) % N = IF (a % N) + d < N THEN (a % N) + d ELSE (a % N) + d - N
<1> DEFINE p == a % N
<1>1. p \in 0 .. N - 1 /\ d \in Int
  BY Rounds, RingAssumption DEF Slots
<1>2. (a + d) % N = (p + d) % N
  BY <1>1, Position
<1> HIDE DEF p
<1>3. CASE p + d < N
  <2>1. p + d \in Slots /\ p + d \in Int
    BY <1>1, <1>3, RingAssumption DEF Slots
  <2>2. (p + d) % N = p + d
    BY <2>1, Position
  <2> QED BY <1>2, <1>3, <2>2 DEF p
<1>4. CASE p + d >= N
  <2>1. p + d - N \in Slots /\ p + d - N \in Int
    BY <1>1, <1>4, RingAssumption DEF Slots
  <2>2. (p + d - N + N) % N = p + d - N
    BY <2>1, Position
  <2>3. p + d - N + N = p + d
    BY <1>1, RingAssumption
  <2> QED BY <1>1, <1>2, <1>4, <2>2, <2>3, RingAssumption DEF p
<1> QED BY <1>1, <1>3, <1>4, RingAssumption

\* Counts less than a round apart have positions of their own.
LEMMA OwnPosition ==
  ASSUME NEW a \in Int, NEW b \in Int, a < b, b - a < N
  PROVE  a % N # b % N
<1>1. b - a \in 0 .. N - 1 /\ a + (b - a) = b
  BY RingAssumption
<1>2. b % N = IF (a % N) + (b - a) < N THEN (a % N) + (b - a) ELSE (a % N) + (b - a) - N
  BY <1>1, Further
<1>3. a % N \in Int
  BY Rounds, RingAssumption DEF Slots
<1> QED BY <1>2, <1>3, RingAssumption

\* e1000_count_rx_descriptor counts the packets between the tail and the head the handler
\* read, also when the head is at 0 and its argument -1.
LEMMA CountsBatch ==
  ASSUME NEW seen \in Int, NEW done \in Int, done <= seen, seen - done < N
  PROVE  e1000_count_rx_descriptor((seen % N) - 1, (done - 1) % N) = seen - done
<1> DEFINE t == (done - 1) % N
           d == seen - done + 1
<1>1. t \in 0 .. N - 1 /\ d \in 1 .. N /\ (done - 1) + d = seen
  BY Rounds, RingAssumption DEF Slots
<1>2. CASE d = N
  <2>1. seen % N = t
    BY <1>1, <1>2, Position
  <2> QED BY <1>1, <1>2, <2>1, RingAssumption DEF e1000_count_rx_descriptor
<1>3. CASE d < N
  <2>1. d \in 0 .. N - 1 /\ done - 1 \in Int
    BY <1>1, <1>3, RingAssumption
  <2>2. seen % N = IF t + d < N THEN t + d ELSE t + d - N
    BY <1>1, <2>1, Further
  <2> QED BY <1>1, <1>3, <2>2, RingAssumption DEF e1000_count_rx_descriptor
<1> QED BY <1>1, <1>2, <1>3, RingAssumption

-----------------------------------------------------------------------------
(* The receive ring.                                                       *)

\* What leaves the receive ring, the handler and the counters alone keeps both invariants.
LEMMA RxSame ==
  ASSUME RxRing, Batch, UNCHANGED <<rx, h, arrived, given>>
  PROVE  RxRing' /\ Batch'
BY DEF RxRing, Batch, Returned

\* What leaves the transmit ring and its senders alone, or ends in a hazard, keeps theirs.
LEMMA TxSame ==
  ASSUME Locked, TxRing, UNCHANGED <<tx, owner, pc, index, queued, sent>>,
         hazard = None \/ UNCHANGED hazard
  PROVE  Locked' /\ TxRing'
BY DEF Locked, TxRing, Posted

\* The numbers the invariants count with.
LEMMA Counts ==
  ASSUME TypeOK
  PROVE  /\ Len(given) \in Nat /\ Len(sent) \in Nat /\ Returned \in Int /\ Posted \in Int
         /\ N \in Nat \ {0} /\ arrived \in Nat /\ queued \in Nat
         /\ Posted \in {queued, queued - 1}
<1>1. given \in Seq(Nat) /\ sent \in Seq(Nat) /\ h.i \in Nat /\ arrived \in Nat /\ queued \in Nat
  BY Zenon DEF TypeOK
<1>2. Len(given) \in Nat /\ Len(sent) \in Nat
  BY <1>1
<1>3. Returned \in Int
  BY <1>1, <1>2 DEF Returned
<1>4. Posted \in {queued, queued - 1} /\ Posted \in Int
  BY <1>1 DEF Posted
<1> QED BY <1>1, <1>2, <1>3, <1>4, RingAssumption

\* A packet put at the end of the sequence of those that went by.
LEMMA OneMore ==
  ASSUME NEW q \in Seq(Nat), NEW v \in Nat
  PROVE  /\ Append(q, v) \in Seq(Nat) /\ Len(Append(q, v)) = Len(q) + 1
         /\ Append(q, v)[Len(q) + 1] = v
         /\ \A k \in 1 .. Len(q) : Append(q, v)[k] = q[k]
OBVIOUS

\* The card stores packet arrived + 1 at RDH: the descriptor there was given back, and
\* head at tail is the ring with N - 1 packets.
LEMMA ReceiveInv ==
  ASSUME RingInv, Receive
  PROVE  RingInv'
<1> USE DEF RingInv
<1>1. /\ rx.RDH # rx.RDT /\ rx' = [rx EXCEPT !.desc[rx.RDH] = arrived + 1, !.RDH = (rx.RDH + 1) % N]
      /\ arrived' = arrived + 1 /\ UNCHANGED <<h, given, tx, owner, pc, index, queued, sent, hazard>>
  BY DEF Receive, txVars
<1>2. arrived % N \in Slots /\ (arrived + 1) % N \in Slots /\ (rx.RDH + 1) % N = (arrived + 1) % N
  <2>1. rx.RDH = arrived % N
    BY DEF RxRing
  <2>2. arrived \in Int /\ arrived + 1 \in Int
    BY Counts
  <2> QED BY <2>1, <2>2, Step, Rounds
<1>3. TypeOK'
  <2>1. PICK x \in Slots : x = (rx.RDH + 1) % N
    BY <1>2
  <2>2. rx' = [rx EXCEPT !.desc[rx.RDH] = arrived + 1, !.RDH = x]
    BY <1>1, <2>1
  <2>3. rx' \in [RDH : Slots, RDT : Slots, desc : [Slots -> Nat]] /\ arrived' \in Nat
    <3>1. rx \in [RDH : Slots, RDT : Slots, desc : [Slots -> Nat]] /\ arrived + 1 \in Nat
      BY DEF TypeOK
    <3>2. rx' \in [RDH : Slots, RDT : Slots, desc : [Slots -> Nat]]
      BY Zenon, <2>2, <3>1
    <3> QED BY <1>1, <3>1, <3>2
  <2> QED BY Zenon, <1>1, <2>3 DEF TypeOK
<1>4. Returned' = Returned
  BY <1>1 DEF Returned
<1>5. arrived + 1 - Returned < N
  <2>1. ASSUME arrived - Returned = N - 1 PROVE FALSE
    <3>1. (Returned - 1) + N = arrived /\ Returned - 1 \in Int
      BY SMTT(30), <2>1, Counts
    <3>2. arrived % N = (Returned - 1) % N
      BY <3>1, Position
    <3> QED BY <1>1, <3>2 DEF RxRing
  <2>2. arrived - Returned < N
    BY DEF RxRing
  <2> QED BY <2>1, <2>2, Counts
<1>6. \A k \in Len(given) .. (arrived' - 1) : rx'.desc[k % N] = k + 1
  <2> SUFFICES ASSUME NEW k \in Len(given) .. arrived
               PROVE  rx'.desc[k % N] = k + 1
    BY <1>1, Counts
  <2>1. k \in Int /\ k % N \in Slots
    BY Counts, Rounds
  <2>2. CASE k = arrived
    BY <1>1, <1>2, <2>2 DEF TypeOK, RxRing
  <2>3. CASE k < arrived
    <3>1. Returned <= Len(given)
      BY DEF Returned, TypeOK
    <3>2. k % N # arrived % N
      BY <1>5, <2>1, <2>3, <3>1, Counts, OwnPosition
    <3>3. k \in Len(given) .. (arrived - 1)
      BY <2>3, Counts
    <3> QED BY <1>1, <2>1, <3>2, <3>3 DEF TypeOK, RxRing
  <2> QED BY <2>2, <2>3, Counts
<1>7. RxRing'
  <2>1. rx'.RDH = arrived' % N /\ rx'.RDT = rx.RDT
    BY <1>1, <1>2 DEF TypeOK
  <2> QED BY <1>1, <1>4, <1>5, <1>6, <2>1, Counts DEF RxRing
<1>8. Batch'
  <2> SUFFICES ASSUME h.pc \in {"clear", "loop"}
               PROVE  /\ h.tail = rx.RDT /\ (h.pc = "clear" => h.i = 0)
                      /\ \E seen \in Returned .. arrived' : h.head = seen % N /\ Len(given) <= seen
    BY <1>1, <1>4 DEF Batch, TypeOK
  <2>1. PICK seen \in Returned .. arrived : h.head = seen % N /\ Len(given) <= seen
    BY DEF Batch
  <2>2. seen \in Returned .. arrived'
    BY <1>1, Counts
  <2> QED BY <2>1, <2>2 DEF Batch
<1>9. Locked' /\ TxRing'
  BY <1>1, TxSame
<1> QED BY <1>3, <1>7, <1>8, <1>9

\* e1000_controller_on_interrupt up to its loop: the registers it reads, and the cause it
\* clears, change neither ring.
LEMMA OnInterruptInv ==
  ASSUME RingInv, OnInterrupt
  PROVE  RingInv'
<1> USE DEF RingInv
<1>1. /\ h.pc = "idle" /\ h' = [h EXCEPT !.pc = IF cause THEN "head" ELSE "idle"]
      /\ UNCHANGED <<rx, arrived, given, tx, owner, pc, index, queued, sent, hazard>>
  BY DEF OnInterrupt, txVars
<1>2. TypeOK' /\ h'.pc \in {"idle", "head"}
  BY Zenon, <1>1 DEF TypeOK
<1>3. Returned' = Returned
  BY <1>1, <1>2 DEF Returned
<1>4. RxRing' /\ Batch'
  BY <1>1, <1>2, <1>3 DEF RxRing, Batch
<1> QED BY <1>1, <1>2, <1>4, TxSame

\* The handler reads RDH: the batch it will hand up ends at the packets arrived so far.
LEMMA ReadHeadInv ==
  ASSUME RingInv, ReadHead
  PROVE  RingInv'
<1> USE DEF RingInv
<1>1. /\ h.pc = "head" /\ h' = [pc |-> "clear", head |-> rx.RDH, tail |-> rx.RDT, i |-> 0]
      /\ UNCHANGED <<rx, arrived, given, tx, owner, pc, index, queued, sent, hazard>>
  BY DEF ReadHead, txVars
<1>2. TypeOK'
  <2>1. rx.RDH \in Slots /\ rx.RDT \in Slots /\ 0 \in Nat
    BY DEF TypeOK
  <2>2. h' \in [pc : {"idle", "head", "clear", "loop"}, head : Slots, tail : Slots, i : Nat]
    BY <1>1, <2>1
  <2> QED BY Zenon, <1>1, <2>2 DEF TypeOK
<1>3. Returned = Len(given) /\ Returned' = Returned
  BY <1>1, Counts DEF Returned
<1>4. RxRing'
  BY <1>1, <1>3 DEF RxRing
<1>5. Batch'
  <2>1. arrived \in Returned .. arrived /\ rx.RDH = arrived % N /\ Len(given) <= arrived
    BY <1>3, Counts DEF RxRing
  <2> QED BY <1>1, <1>3, <2>1 DEF Batch
<1> QED BY <1>1, <1>2, <1>4, <1>5, TxSame

\* The handler writes the cause register, which clears the cause it serves.
LEMMA ClearCauseInv ==
  ASSUME RingInv, ClearCause
  PROVE  RingInv'
<1> USE DEF RingInv
<1>1. /\ h.pc = "clear" /\ h' = [h EXCEPT !.pc = "loop"]
      /\ UNCHANGED <<rx, arrived, given, tx, owner, pc, index, queued, sent, hazard>>
  BY DEF ClearCause, txVars
<1>2. TypeOK' /\ h'.pc = "loop" /\ h'.i = h.i /\ h'.head = h.head /\ h'.tail = h.tail
  BY Zenon, <1>1 DEF TypeOK
<1>3. h.i = 0
  BY <1>1 DEF Batch
<1>4. Returned' = Returned
  BY <1>1, <1>2, <1>3, Counts DEF Returned
<1>5. RxRing' /\ Batch'
  BY <1>1, <1>2, <1>4 DEF RxRing, Batch
<1> QED BY <1>1, <1>2, <1>5, TxSame

\* In the loop the handler is between the tail and the head it read.
LEMMA InBatch ==
  ASSUME RingInv, h.pc = "loop"
  PROVE  \E seen \in Returned .. arrived :
           /\ h.head = seen % N /\ Len(given) <= seen
           /\ h.tail = (Returned - 1) % N
           /\ rx_desc_count_to_handle = seen - Returned
           /\ h.i = Len(given) - Returned /\ h.i \in Nat
<1> USE DEF RingInv
<1>1. PICK seen \in Returned .. arrived : h.head = seen % N /\ Len(given) <= seen
  BY DEF Batch
<1>2. h.tail = (Returned - 1) % N
  BY DEF Batch, RxRing
<1>3. seen \in Int /\ Returned \in Int /\ Returned <= seen /\ seen - Returned < N
  BY <1>1, Counts DEF RxRing
<1>4. rx_desc_count_to_handle = seen - Returned
  BY <1>1, <1>2, <1>3, CountsBatch DEF rx_desc_count_to_handle
<1>5. h.i = Len(given) - Returned /\ h.i \in Nat
  BY Counts DEF Returned, TypeOK
<1> QED BY <1>1, <1>2, <1>4, <1>5

\* One turn of the loop hands up the oldest packet that is in the ring; an answer it
\* causes only queues up for the lock.
LEMMA HandUpInv ==
  ASSUME RingInv, HandUp
  PROVE  RingInv'
<1> USE DEF RingInv
<1>1. h.pc = "loop" /\ hazard = None /\ pc[IRQ] = "idle" /\ h.i < rx_desc_count_to_handle
  BY DEF HandUp
<1>2. PICK seen \in Returned .. arrived :
        /\ h.head = seen % N /\ Len(given) <= seen
        /\ h.tail = (Returned - 1) % N
        /\ rx_desc_count_to_handle = seen - Returned
        /\ h.i = Len(given) - Returned /\ h.i \in Nat
  BY <1>1, InBatch
<1>3. CASE LoopIndex \notin Slots
  <2>1. UNCHANGED <<rx, h, arrived, given, tx, owner, pc, index, queued, sent>>
    BY <1>3 DEF HandUp, rxVars, txVars
  <2> QED BY Zenon, <1>1, <2>1, RxSame, TxSame DEF TypeOK
<1>4. CASE LoopIndex \in Slots
  <2> DEFINE c == Len(given)
  <2>1. LoopIndex = c % N
    <3>1. Returned - 1 \in Int /\ (Returned - 1) + 1 = Returned /\ Returned \in Int /\ c \in Int
      BY Counts
    <3>2. (h.tail + 1) % N = Returned % N
      BY <1>2, <3>1, Step
    <3>3. LoopIndex = h.i + (Returned % N)
      BY <3>2 DEF LoopIndex
    <3>4. Returned % N \in Int
      BY <3>1, Rounds, RingAssumption DEF Slots
    <3>5. LoopIndex = (Returned % N) + h.i /\ h.i \in Int /\ LoopIndex \in Int
      BY <1>2, <3>3, <3>4
    <3>6. LoopIndex % N = LoopIndex
      BY <1>4, <3>5, Position
    <3>7. ((Returned % N) + h.i) % N = (Returned + h.i) % N
      BY Zenon, <3>1, <3>5, Position
    <3>8. Returned + h.i = c
      BY <1>2, <3>1
    <3> QED BY <3>5, <3>6, <3>7, <3>8
  <2>2. c < seen /\ c \in c .. (arrived - 1) /\ c + 1 <= arrived
    BY SMTT(30), <1>1, <1>2, Counts
  <2>3. rx.desc[LoopIndex] = c + 1
    BY <2>1, <2>2 DEF RxRing
  <2> HIDE DEF LoopIndex
  <2>4. /\ given' = Append(given, c + 1)
        /\ rx' = [rx EXCEPT !.desc[LoopIndex] = Empty]
        /\ h' = [h EXCEPT !.i = @ + 1]
        /\ pc' = pc \/ pc' = [pc EXCEPT ![IRQ] = "lock"]
        /\ UNCHANGED <<arrived, tx, owner, index, queued, sent, hazard>>
    BY <1>4, <2>3 DEF HandUp
  <2>5. /\ Len(given') = c + 1 /\ given'[c + 1] = c + 1 /\ given' \in Seq(Nat)
        /\ \A k \in 1 .. c : given'[k] = given[k]
    <3>1. given \in Seq(Nat) /\ c + 1 \in Nat
      BY Counts DEF TypeOK
    <3> QED BY <2>4, <3>1, OneMore
  <2>6. /\ h'.pc = "loop" /\ h'.i = h.i + 1 /\ h'.head = h.head /\ h'.tail = h.tail
        /\ rx'.RDH = rx.RDH /\ rx'.RDT = rx.RDT
    BY <1>1, <2>4 DEF TypeOK
  <2>7. Returned' = Returned
    BY <1>1, <2>5, <2>6, Counts DEF Returned, TypeOK
  <2>8. TypeOK'
    <3>1. pc' \in [Senders -> {"idle", "lock", "wait", "tail"}]
      BY Zenon, <2>4 DEF TypeOK, Senders
    <3>2. rx' \in [RDH : Slots, RDT : Slots, desc : [Slots -> Nat]]
      BY Zenon, <1>4, <2>4 DEF TypeOK, Empty
    <3>3. h' \in [pc : {"idle", "head", "clear", "loop"}, head : Slots, tail : Slots, i : Nat]
      <4>1. h' = [h EXCEPT !.i = h.i + 1]
        BY <2>4
      <4>2. h \in [pc : {"idle", "head", "clear", "loop"}, head : Slots, tail : Slots, i : Nat]
        BY DEF TypeOK
      <4>3. h.i + 1 \in Nat
        BY <4>2
      <4> QED BY <4>1, <4>2, <4>3
    <3> QED BY Zenon, <2>4, <2>5, <3>1, <3>2, <3>3 DEF TypeOK
  <2>9. \A k \in (c + 1) .. (arrived - 1) : rx'.desc[k % N] = k + 1
    <3> TAKE k \in (c + 1) .. (arrived - 1)
    <3>1. c \in Int /\ k \in Int /\ c < k /\ k - c < N /\ k \in c .. (arrived - 1)
      <4>1. arrived - Returned < N /\ Returned <= c
        BY SMTT(30), <1>2, Counts DEF RxRing
      <4> QED BY SMTT(30), <4>1, Counts
    <3>2. c % N # k % N /\ k % N \in Slots
      BY <3>1, OwnPosition, Rounds
    <3> QED BY <1>4, <2>1, <2>4, <3>1, <3>2 DEF TypeOK, RxRing
  <2>10. RxRing'
    <3>1. \A k \in 1 .. Len(given') : given'[k] = k
      <4>1. \A k \in 1 .. c : given[k] = k
        BY DEF RxRing
      <4>2. \A k \in 1 .. (c + 1) : k \in 1 .. c \/ k = c + 1
        BY Counts
      <4> HIDE DEF c
      <4> QED BY <2>5, <4>1, <4>2
    <3> QED BY <2>2, <2>4, <2>5, <2>6, <2>7, <2>9, <3>1 DEF RxRing
  <2>11. Batch'
    <3>1. Len(given') <= seen
      BY <2>2, <2>5, <1>2, Counts
    <3> QED BY <1>2, <2>4, <2>6, <2>7, <3>1 DEF Batch, RxRing
  <2>12. Posted' = Posted /\ \A s \in Senders : pc'[s] \in {"wait", "tail"} => pc'[s] = pc[s]
    <3>1. \A s \in Senders : pc'[s] = pc[s] \/ (pc[s] = "idle" /\ pc'[s] = "lock")
      BY Zenon, <1>1, <2>4 DEF TypeOK, Senders
    <3>2. \A s \in Senders : pc'[s] = "tail" <=> pc[s] = "tail"
      BY <3>1
    <3> QED BY <2>4, <3>1, <3>2 DEF Posted
  <2>13. Locked' /\ TxRing'
    BY <2>4, <2>12 DEF Locked, TxRing
  <2> QED BY <2>8, <2>10, <2>11, <2>13
<1> QED BY <1>3, <1>4

\* The end of a batch: RDT is behind the last packet that was handed up.
LEMMA WriteTailInv ==
  ASSUME RingInv, WriteTail
  PROVE  RingInv'
<1> USE DEF RingInv
<1> DEFINE c == rx_desc_count_to_handle
<1>1. /\ h.pc = "loop" /\ h.i = c
      /\ rx' = [rx EXCEPT !.RDT = (h.tail + c) % N] /\ h' = [h EXCEPT !.pc = "idle"]
      /\ UNCHANGED <<arrived, given, tx, owner, pc, index, queued, sent, hazard>>
  BY DEF WriteTail, txVars
<1>2. PICK seen \in Returned .. arrived :
        /\ h.head = seen % N /\ Len(given) <= seen
        /\ h.tail = (Returned - 1) % N
        /\ c = seen - Returned
        /\ h.i = Len(given) - Returned /\ h.i \in Nat
  BY <1>1, InBatch
<1> HIDE DEF c
<1>3. Len(given) = seen /\ (Returned - 1) + c = Len(given) - 1 /\ Len(given) - 1 \in Int
      /\ Returned - 1 \in Int /\ c \in Int
  BY SMTT(30), <1>1, <1>2, Counts
<1>4. (h.tail + c) % N = (Len(given) - 1) % N /\ (Len(given) - 1) % N \in Slots
  BY <1>2, <1>3, Position, Rounds
<1>5. PICK t \in Slots : t = (Len(given) - 1) % N
  BY <1>4
<1>6. rx' = [rx EXCEPT !.RDT = t]
  BY <1>1, <1>4, <1>5
<1>7. /\ rx' \in [RDH : Slots, RDT : Slots, desc : [Slots -> Nat]]
      /\ rx'.RDH = rx.RDH /\ rx'.RDT = t /\ rx'.desc = rx.desc
  BY Zenon, <1>6 DEF TypeOK
<1>8. TypeOK' /\ h'.pc = "idle"
  BY Zenon, <1>1, <1>7 DEF TypeOK
<1>9. Returned' = Len(given)
  BY <1>1, <1>8, Counts DEF Returned
<1>10. Returned <= Len(given)
  BY SMTT(30), <1>2, Counts
<1>11. RxRing'
  <2>1. /\ rx.RDH = arrived % N /\ arrived - Returned < N /\ Len(given) <= arrived
        /\ \A k \in 1 .. Len(given) : given[k] = k
        /\ \A k \in Len(given) .. (arrived - 1) : rx.desc[k % N] = k + 1
    BY DEF RxRing
  <2>2. arrived - Len(given) < N /\ Len(given) >= 0
    BY SMTT(30), <1>10, <2>1, Counts
  <2> QED BY <1>1, <1>5, <1>7, <1>9, <2>1, <2>2 DEF RxRing
<1>12. Batch'
  BY <1>8 DEF Batch
<1> QED BY <1>1, <1>8, <1>11, <1>12, TxSame

-----------------------------------------------------------------------------
(* The transmit ring.                                                      *)

\* The card sends the packet at TDH, the oldest that was not sent.
LEMMA TransmitInv ==
  ASSUME RingInv, Transmit
  PROVE  RingInv'
<1> USE DEF RingInv
<1> DEFINE c == Len(sent)
<1>1. /\ hazard = None /\ tx.TDH # tx.TDT /\ sent' = Append(sent, tx.desc[tx.TDH])
      /\ tx' = [tx EXCEPT !.DD = @ \cup {tx.TDH}, !.TDH = (tx.TDH + 1) % N]
      /\ UNCHANGED <<rx, h, arrived, given, owner, pc, index, queued, hazard>>
  BY DEF Transmit, rxVars
<1>2. c \in Int /\ c % N \in Slots /\ (c + 1) % N \in Slots /\ (tx.TDH + 1) % N = (c + 1) % N
  <2>1. tx.TDH = c % N /\ c \in Int
    BY Counts DEF TxRing
  <2> QED BY <2>1, Step, Rounds
<1>3. /\ tx.TDH = c % N /\ tx.TDT = Posted % N /\ c <= Posted /\ Posted - c < N
  BY <1>1 DEF TxRing
<1>4. c < Posted /\ c < queued /\ c \in c .. (queued - 1)
  <2>1. c # Posted
    BY <1>1, <1>3
  <2> QED BY SMTT(30), <1>3, <2>1, Counts
<1>5. tx.desc[tx.TDH] = c + 1
  BY <1>3, <1>4 DEF TxRing
<1>6. /\ Len(sent') = c + 1 /\ sent'[c + 1] = c + 1 /\ sent' \in Seq(Nat)
      /\ \A k \in 1 .. c : sent'[k] = sent[k]
  <2>1. sent \in Seq(Nat) /\ c + 1 \in Nat
    BY Counts DEF TypeOK
  <2> QED BY <1>1, <1>5, <2>1, OneMore
<1>7. PICK x \in Slots : x = (c + 1) % N
  BY <1>2
<1>8. tx' = [tx EXCEPT !.DD = @ \cup {tx.TDH}, !.TDH = x]
  BY Zenon, <1>1, <1>2, <1>7
<1>9. /\ tx' \in [TDH : Slots, TDT : Slots, desc : [Slots -> Nat], DD : SUBSET Slots]
      /\ tx'.TDH = x /\ tx'.TDT = tx.TDT /\ tx'.desc = tx.desc
  BY Zenon, <1>8 DEF TypeOK
<1>10. TypeOK'
  BY Zenon, <1>1, <1>6, <1>9 DEF TypeOK
<1>11. Posted' = Posted
  BY <1>1 DEF Posted
<1>12. Locked'
  BY <1>1, <1>9 DEF Locked
<1>13. TxRing'
  <2>1. \A k \in 1 .. Len(sent') : sent'[k] = k
    <3>1. \A k \in 1 .. c : sent[k] = k
      BY DEF TxRing
    <3>2. \A k \in 1 .. (c + 1) : k \in 1 .. c \/ k = c + 1
      BY <1>2
    <3> HIDE DEF c
    <3> QED BY <1>6, <3>1, <3>2
  <2>2. \A k \in (c + 1) .. (queued - 1) : tx.desc[k % N] = k + 1
    <3>1. \A k \in (c + 1) .. (queued - 1) : k \in c .. (queued - 1)
      BY <1>2, Counts
    <3> QED BY <3>1 DEF TxRing
  <2>3. c + 1 <= queued /\ Posted >= c + 1 /\ Posted - (c + 1) < N
    BY SMTT(30), <1>3, <1>4, Counts
  <2> HIDE DEF c
  <2> QED BY <1>1, <1>3, <1>6, <1>7, <1>9, <1>11, <2>1, <2>2, <2>3 DEF TxRing
<1> QED BY <1>1, <1>10, <1>12, <1>13, RxSame

\* A call, and a lock taken or given up, leave the ring alone; the one who takes the lock
\* finds nobody past it.
LEMMA CallInv ==
  ASSUME RingInv, NEW t \in Threads, Call(t)
  PROVE  RingInv'
<1> USE DEF RingInv
<1>1. /\ pc[t] = "idle" /\ pc' = [pc EXCEPT ![t] = "lock"]
      /\ UNCHANGED <<rx, h, arrived, given, tx, owner, index, queued, sent, hazard>>
  BY DEF Call, rxVars
<1>2. TypeOK'
  BY Zenon, <1>1 DEF TypeOK
<1>3. \A s \in Senders : pc'[s] = pc[s] \/ (pc[s] = "idle" /\ pc'[s] = "lock")
  BY <1>1 DEF TypeOK, Senders
<1>4. Posted' = Posted
  <2>1. \A s \in Senders : pc'[s] = "tail" <=> pc[s] = "tail"
    BY <1>3
  <2> QED BY <1>1, <2>1 DEF Posted
<1>5. Locked'
  BY <1>1, <1>3 DEF Locked
<1>6. TxRing'
  BY <1>1, <1>4 DEF TxRing
<1> QED BY <1>1, <1>2, <1>5, <1>6, RxSame

\* A sender obtains the transmit lock.
LEMMA AcquireInv ==
  ASSUME RingInv, NEW s \in Senders, Acquire(s), UNCHANGED rxVars
  PROVE  RingInv'
<1> USE DEF RingInv
<1>1. /\ pc[s] = "lock" /\ UNCHANGED <<rx, h, arrived, given, tx, queued, sent, hazard>>
      /\ \/ /\ owner = None /\ owner' = s /\ index' = [index EXCEPT ![s] = tx.TDT]
            /\ pc' = [pc EXCEPT ![s] = "wait"]
         \/ pc' = [pc EXCEPT ![s] = "idle"] /\ UNCHANGED <<owner, index>>
  BY DEF Acquire, rxVars
<1>2. TypeOK'
  BY Zenon, <1>1 DEF TypeOK
<1>3. Posted' = Posted
  <2>1. \A r \in Senders : pc'[r] = "tail" <=> pc[r] = "tail"
    BY ZenonT(30), <1>1 DEF TypeOK
  <2> QED BY <1>1, <2>1 DEF Posted
<1>4. Locked'
  <2>1. \A r \in Senders : r # s => pc'[r] = pc[r]
    BY Zenon, <1>1 DEF TypeOK
  <2>2. CASE owner = None /\ owner' = s /\ index' = [index EXCEPT ![s] = tx.TDT]
    <3>1. \A r \in Senders : pc[r] \notin {"wait", "tail"}
      BY <2>2, RingAssumption DEF Locked
    <3>2. index'[s] = tx.TDT
      BY <2>2 DEF TypeOK
    <3> QED BY <1>1, <2>1, <2>2, <3>1, <3>2 DEF Locked
  <2>3. CASE pc' = [pc EXCEPT ![s] = "idle"] /\ UNCHANGED <<owner, index>>
    <3>1. pc'[s] = "idle"
      BY <2>3 DEF TypeOK
    <3> QED BY <1>1, <2>1, <2>3, <3>1 DEF Locked
  <2> QED BY <1>1, <2>2, <2>3
<1>5. TxRing'
  BY <1>1, <1>3 DEF TxRing
<1> QED BY <1>1, <1>2, <1>4, <1>5, RxSame

\* The holder fills the descriptor at TDT: the next packet, past all that are in the ring.
LEMMA FillInv ==
  ASSUME RingInv, NEW s \in Senders, hazard = None, Fill(s), UNCHANGED rxVars
  PROVE  RingInv'
<1> USE DEF RingInv
<1> DEFINE c == Len(sent)
<1>1. /\ pc[s] = "wait" /\ queued' = queued + 1 /\ pc' = [pc EXCEPT ![s] = "tail"]
      /\ tx' = [tx EXCEPT !.desc[index[s]] = queued + 1, !.DD = @ \ {index[s]}]
      /\ UNCHANGED <<rx, h, arrived, given, owner, index, sent, hazard>>
  BY DEF Fill, rxVars
<1>2. owner = s /\ index[s] = tx.TDT /\ \A r \in Senders : pc[r] # "tail"
  BY <1>1 DEF Locked
<1>3. Posted = queued
  BY <1>2, Counts DEF Posted
<1>4. Posted' = queued
  <2>1. pc'[s] = "tail"
    BY <1>1 DEF TypeOK
  <2>2. Posted' = queued' - 1
    BY <2>1 DEF Posted
  <2> QED BY <1>1, <2>2, Counts
<1>5. tx.TDT = queued % N /\ queued - c < N /\ c <= queued /\ tx.TDH = c % N
  BY <1>3 DEF TxRing
<1>6. /\ tx' \in [TDH : Slots, TDT : Slots, desc : [Slots -> Nat], DD : SUBSET Slots]
      /\ tx'.TDH = tx.TDH /\ tx'.TDT = tx.TDT
      /\ \A i \in Slots : tx'.desc[i] = IF i = tx.TDT THEN queued + 1 ELSE tx.desc[i]
  <2>1. /\ tx \in [TDH : Slots, TDT : Slots, desc : [Slots -> Nat], DD : SUBSET Slots]
        /\ queued + 1 \in Nat /\ index[s] \in Slots
    <3>1. queued \in Nat /\ index \in [Senders -> Slots]
      BY DEF TypeOK
    <3>2. tx \in [TDH : Slots, TDT : Slots, desc : [Slots -> Nat], DD : SUBSET Slots]
      BY Zenon DEF TypeOK
    <3> QED BY <3>1, <3>2
  <2>2. tx' = [tx EXCEPT !.desc[index[s]] = queued + 1, !.DD = @ \ {index[s]}]
    BY <1>1
  <2> QED BY Zenon, <1>2, <2>1, <2>2
<1>7. TypeOK'
  <2>1. queued' \in Nat /\ pc' \in [Senders -> {"idle", "lock", "wait", "tail"}]
    <3>1. queued' \in Nat
      BY <1>1, Counts
    <3>2. pc' \in [Senders -> {"idle", "lock", "wait", "tail"}]
      BY <1>1 DEF TypeOK
    <3> QED BY <3>1, <3>2
  <2> QED BY Zenon, <1>1, <1>6, <2>1 DEF TypeOK
<1>8. Locked'
  <2>1. \A r \in Senders : r # s => pc'[r] = pc[r]
    BY <1>1 DEF TypeOK
  <2> QED BY <1>1, <1>2, <1>6, <2>1 DEF Locked
<1>9. \A k \in c .. queued : tx'.desc[k % N] = k + 1
  <2> TAKE k \in c .. queued
  <2>1. k \in Int /\ queued \in Int /\ k % N \in Slots
    BY Counts, Rounds
  <2>2. CASE k = queued
    BY <1>5, <1>6, <2>1, <2>2
  <2>3. CASE k < queued
    <3>1. k % N # queued % N
      BY SMTT(30), <1>5, <2>1, <2>3, Counts, OwnPosition
    <3>2. tx.desc[k % N] = k + 1
      BY <2>3, Counts DEF TxRing
    <3> QED BY <1>5, <1>6, <2>1, <3>1, <3>2
  <2> QED BY <2>1, <2>2, <2>3, Counts
<1>10. TxRing'
  <2>1. queued' - 1 = queued /\ c <= queued'
    BY <1>1, <1>5, Counts
  <2>2. \A k \in 1 .. c : sent[k] = k
    BY DEF TxRing
  <2> QED BY <1>1, <1>4, <1>5, <1>6, <1>9, <2>1, <2>2 DEF TxRing
<1> QED BY <1>1, <1>7, <1>8, <1>10, RxSame

\* TDT moves past it; when that meets TDH the ring is full, and looks empty to the card.
LEMMA WriteTdtInv ==
  ASSUME RingInv, NEW s \in Senders, hazard = None, WriteTdt(s), UNCHANGED rxVars
  PROVE  RingInv'
<1> USE DEF RingInv
<1> DEFINE c == Len(sent)
<1>1. /\ pc[s] = "tail" /\ tx' = [tx EXCEPT !.TDT = (index[s] + 1) % N]
      /\ hazard' = IF (index[s] + 1) % N = tx.TDH THEN "full" ELSE None
      /\ owner' = None /\ pc' = [pc EXCEPT ![s] = "idle"]
      /\ UNCHANGED <<rx, h, arrived, given, index, queued, sent>>
  BY DEF WriteTdt, rxVars
<1>2. owner = s /\ index[s] = tx.TDT /\ \A r \in Senders : pc[r] \in {"wait", "tail"} => r = s
  BY <1>1 DEF Locked
<1>3. Posted = queued - 1 /\ queued - 1 \in Int
  BY <1>1, Counts DEF Posted
<1>4. \A r \in Senders : pc'[r] \notin {"wait", "tail"}
  BY <1>1, <1>2 DEF TypeOK
<1>5. Posted' = queued
  <2>1. Posted' = queued' - 0
    BY <1>4 DEF Posted
  <2> QED BY <1>1, <2>1, Counts
<1>6. tx.TDT = (queued - 1) % N /\ queued - 1 - c < N /\ c <= queued - 1 /\ tx.TDH = c % N
  BY <1>3 DEF TxRing
<1>7. (index[s] + 1) % N = queued % N /\ queued % N \in Slots
  <2>1. queued - 1 + 1 = queued /\ queued \in Int
    BY Counts
  <2> QED BY <1>2, <1>3, <1>6, <2>1, Step, Rounds
<1>8. PICK x \in Slots : x = queued % N
  BY <1>7
<1>9. /\ tx' \in [TDH : Slots, TDT : Slots, desc : [Slots -> Nat], DD : SUBSET Slots]
      /\ tx'.TDH = tx.TDH /\ tx'.TDT = x /\ tx'.desc = tx.desc
  <2>1. tx' = [tx EXCEPT !.TDT = x]
    BY <1>1, <1>7, <1>8
  <2> QED BY Zenon, <2>1 DEF TypeOK
<1>10. TypeOK'
  BY Zenon, <1>1, <1>9 DEF TypeOK
<1>11. Locked'
  BY <1>4 DEF Locked
<1>12. hazard' = None => queued - c < N
  <2>1. ASSUME hazard' = None, queued - c = N PROVE FALSE
    <3>1. queued % N # c % N
      BY <1>1, <1>6, <1>7, <2>1 DEF None
    <3>2. c + N = queued /\ c \in Int
      BY <2>1, Counts
    <3> QED BY <3>1, <3>2, Position
  <2> QED BY SMTT(30), <1>6, <2>1, Counts
<1>13. TxRing'
  <2>1. c <= queued
    BY <1>6, Counts
  <2>2. /\ \A k \in 1 .. c : sent[k] = k
        /\ \A k \in c .. (queued - 1) : tx.desc[k % N] = k + 1
    BY DEF TxRing
  <2> QED BY <1>1, <1>5, <1>6, <1>8, <1>9, <1>12, <2>1, <2>2 DEF TxRing
<1> QED BY <1>1, <1>10, <1>11, <1>13, RxSame

-----------------------------------------------------------------------------
\* Both rings keep their counts through every interleaving of the card, the handler and
\* the senders.
THEOREM RingsSound == FairSpec => []RingInv
<1>1. Init => RingInv
  <2> SUFFICES ASSUME Init PROVE RingInv
    OBVIOUS
  <2>1. N \in Int /\ 0 \in Int /\ 0 \in Slots /\ N - 1 \in Slots /\ -1 \in Int
    BY RingAssumption DEF Slots
  <2>2. 0 % N = 0 /\ (-1) % N = N - 1
    <3>1. -1 + N = N - 1 /\ N - 1 \in Int
      BY <2>1
    <3>2. (N - 1) % N = N - 1 /\ (-1 + N) % N = (-1) % N
      BY Zenon, <2>1, <3>1, Position
    <3> QED BY Zenon, <2>1, <3>1, <3>2, Position
  <2>3. TypeOK
    BY <2>1 DEF Init, TypeOK, controller_init_rx, controller_init_tx, Senders, None, Empty
  <2>4. Len(given) = 0 /\ Len(sent) = 0 /\ Returned = 0 /\ Posted = 0
    <3>1. Len(given) = 0 /\ Len(sent) = 0 /\ h.pc = "idle" /\ queued = 0
      BY DEF Init
    <3>2. \A s \in Senders : pc[s] # "tail"
      BY DEF Init
    <3>3. Returned = Len(given) - 0 /\ Posted = queued - 0
      BY <3>1, <3>2, Zenon DEF Returned, Posted
    <3> QED BY <3>1, <3>3
  <2>5. RxRing /\ Batch /\ Locked
    BY <2>1, <2>2, <2>4, RingAssumption DEF Init, RxRing, Batch, Locked, controller_init_rx
  <2>6. TxRing
    BY <2>1, <2>2, <2>4, RingAssumption DEF Init, TxRing, controller_init_tx
  <2> QED BY <2>3, <2>5, <2>6 DEF RingInv
<1>2. RingInv /\ [Next]_vars => RingInv'
  <2> SUFFICES ASSUME RingInv, [Next]_vars PROVE RingInv'
    OBVIOUS
  <2>1. CASE Receive \/ Transmit
    BY <2>1, ReceiveInv, TransmitInv
  <2>2. CASE Handler
    BY <2>2, OnInterruptInv, ReadHeadInv, ClearCauseInv, HandUpInv, WriteTailInv DEF Handler
  <2>3. ASSUME NEW t \in Threads, Call(t) PROVE RingInv'
    BY <2>3, CallInv
  <2>4. ASSUME NEW s \in Senders, Sending(s) PROVE RingInv'
    BY <2>4, AcquireInv, FillInv, WriteTdtInv DEF Sending
  <2>5. CASE UNCHANGED vars
    <3>1. TypeOK'
      BY Zenon, <2>5 DEF vars, RingInv, TypeOK
    <3> QED BY <2>5, <3>1, RxSame, TxSame DEF vars, RingInv
  <2> QED BY <2>1, <2>2, <2>3, <2>4, <2>5 DEF Next, Rest
<1> QED BY <1>1, <1>2, PTL DEF FairSpec

\* Every packet that arrives goes up once and in order, and every packet that is queued
\* goes out once and in order, for every size of the rings, every number of senders and
\* every number of packets.
THEOREM PacketsOnceInOrder == FairSpec => []OnceInOrder
<1>1. RingInv => OnceInOrder
  <2> SUFFICES ASSUME RingInv PROVE OnceInOrder
    OBVIOUS
  <2> USE DEF RingInv
  <2>1. given \in Seq(Nat) /\ sent \in Seq(Nat)
    BY DEF TypeOK
  <2>2. \A k \in 1 .. Len(given) : given[k] = k
    BY DEF RxRing
  <2>3. \A k \in 1 .. Len(sent) : sent[k] = k
    BY DEF TxRing
  <2>4. given = [i \in 1 .. Len(given) |-> i]
    BY <2>1, <2>2
  <2>5. sent = [i \in 1 .. Len(sent) |-> i]
    BY <2>1, <2>3
  <2> QED BY <2>4, <2>5 DEF OnceInOrder, RxRing, TxRing
<1> QED BY <1>1, RingsSound, PTL
=============================================================================

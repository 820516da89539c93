------------------------------- MODULE PCNet32 -------------------------------
(***************************************************************************)
(* The AMD PCnet32 driver of src/netboot/pcnet32.c and the card it drives. *)
(* As for the Tulip, driver and card share the descriptor rings and run    *)
(* concurrently; the OWN bit (bit 15 of the status word, so a negative     *)
(* short) gives a descriptor to the card.  Every transmit descriptor       *)
(* points at the same tx_buff.                                             *)
(*                                                                         *)
(* Abstraction as in TulipNic: a received frame is a member of Frames with *)
(* an error bit, a transmitted frame is the number of the transmit call   *)
(* whose bytes tx_buff held when the card read it.  The ring sizes are    *)
(* constants (16 in pcnet32.c).  pcnet32_init is one step: its register   *)
(* writes and waits only start the card on the rings.                    *)
(***************************************************************************)
EXTENDS Integers, Sequences, SequencesExt

CONSTANTS
  Frames,        \* contents of received frames
  RX_RING_SIZE,  \* receive descriptors
  TX_RING_SIZE,  \* transmit descriptors
  RxErrors,      \* values of the error bit the wire may produce
  MaxArrivals,   \* frames reaching the card, in all
  MaxSends       \* pcnet32_transmit calls, in all

ASSUME RX_RING_SIZE \in Nat \ {0} /\ TX_RING_SIZE \in Nat \ {0}
ASSUME RxErrors \subseteq BOOLEAN /\ RxErrors # {}
ASSUME MaxArrivals \in Nat /\ MaxSends \in Nat

NoFrame == "none"
RxRing == 0 .. RX_RING_SIZE - 1
TxRing == 0 .. TX_RING_SIZE - 1

VARIABLES
  rx_ring,   \* rx_ring[i]: OWN bit, frame in rx_buffers[i], error bit
  cur_rx,    \* next receive descriptor the driver looks at
  tx_ring,   \* tx_ring[i]: OWN bit
  tx_buff,   \* the transmit call whose frame tx_buff holds
  cur_tx,    \* next transmit descriptor the driver fills
  pc,        \* "off", "idle", "poll_copy", "disabled"
  p,         \* pcnet32_poll's p: the descriptor whose buffer it copies
  running,   \* card: started by pcnet32_init, stopped by disable
  devRx,     \* card: receive descriptor it fills next
  devTx,     \* card: transmit descriptor it sends next
  wire,      \* history: frames sent, as transmit call numbers
  delivered, \* history: frames handed to the caller by poll
  ncalls,    \* history: pcnet32_transmit calls so far
  nrx        \* frames that have reached the card

vars == <<rx_ring, cur_rx, tx_ring, tx_buff, cur_tx, pc, p, running,
          devRx, devTx, wire, delivered, ncalls, nrx>>

(* Static storage is zero. *)
Init ==
  /\ rx_ring = [i \in RxRing |-> [own |-> FALSE, frame |-> NoFrame, err |-> FALSE]]
  /\ cur_rx = 0
  /\ tx_ring = [i \in TxRing |-> FALSE]
  /\ tx_buff = 0
  /\ cur_tx = 0
  /\ pc = "off"
  /\ p = 0
  /\ running = FALSE /\ devRx = 0 /\ devTx = 0
  /\ wire = << >> /\ delivered = << >> /\ ncalls = 0 /\ nrx = 0

-----------------------------------------------------------------------------
(* The driver. *)

(***************************************************************************)
(* pcnet32_probe and pcnet32_init (99-198, 270-295): every receive        *)
(* descriptor goes to the card, every transmit status is cleared, the      *)
(* initialisation block names the rings and the card starts at their      *)
(* first entries.  cur_rx and cur_tx are not touched.                     *)
(***************************************************************************)
Probe ==
  /\ pc = "off"
  /\ rx_ring' = [i \in RxRing |-> [rx_ring[i] EXCEPT !.own = TRUE]]
  /\ tx_ring' = [i \in TxRing |-> FALSE]
  /\ running' = TRUE /\ devRx' = 0 /\ devTx' = 0
  /\ pc' = "idle"
  /\ UNCHANGED <<cur_rx, tx_buff, cur_tx, p, wire, delivered, ncalls, nrx>>

(* pcnet32_transmit (200-236): the frame is copied into tx_buff and the *)
(* descriptor cur_tx is given to the card, whoever owns it now.         *)
Transmit ==
  /\ pc = "idle"
  /\ ncalls < MaxSends
  /\ tx_buff' = ncalls + 1
  /\ tx_ring' = [tx_ring EXCEPT ![cur_tx] = TRUE]
  /\ cur_tx' = (cur_tx + 1) % TX_RING_SIZE
  /\ ncalls' = ncalls + 1
  /\ UNCHANGED <<rx_ring, cur_rx, pc, p, running, devRx, devTx, wire, delivered, nrx>>

(* pcnet32_poll (239-257): a descriptor the card has returned is marked *)
(* free and cur_rx advanced, before its buffer is read.                 *)
PollFree ==
  /\ pc = "idle"
  /\ ~rx_ring[cur_rx].own
  /\ p' = cur_rx
  /\ rx_ring' = [rx_ring EXCEPT ![cur_rx].own = TRUE]
  /\ cur_rx' = (cur_rx + 1) % RX_RING_SIZE
  /\ pc' = "poll_copy"
  /\ UNCHANGED <<tx_ring, tx_buff, cur_tx, running, devRx, devTx,
                 wire, delivered, ncalls, nrx>>

(* 259-262: the buffer p points at is copied to the caller. *)
PollCopy ==
  /\ pc = "poll_copy"
  /\ delivered' = Append(delivered, rx_ring[p].frame)
  /\ pc' = "idle"
  /\ UNCHANGED <<rx_ring, cur_rx, tx_ring, tx_buff, cur_tx, p, running,
                 devRx, devTx, wire, ncalls, nrx>>

(* pcnet32_disable (90-96): reset and stop the card. *)
Disable ==
  /\ pc = "idle"
  /\ running' = FALSE
  /\ pc' = "disabled"
  /\ UNCHANGED <<rx_ring, cur_rx, tx_ring, tx_buff, cur_tx, p, devRx, devTx,
                 wire, delivered, ncalls, nrx>>

-----------------------------------------------------------------------------
(* The card. *)

(* A frame arrives: stored in the current receive descriptor if the card *)
(* owns it, which is returned; otherwise it is missed.                   *)
CardReceive ==
  /\ running /\ nrx < MaxArrivals
  /\ \E f \in Frames, e \in RxErrors :
       IF rx_ring[devRx].own
         THEN /\ rx_ring' = [rx_ring EXCEPT ![devRx] =
                               [own |-> FALSE, frame |-> f, err |-> e]]
              /\ devRx' = (devRx + 1) % RX_RING_SIZE
         ELSE UNCHANGED <<rx_ring, devRx>>
  /\ nrx' = nrx + 1
  /\ UNCHANGED <<cur_rx, tx_ring, tx_buff, cur_tx, pc, p, running, devTx,
                 wire, delivered, ncalls>>

(* The card sends the descriptor it owns: the frame is what tx_buff *)
(* holds now; the descriptor is returned.                            *)
CardSend ==
  /\ running /\ tx_ring[devTx]
  /\ wire' = Append(wire, tx_buff)
  /\ tx_ring' = [tx_ring EXCEPT ![devTx] = FALSE]
  /\ devTx' = (devTx + 1) % TX_RING_SIZE
  /\ UNCHANGED <<rx_ring, cur_rx, tx_buff, cur_tx, pc, p, running, devRx,
                 delivered, ncalls, nrx>>

Next ==
  \/ Probe \/ Transmit \/ PollFree \/ PollCopy \/ Disable
  \/ CardReceive \/ CardSend

Spec == Init /\ [][Next]_vars

-----------------------------------------------------------------------------
(* The frames the caller will get, in order: the one poll is copying, *)
(* then the good frames of the run of returned descriptors at cur_rx. *)
Returned(j) == ~rx_ring[(cur_rx + j) % RX_RING_SIZE].own

ReturnedCount == CHOOSE k \in 0 .. RX_RING_SIZE :
                   (\A j \in 0 .. k - 1 : Returned(j)) /\ (k = RX_RING_SIZE \/ ~Returned(k))

Inbox ==
  IF pc = "off" THEN << >>
  ELSE LET copying == IF pc = "poll_copy" THEN <<rx_ring[p]>> ELSE << >>
           run  == copying \o [j \in 1 .. ReturnedCount |->
                                 rx_ring[(cur_rx + j - 1) % RX_RING_SIZE]]
           good == SelectSeq(run, LAMBDA d : ~d.err)
       IN [j \in DOMAIN good |-> good[j].frame]

Channel == INSTANCE NicRx WITH inbox <- Inbox, delivered <- delivered

(***************************************************************************)
(* pcnet32_poll implements the receive channel of NicRx: every good frame *)
(* the card stores is delivered once, intact, in arrival order.          *)
(***************************************************************************)
ImplementsNicRx == Channel!Spec

(***************************************************************************)
(* pcnet32_transmit's frames reach the wire as they were passed, in call *)
(* order: the wire is a prefix of the calls made.                        *)
(***************************************************************************)
TxInCallOrder == wire = [n \in 1 .. Len(wire) |-> n]

=============================================================================

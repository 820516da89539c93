------------------------------- MODULE TulipNic -------------------------------
(***************************************************************************)
(* The DEC Tulip driver of src/netboot/ntulip.c and the card it drives.   *)
(* Driver and card share the descriptors in memory and run concurrently:  *)
(* the card's DMA engine fills receive buffers and sends the transmit     *)
(* descriptor whenever the OWN bit gives a descriptor to it, while the    *)
(* CPU runs the entry points of struct nic (reset, transmit, poll,        *)
(* disable), called one at a time by the boot loader.                     *)
(*                                                                         *)
(* Abstraction.  A received frame is a member of Frames with an error bit *)
(* (the ES bit of the status word); its length and the copy into          *)
(* card->packet are kept as the frame itself.  A transmitted frame is     *)
(* identified by the transmit call that supplied it: ehdr holds the       *)
(* header of call ehdr, and the descriptor's second buffer points at the  *)
(* packet of call txd.call.  The card's register writes (CSR6 Rx and Tx   *)
(* start/stop, CSR3/CSR4 ring bases, CSR0 reset) are the variables rxOn,  *)
(* txOn, devRx and txDev; the media and EEPROM set-up only read data and  *)
(* are left out.  currticks() is not modelled: a wait loop may end on its *)
(* time-out at any moment while the descriptor is still owned.           *)
(***************************************************************************)
EXTENDS Integers, Sequences, SequencesExt

CONSTANTS
  Frames,       \* contents of received frames
  NRXD,         \* receive descriptors (4 in ntulip.c)
  RxErrors,     \* values of the error bit the wire may produce
  MaxArrivals,  \* frames reaching the card, in all
  MaxSends      \* ntulip_transmit calls, in all

ASSUME NRXD \in Nat \ {0} /\ RxErrors \subseteq BOOLEAN /\ RxErrors # {}
ASSUME MaxArrivals \in Nat /\ MaxSends \in Nat

NoFrame == "none"
Ring == 0 .. NRXD - 1

(* The card's transmit engine holds no descriptor. *)
NoTx == [busy |-> FALSE, setup |-> FALSE, call |-> 0]

VARIABLES
  rxd,        \* rxd[i]: OWN bit, frame in rxb[i], ES bit of the status
  rxd_tail,   \* next receive descriptor the driver looks at
  txd,        \* the one transmit descriptor: OWN, setup-frame bit, buf2 call
  ehdr,       \* the transmit call whose header the ehdr buffer holds
  pc,         \* "off", "setup_wait", "idle", "tx_wait", "disabled"
  devRx,      \* card: receive descriptor it fills next
  rxOn,       \* card: receive process started (CSR6 bit 1)
  txOn,       \* card: transmit process started (CSR6 bit 13)
  txDev,      \* card: the transmit descriptor it has fetched
  wire,       \* history: frames sent, as <<header call, packet call>>
  delivered,  \* history: frames handed to the caller by poll
  ncalls,     \* history: ntulip_transmit calls so far
  confirmed,  \* history: calls whose wait saw the descriptor returned
  nrx         \* frames that have reached the card

vars == <<rxd, rxd_tail, txd, ehdr, pc, devRx, rxOn, txOn, txDev,
          wire, delivered, ncalls, confirmed, nrx>>

(* Static storage is zero: every status word, OWN included, is clear. *)
Init ==
  /\ rxd = [i \in Ring |-> [own |-> FALSE, frame |-> NoFrame, err |-> FALSE]]
  /\ rxd_tail = 0
  /\ txd = [own |-> FALSE, setup |-> FALSE, call |-> 0]
  /\ ehdr = 0
  /\ pc = "off"
  /\ devRx = 0 /\ rxOn = FALSE /\ txOn = FALSE /\ txDev = NoTx
  /\ wire = << >> /\ delivered = << >> /\ ncalls = 0 /\ confirmed = {}
  /\ nrx = 0

-----------------------------------------------------------------------------
(* The driver. *)

(* ntulip_init_ring (437-476): the setup frame goes to the card in txd,  *)
(* every receive descriptor is given to the card, rxd_tail = 0.  The     *)
(* receive buffers keep their old bytes.                                 *)
init_ring ==
  /\ txd' = [own |-> TRUE, setup |-> TRUE, call |-> 0]
  /\ rxd' = [i \in Ring |-> [rxd[i] EXCEPT !.own = TRUE]]
  /\ rxd_tail' = 0

(***************************************************************************)
(* ntulip_reset up to its wait loop (478-675): stop Rx and Tx, reset the   *)
(* chip (which abandons a frame in progress), init_ring, point CSR3 at    *)
(* rxd[0] and CSR4 at txd, start Tx so that the setup frame is processed. *)
(***************************************************************************)
ResetCard ==
  /\ init_ring
  /\ devRx' = 0
  /\ txDev' = NoTx
  /\ rxOn' = FALSE
  /\ txOn' = TRUE
  /\ pc' = "setup_wait"
  /\ UNCHANGED <<ehdr, wire, delivered, ncalls, confirmed, nrx>>

(* ntulip_probe (802-866) reads the MAC address and calls ntulip_reset. *)
Probe == pc = "off" /\ ResetCard

(* card->reset, called by the loader between operations. *)
Reset == pc = "idle" /\ ResetCard

(* 676-692: the wait for the setup frame ends, on its return or its time- *)
(* out alike, and the receive process is started.                        *)
SetupWaitEnds ==
  /\ pc = "setup_wait"
  /\ rxOn' = TRUE
  /\ pc' = "idle"
  /\ UNCHANGED <<rxd, rxd_tail, txd, ehdr, devRx, txOn, txDev,
                 wire, delivered, ncalls, confirmed, nrx>>

(* ntulip_transmit up to its wait loop (700-731): stop Tx, write the      *)
(* header into ehdr, point the descriptor at ehdr and the packet, give it *)
(* to the card, start Tx, demand a transmit.                              *)
Transmit ==
  /\ pc = "idle"
  /\ ncalls < MaxSends
  /\ LET k == ncalls + 1 IN
       /\ ehdr' = k
       /\ txd' = [own |-> TRUE, setup |-> FALSE, call |-> k]
       /\ ncalls' = k
  /\ txOn' = TRUE
  /\ pc' = "tx_wait"
  /\ UNCHANGED <<rxd, rxd_tail, devRx, rxOn, txDev, wire, delivered, confirmed, nrx>>

(* 733-740: the wait ends when the card clears OWN or on the time-out;   *)
(* only the message differs.                                              *)
TxWaitEnds ==
  /\ pc = "tx_wait"
  /\ pc' = "idle"
  /\ confirmed' = IF txd.own THEN confirmed ELSE confirmed \cup {ncalls}
  /\ UNCHANGED <<rxd, rxd_tail, txd, ehdr, devRx, rxOn, txOn, txDev,
                 wire, delivered, ncalls, nrx>>

(* The mutant below is a plausible slip in the lines the operator after  *)
(* it translates: the wrap test written as rxd_tail > NRXD.               *)
NextTailLate(t) == IF t + 1 > NRXD THEN 0 ELSE t + 1

(* rxd_tail++; if (rxd_tail == NRXD) rxd_tail = 0; (759-760, 773-774) *)
NextTail(t) == IF t + 1 = NRXD THEN 0 ELSE t + 1

(* rxd[rxd_tail].status = 0x80000000 (758, 772): back to the card. *)
GiveBack(i) == [rxd EXCEPT ![i].own = TRUE]

(* The mutant below is a plausible slip in the lines the action after it *)
(* translates: the error path forgets rxd_tail++.                        *)
PollCrcErrorTailKept ==
  /\ pc = "idle"
  /\ ~rxd[rxd_tail].own /\ rxd[rxd_tail].err
  /\ rxd' = GiveBack(rxd_tail)
  /\ UNCHANGED <<rxd_tail, txd, ehdr, pc, devRx, rxOn, txOn, txDev,
                 wire, delivered, ncalls, confirmed, nrx>>

(* ntulip_poll (745-762): a frame with the error bit is given back. *)
PollCrcError ==
  /\ pc = "idle"
  /\ ~rxd[rxd_tail].own /\ rxd[rxd_tail].err
  /\ rxd' = GiveBack(rxd_tail)
  /\ rxd_tail' = NextTail(rxd_tail)
  /\ UNCHANGED <<txd, ehdr, pc, devRx, rxOn, txOn, txDev,
                 wire, delivered, ncalls, confirmed, nrx>>

(* The mutant below is a plausible slip in the lines the action after it *)
(* translates: the test of the error bit (756) left out.                *)
PollFrameAnyStatus ==
  /\ pc = "idle"
  /\ ~rxd[rxd_tail].own
  /\ delivered' = Append(delivered, rxd[rxd_tail].frame)
  /\ rxd' = GiveBack(rxd_tail)
  /\ rxd_tail' = NextTail(rxd_tail)
  /\ UNCHANGED <<txd, ehdr, pc, devRx, rxOn, txOn, txDev,
                 wire, ncalls, confirmed, nrx>>

(* ntulip_poll (745-777): a good frame is copied to the caller, then its *)
(* descriptor is given back.  The card never writes a descriptor it does *)
(* not own, so the copy and the give-back form one step.                 *)
PollFrame ==
  /\ pc = "idle"
  /\ ~rxd[rxd_tail].own /\ ~rxd[rxd_tail].err
  /\ delivered' = Append(delivered, rxd[rxd_tail].frame)
  /\ rxd' = GiveBack(rxd_tail)
  /\ rxd_tail' = NextTail(rxd_tail)
  /\ UNCHANGED <<txd, ehdr, pc, devRx, rxOn, txOn, txDev,
                 wire, ncalls, confirmed, nrx>>

(* ntulip_disable (782-798): stop the Tx and Rx processes. *)
Disable ==
  /\ pc = "idle"
  /\ rxOn' = FALSE /\ txOn' = FALSE
  /\ pc' = "disabled"
  /\ UNCHANGED <<rxd, rxd_tail, txd, ehdr, devRx, txDev,
                 wire, delivered, ncalls, confirmed, nrx>>

-----------------------------------------------------------------------------
(* The card (DMA engine), as its data book describes the OWN protocol. *)

(* A frame arrives: it is stored in the current descriptor if the card  *)
(* owns it, which is then returned and the card moves on (wrapping at   *)
(* the end-of-ring bit of rxd[NRXD - 1]); otherwise it is missed.       *)
CardReceive ==
  /\ rxOn /\ nrx < MaxArrivals
  /\ \E f \in Frames, e \in RxErrors :
       IF rxd[devRx].own
         THEN /\ rxd' = [rxd EXCEPT ![devRx] = [own |-> FALSE, frame |-> f, err |-> e]]
              /\ devRx' = (devRx + 1) % NRXD
         ELSE UNCHANGED <<rxd, devRx>>
  /\ nrx' = nrx + 1
  /\ UNCHANGED <<rxd_tail, txd, ehdr, pc, rxOn, txOn, txDev,
                 wire, delivered, ncalls, confirmed>>

(* The transmit engine fetches the descriptor it owns. *)
CardFetch ==
  /\ txOn /\ ~txDev.busy /\ txd.own
  /\ txDev' = [busy |-> TRUE, setup |-> txd.setup, call |-> txd.call]
  /\ UNCHANGED <<rxd, rxd_tail, txd, ehdr, pc, devRx, rxOn, txOn,
                 wire, delivered, ncalls, confirmed, nrx>>

(* The frame is sent (a setup frame only loads the address filter): the  *)
(* header is read from ehdr as it is now, the packet from the buffer the *)
(* fetched descriptor named; then the status word, OWN clear, is written *)
(* back into txd.                                                        *)
CardSent ==
  /\ txDev.busy
  /\ wire' = IF txDev.setup THEN wire ELSE Append(wire, <<ehdr, txDev.call>>)
  /\ txd' = [txd EXCEPT !.own = FALSE]
  /\ txDev' = NoTx
  /\ UNCHANGED <<rxd, rxd_tail, ehdr, pc, devRx, rxOn, txOn,
                 delivered, ncalls, confirmed, nrx>>

Next ==
  \/ Probe \/ Reset \/ SetupWaitEnds \/ Transmit \/ TxWaitEnds
  \/ PollCrcError \/ PollFrame \/ Disable
  \/ CardReceive \/ CardFetch \/ CardSent

Spec == Init /\ [][Next]_vars

-----------------------------------------------------------------------------
TypeOK ==
  /\ rxd \in [Ring -> [own : BOOLEAN, frame : Frames \cup {NoFrame}, err : BOOLEAN]]
  /\ rxd_tail \in Ring /\ devRx \in Ring
  /\ txd \in [own : BOOLEAN, setup : BOOLEAN, call : 0 .. MaxSends]
  /\ ehdr \in 0 .. MaxSends
  /\ pc \in {"off", "setup_wait", "idle", "tx_wait", "disabled"}
  /\ rxOn \in BOOLEAN /\ txOn \in BOOLEAN
  /\ txDev \in [busy : BOOLEAN, setup : BOOLEAN, call : 0 .. MaxSends]
  /\ confirmed \subseteq 1 .. MaxSends

(* The descriptor i places after rxd_tail, and whether the driver owns it. *)
After(j) == (rxd_tail + j) % NRXD
Held(j) == ~rxd[After(j)].own

(* The descriptors the driver owns that follow rxd_tail without a gap. *)
HeldCount == CHOOSE k \in 0 .. NRXD :
               (\A j \in 0 .. k - 1 : Held(j)) /\ (k = NRXD \/ ~Held(k))

(***************************************************************************)
(* The receive ring stays in step between driver and card (ntulip_poll,   *)
(* 749-777, against the card's walk of the ring): the descriptors the     *)
(* driver owns are exactly a run starting at rxd_tail, and the card fills *)
(* the one right after that run.  A poll that skips a descriptor, or a   *)
(* reset that rewinds one side only, leaves poll waiting on a descriptor *)
(* the card has not reached while filled ones sit unread.                *)
(***************************************************************************)
RxRingInSync ==
  pc # "off" =>
    /\ \A j \in 0 .. NRXD - 1 : Held(j) => j < HeldCount
    /\ devRx = After(HeldCount)

(* The frames the caller will get, in order: the good ones of that run. *)
Inbox ==
  IF pc = "off" THEN << >>
  ELSE LET run  == [j \in 1 .. HeldCount |-> rxd[After(j - 1)]]
           good == SelectSeq(run, LAMBDA d : ~d.err)
       IN [j \in DOMAIN good |-> good[j].frame]

Channel == INSTANCE NicRx WITH inbox <- Inbox, delivered <- delivered

(***************************************************************************)
(* ntulip_poll implements the receive channel of NicRx under the mapping *)
(* Inbox: every good frame the card stores is delivered once, intact and *)
(* in arrival order, whatever the card does between the driver's steps; *)
(* a reset discards only what the ring held.                            *)
(***************************************************************************)
ImplementsNicRx == Channel!Spec

(***************************************************************************)
(* What ntulip_transmit promises its caller (its wait at 733-740): every  *)
(* frame on the wire is the header and packet of one call, and a call     *)
(* that saw its descriptor returned had its frame sent.                   *)
(***************************************************************************)
TxFramesIntact ==
  /\ \A n \in 1 .. Len(wire) : wire[n][1] = wire[n][2]
  /\ \A k \in confirmed : <<k, k>> \in Range(wire)

=============================================================================

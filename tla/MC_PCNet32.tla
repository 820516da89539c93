----------------------------- MODULE MC_PCNet32 -----------------------------
EXTENDS PCNet32

\* Two frame contents, rings of two descriptors (sixteen in pcnet32.c):
\* three arrivals fill the receive ring and find the next descriptor busy,
\* three transmit calls can run ahead of the card.  A clean link keeps
\* the error bit out of the receive run.
MC_Frames == {"f1", "f2"}
MC_RX_RING_SIZE == 2
MC_TX_RING_SIZE == 2
MC_MaxArrivals == 3
MC_MaxSends == 3
MC_RxErrors == {FALSE}
=============================================================================

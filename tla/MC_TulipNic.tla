----------------------------- MODULE MC_TulipNic -----------------------------
EXTENDS TulipNic

\* Two frame contents tell order and duplication apart.  Three receive
\* descriptors (four in ntulip.c) let the ring wrap and fill while poll
\* lags; four arrivals fill it and overflow it once, with good and bad
\* frames.  Two transmit calls let a late transmit overlap the next one.
MC_Frames == {"f1", "f2"}
MC_NRXD == 3
MC_MaxArrivals == 4
MC_MaxSends == 2

\* Every frame intact (a clean link).
MCClean_RxErrors == {FALSE}
=============================================================================

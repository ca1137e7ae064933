\* Every combination of ihl, doff and protocol with lengths on both sides of
\* each multiple of four.
SPECIFICATION Spec
INVARIANT
    HeadersWithinDatagram

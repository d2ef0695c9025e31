------------------------------ MODULE MCReactor ------------------------------
EXTENDS Reactor
CONSTANTS r1, r2, e1, e2, k1, k2

\* Both reactors take the first key, one of them the second; one debounces.
MCByKey == [k \in Keys |-> IF k = k1 THEN <<r1, r2>> ELSE <<r1>>]
\* The first reactor goes by the envelope's entity, the second by a key of its
\* own that all envelopes share, those of no entity too.
MCEntityKey == [r \in Reactors |-> [e \in Envelope |-> IF r = r1 THEN e.of ELSE e2]]
MCInterval == [r \in Reactors |-> IF r = r1 THEN 2 ELSE 0]
MCHash == [e \in Entities |-> IF e = e1 THEN 0 ELSE Shards - 1]
MCItems == Envelope
==============================================================================

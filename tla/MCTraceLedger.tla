---- MODULE MCTraceLedger ----
EXTENDS TraceLedger
MCBase == {"base"}
MCPair == {"base", "profile"}

\* Four attempts on the base stream reach a full queue, a batch of two, and losses
\* with records after them; one attempt of the profile stream meets each of these.
MCSeq == [s \in Streams |-> IF s = "base" THEN 4 ELSE 1]
====

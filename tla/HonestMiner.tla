----------------------------- MODULE HonestMiner -----------------------------
(***************************************************************************)
(* The handlers of HonestMiner (miner_honest.go) as functions of the block *)
(* table and of the miner's state: its graph and its cache, the list of    *)
(* blocks that came before one of their ancestors.  What the miner hands   *)
(* to the network is the sequence relays of the result.                    *)
(***************************************************************************)
EXTENDS GhostRule, SequencesExt

NewHonestMiner == [graph |-> NewLocalGraph, cache |-> <<>>]

\* The block insert succeeded on at position i of the cache becomes a result
\* of insertCache.  A mutant: the results come out in reverse.
InsertCachedReversed(B, s, i) ==
    [graph   |-> Insert(B, s.graph, s.cache[i]),
     cache   |-> RemoveAt(s.cache, i),
     relays  |-> <<s.cache[i]>> \o s.relays,
     updated |-> TRUE]

InsertCached(B, s, i) ==
    [graph   |-> Insert(B, s.graph, s.cache[i]),
     cache   |-> RemoveAt(s.cache, i),
     relays  |-> Append(s.relays, s.cache[i]),
     updated |-> TRUE]

(***************************************************************************)
(* One scan of the cache.  The scan stops at the first block insert does   *)
(* not fail on: it is removed from the list, and e.Next() of a removed     *)
(* element is nil.  Only a successful insert asks for another scan.        *)
(***************************************************************************)
ScanCache(B, s) ==
    LET hits == {i \in DOMAIN s.cache : InsertResult(B, s.graph, s.cache[i]) # "Fail"}
        i    == CHOOSE j \in hits : \A k \in hits : j <= k
    IN  IF hits = {} THEN [s EXCEPT !.updated = FALSE]
        ELSE IF InsertResult(B, s.graph, s.cache[i]) = "Existing"
        THEN [s EXCEPT !.cache = RemoveAt(@, i), !.updated = FALSE]
        ELSE InsertCached(B, s, i)

\* Scans until one does not update.  Every scan but the last removes a block.
\* A mutant: a single scan.
InsertCacheScanOnce(B, s) == ScanCache(B, s)

InsertCache(B, s) ==
    LET scans[n \in Nat] ==
            IF n = 0 THEN s
            ELSE IF scans[n - 1].updated THEN ScanCache(B, scans[n - 1]) ELSE scans[n - 1]
    IN  scans[Len(s.cache) + 1]

\* insert has succeeded on b, or failed.  Two mutants: b is not relayed, or
\* it is not cached.
ArriveUnrelayed(B, hm, b) ==
    InsertCache(B, [graph |-> Insert(B, hm.graph, b), cache |-> hm.cache,
                    relays |-> <<>>, updated |-> TRUE])

Arrive(B, hm, b) ==
    InsertCache(B, [graph |-> Insert(B, hm.graph, b), cache |-> hm.cache,
                    relays |-> <<b>>, updated |-> TRUE])

PostponeDrop(hm, b) == [graph |-> hm.graph, cache |-> hm.cache, relays |-> <<>>]

Postpone(hm, b) == [graph |-> hm.graph, cache |-> Append(hm.cache, b), relays |-> <<>>]

ReceiveBlock(B, hm, b) ==
    CASE InsertResult(B, hm.graph, b) = "Success" -> Arrive(B, hm, b)
      [] InsertResult(B, hm.graph, b) = "Fail" -> Postpone(hm, b)
      [] OTHER -> [graph |-> hm.graph, cache |-> hm.cache, relays |-> <<>>]

\* GenerateBlock on the table in which fillNewBlock has filled b.
GenerateBlock(B, hm, b) == [hm EXCEPT !.graph = Insert(B, hm.graph, b)]
=============================================================================

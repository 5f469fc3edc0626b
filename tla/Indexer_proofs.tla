---------------------------- MODULE Indexer_proofs ----------------------------
(***************************************************************************)
(* The indexer implements EventMirror and keeps its stored blocks on the   *)
(* history of its cursor, for every chain, batch size, window and number   *)
(* of faults, provided that no block of a batch is replaced between the    *)
(* read of its logs and the read of its last header ("batch" is not in     *)
(* MidBatch; with it neither holds, see the run mid_batch).  The same then *)
(* holds of the store that the indexer shares with the monitor, and what   *)
(* the monitor lists leaves with the accounts that a rollback takes out of *)
(* the index.  What a rollback deletes is argued from the lineage of the   *)
(* blocks the indexer knows.                                               *)
(***************************************************************************)
EXTENDS MonitoredStore, SequenceTheorems, FiniteSetTheorems, WellFoundedInduction, TLAPS

----
(* Histories. *)

\* A prefix of a history is a history with the same elements.
LEMMA Prefix ==
    ASSUME NEW h \in Seq(Content), NEW n \in 0..Len(h)
    PROVE  /\ SubSeq(h, 1, n) \in Seq(Content)
           /\ Len(SubSeq(h, 1, n)) = n
           /\ \A i \in 1..n : SubSeq(h, 1, n)[i] = h[i]
<1>1. Len(h) \in Nat /\ n \in Nat
  BY LenProperties
<1>2. \A i \in 1..n : h[i] \in Content
  BY <1>1, ElementOfSeq
<1> QED BY <1>1, <1>2, SubSeqProperties

\* Ancestors are the prefixes, element by element.
LEMMA AncestorElements ==
    ASSUME NEW g \in Seq(Content), NEW h \in Seq(Content)
    PROVE  IsAncestor(g, h) <=> Len(g) <= Len(h) /\ \A i \in 1..Len(g) : g[i] = h[i]
<1>1. Len(g) \in Nat /\ Len(h) \in Nat
  BY LenProperties
<1>2. CASE Len(g) <= Len(h)
  <2>1. Len(g) \in 0..Len(h)
    BY <1>1, <1>2
  <2>2. /\ SubSeq(h, 1, Len(g)) \in Seq(Content)
        /\ Len(SubSeq(h, 1, Len(g))) = Len(g)
        /\ \A i \in 1..Len(g) : SubSeq(h, 1, Len(g))[i] = h[i]
    BY <2>1, Prefix
  <2>3. ASSUME \A i \in 1..Len(g) : g[i] = h[i] PROVE g = SubSeq(h, 1, Len(g))
    BY <2>2, <2>3, SeqEqual
  <2> QED BY <1>2, <2>2, <2>3 DEF IsAncestor
<1>3. CASE ~(Len(g) <= Len(h))
  BY <1>3 DEF IsAncestor
<1> QED BY <1>2, <1>3

\* Of two ancestors of a history the shorter is an ancestor of the longer.
LEMMA AncestorsOfOne ==
    ASSUME NEW a \in Seq(Content), NEW b \in Seq(Content), NEW h \in Seq(Content),
           IsAncestor(a, h), IsAncestor(b, h), Len(a) <= Len(b)
    PROVE  IsAncestor(a, b)
<1>1. Len(a) \in Nat /\ Len(b) \in Nat /\ Len(h) \in Nat
  BY LenProperties
<1>2. \A i \in 1..Len(a) : a[i] = h[i] /\ i \in 1..Len(b)
  BY <1>1, AncestorElements
<1>3. \A i \in 1..Len(b) : b[i] = h[i]
  BY AncestorElements
<1> QED BY <1>2, <1>3, AncestorElements

LEMMA AncestorTransitive ==
    ASSUME NEW a \in Seq(Content), NEW b \in Seq(Content), NEW h \in Seq(Content),
           IsAncestor(a, b), IsAncestor(b, h)
    PROVE  IsAncestor(a, h)
<1>1. Len(a) \in Nat /\ Len(b) \in Nat /\ Len(h) \in Nat
  BY LenProperties
<1>2. Len(a) <= Len(b) /\ \A i \in 1..Len(a) : a[i] = b[i] /\ i \in 1..Len(b)
  BY <1>1, AncestorElements
<1>3. Len(b) <= Len(h) /\ \A i \in 1..Len(b) : b[i] = h[i]
  BY AncestorElements
<1> QED BY <1>1, <1>2, <1>3, AncestorElements

\* An ancestor of the same length is the history itself.
LEMMA AncestorOfSameLength ==
    ASSUME NEW a \in Seq(Content), NEW h \in Seq(Content), IsAncestor(a, h), Len(a) = Len(h)
    PROVE  a = h
<1>1. \A i \in 1..Len(a) : a[i] = h[i]
  BY AncestorElements
<1> QED BY <1>1, SeqEqual

\* The hash of block n of a chain c stands for the chain up to it.
HashIn(c, n) == IF n \in 1..Len(c) THEN SubSeq(c, 1, n) ELSE Unknown

LEMMA HashProperties ==
    ASSUME NEW c \in Seq(Content), NEW n \in Nat
    PROVE  /\ HashIn(c, n) \in Seq(Content)
           /\ n \in 1..Len(c) =>
                /\ HashIn(c, n) # Unknown /\ Number(HashIn(c, n)) = n /\ IsAncestor(HashIn(c, n), c)
                /\ \A i \in 1..n : HashIn(c, n)[i] = c[i]
           /\ n \notin 1..Len(c) => HashIn(c, n) = Unknown
<1>1. Len(c) \in Nat
  BY LenProperties
<1>2. CASE n \in 1..Len(c)
  <2>1. n \in 0..Len(c)
    BY <1>1, <1>2
  <2>2. /\ SubSeq(c, 1, n) \in Seq(Content)
        /\ Len(SubSeq(c, 1, n)) = n
        /\ \A i \in 1..n : SubSeq(c, 1, n)[i] = c[i]
    BY <2>1, Prefix
  <2>3. HashIn(c, n) = SubSeq(c, 1, n)
    BY <1>2 DEF HashIn
  <2>4. HashIn(c, n) # Unknown
    BY <1>1, <1>2, <2>2, <2>3, EmptySeq DEF Unknown
  <2>5. IsAncestor(HashIn(c, n), c)
    BY <1>1, <1>2, <2>2, <2>3 DEF IsAncestor
  <2> QED BY <1>2, <2>2, <2>3, <2>4, <2>5 DEF Number
<1>3. CASE n \notin 1..Len(c)
  BY <1>3, EmptySeq DEF HashIn, Unknown
<1> QED BY <1>2, <1>3

LEMMA HashesOfChain ==
    \A n : Hash(n) = HashIn(chain, n) /\ Hash(n)' = HashIn(chain', n)
BY DEF Hash, HashIn, Unknown

\* Two chains that agree below block k have the same hashes there.
LEMMA SameHash ==
    ASSUME NEW c \in Seq(Content), NEW b \in Seq(Content), NEW k \in Nat, NEW n \in Nat,
           n < k, k <= Len(c) + 1, k <= Len(b) + 1, \A i \in 1..(k - 1) : b[i] = c[i]
    PROVE  HashIn(b, n) = HashIn(c, n)
<1>1. Len(c) \in Nat /\ Len(b) \in Nat
  BY LenProperties
<1>2. CASE n = 0
  <2>1. n \notin 1..Len(c) /\ n \notin 1..Len(b)
    BY <1>1, <1>2
  <2> QED BY <2>1, HashProperties
<1>3. CASE n # 0
  <2>1. n \in 1..Len(c) /\ n \in 1..Len(b)
    BY <1>1, <1>3
  <2>2. /\ HashIn(c, n) \in Seq(Content) /\ Len(HashIn(c, n)) = n
        /\ \A i \in 1..n : HashIn(c, n)[i] = c[i]
        /\ HashIn(b, n) \in Seq(Content) /\ Len(HashIn(b, n)) = n
        /\ \A i \in 1..n : HashIn(b, n)[i] = b[i]
    BY <2>1, HashProperties DEF Number
  <2>3. \A i \in 1..n : i \in 1..(k - 1)
    BY <1>1
  <2> QED BY <2>2, <2>3, SeqEqual
<1> QED BY <1>2, <1>3

----
(* Events. *)

\* What a history shows, row by row.
LEMMA LogRows ==
    ASSUME NEW h, NEW lo, NEW hi, NEW d, NEW e
    PROVE  e \in Logs(h, lo, hi, d) <=>
             \E n \in lo..hi : n <= Len(h) /\ h[n] \in Watched[d] /\ e = [tx |-> h[n], block |-> n]
BY DEF Logs

\* The events of an ancestor are those of its blocks.
LEMMA EventsOfAncestor ==
    ASSUME NEW g \in Seq(Content), NEW h \in Seq(Content), NEW d, IsAncestor(g, h)
    PROVE  EventsOf(g, d) = {e \in EventsOf(h, d) : e.block <= Number(g)}
<1>1. Len(g) \in Nat /\ Len(h) \in Nat
  BY LenProperties
<1>2. Len(g) <= Len(h) /\ \A i \in 1..Len(g) : g[i] = h[i]
  BY AncestorElements
<1>3. ASSUME NEW e \in EventsOf(g, d) PROVE e \in EventsOf(h, d) /\ e.block <= Len(g)
  <2>1. PICK n \in 1..Len(g) : g[n] \in Watched[d] /\ e = [tx |-> g[n], block |-> n]
    BY <1>3, LogRows DEF EventsOf
  <2>2. n \in 1..Len(h) /\ n <= Len(h) /\ n <= Len(g) /\ g[n] = h[n]
    BY <1>1, <1>2
  <2> QED BY <2>1, <2>2, LogRows DEF EventsOf
<1>4. ASSUME NEW e \in EventsOf(h, d), e.block <= Len(g) PROVE e \in EventsOf(g, d)
  <2>1. PICK n \in 1..Len(h) : h[n] \in Watched[d] /\ e = [tx |-> h[n], block |-> n]
    BY <1>4, LogRows DEF EventsOf
  <2>2. n \in 1..Len(g) /\ n <= Len(g) /\ g[n] = h[n]
    BY <1>1, <1>2, <1>4, <2>1
  <2> QED BY <2>1, <2>2, LogRows DEF EventsOf
<1> QED BY <1>3, <1>4 DEF Number

\* Inserting the logs of the blocks above an ancestor gives the events of the
\* history: no transaction occurs twice in it, so nothing new is taken for old.
LEMMA EventsOfExtension ==
    ASSUME NEW g \in Seq(Content), NEW h \in Seq(Content), NEW d \in Deployment,
           IsAncestor(g, h), Distinct(h)
    PROVE  insert(EventsOf(g, d), Logs(h, Number(g) + 1, Len(h), d)) = EventsOf(h, d)
<1> DEFINE new == Logs(h, Number(g) + 1, Len(h), d)
<1>1. Len(g) \in Nat /\ Len(h) \in Nat
  BY LenProperties
<1>2. Len(g) <= Len(h) /\ \A i \in 1..Len(g) : g[i] = h[i]
  BY AncestorElements
<1>3. EventsOf(g, d) = {e \in EventsOf(h, d) : e.block <= Len(g)}
  BY EventsOfAncestor DEF Number
<1>4. Watched[d] \subseteq Tx
  BY IndexerAssumption DEF IndexerAssumption
<1>5. ASSUME NEW e \in new PROVE e \in EventsOf(h, d) /\ ~(e.block <= Len(g))
  <2>1. PICK n \in (Len(g) + 1)..Len(h) : h[n] \in Watched[d] /\ e = [tx |-> h[n], block |-> n]
    BY <1>5, LogRows DEF Number
  <2>2. n \in 1..Len(h) /\ n <= Len(h) /\ ~(n <= Len(g))
    BY <1>1
  <2> QED BY <2>1, <2>2, LogRows DEF EventsOf
<1>6. ASSUME NEW e \in new, NEW old \in EventsOf(g, d) PROVE old.tx # e.tx
  <2>1. PICK n \in (Len(g) + 1)..Len(h) : h[n] \in Watched[d] /\ e = [tx |-> h[n], block |-> n]
    BY <1>6, LogRows DEF Number
  <2>2. PICK m \in 1..Len(g) : g[m] \in Watched[d] /\ old = [tx |-> g[m], block |-> m]
    BY <1>6, LogRows DEF EventsOf
  <2>3. m \in 1..Len(h) /\ n \in 1..Len(h) /\ m # n /\ h[m] = g[m] /\ h[m] \in Tx
    BY <1>1, <1>2, <1>4, <2>1, <2>2
  <2>4. h[m] # h[n]
    BY <2>3 DEF Distinct
  <2> QED BY <2>1, <2>2, <2>3, <2>4
<1>7. ASSUME NEW e \in EventsOf(h, d) PROVE e \in EventsOf(g, d) \/ e \in new
  <2>1. PICK n \in 1..Len(h) : h[n] \in Watched[d] /\ e = [tx |-> h[n], block |-> n]
    BY <1>7, LogRows DEF EventsOf
  <2>2. CASE n <= Len(g)
    BY <1>3, <2>1, <2>2
  <2>3. CASE ~(n <= Len(g))
    <3>1. n \in (Len(g) + 1)..Len(h) /\ n <= Len(h)
      BY <1>1, <2>3
    <3> QED BY <2>1, <3>1, LogRows DEF Number
  <2> QED BY <2>2, <2>3
<1>8. insert(EventsOf(g, d), new) = EventsOf(g, d) \cup new
  BY <1>6 DEF insert
<1> QED BY <1>3, <1>5, <1>7, <1>8

----
(* The invariant. *)

Tick ==
    [cursor : Seq(Content), to : Nat, source : Seq(Content),
     headers : SUBSET Seq(Content), left : SUBSET Seq(Content)]

Sound ==
    /\ chain \in Seq(Content) /\ Distinct(chain)
    /\ deployment \in Deployment /\ deploymentKey \in SUBSET Deployment
    /\ cursor \in Seq(Content) /\ blocks \subseteq Seq(Content) \ {Unknown}
    /\ tick \in Tick

\* The store shows the history of the cursor for the deployment it is keyed to.
StoreMirrors ==
    \/ deploymentKey = {} /\ cursor = Unknown /\ events = {}
    \/ \E d \in Deployment : deploymentKey = {d} /\ events = EventsOf(cursor, d)

\* The cursor block that the tick started from is still on the chain.
OnChain == Hash(Number(tick.cursor)) = tick.cursor

\* What a batch must be when it is written: the logs and the headers of one
\* history, that follows the cursor and ends with the batch.
BatchOfOneHistory ==
    /\ Number(tick.source) = tick.to /\ IsAncestor(tick.cursor, tick.source)
    /\ Distinct(tick.source) /\ tick.source \in tick.headers
    /\ \A h \in tick.headers : h # Unknown /\ IsAncestor(h, tick.source)
    /\ \A n \in Numbers : \E h \in tick.headers : Number(h) = n

\* The batch while its headers are read: as long as the cursor is on the chain, so
\* are the logs and every header read, because a replacement below the batch
\* replaces the cursor block as well.
BatchOnChain ==
    /\ tick.source = SubSeq(chain, 1, Lesser(tick.to, Len(chain)))
    /\ \A h \in tick.headers : h # Unknown /\ h = Hash(Number(h))

\* What the process knows at each of its steps.
TickSound ==
    /\ pc # "init" => deploymentKey \subseteq {deployment}
    /\ pc \notin {"init", "tick"} => tick.cursor = cursor
    /\ pc \in {"verify", "head", "logs"} => tick.headers = {}
    /\ pc \in {"probe", "rollback"} => tick.left \subseteq blocks
    /\ pc = "rollback" => tick.left # {}
    /\ pc \in {"logs", "headers", "recheck", "commit"} => Number(tick.cursor) < tick.to
    /\ pc = "headers" => /\ OnChain => BatchOnChain
                         /\ \A h \in tick.headers : Number(h) \in Numbers
                         /\ \E n \in Numbers : \A h \in tick.headers : Number(h) # n
    /\ pc = "recheck" /\ OnChain => BatchOfOneHistory
    /\ pc = "commit" => BatchOfOneHistory

IndexerInv == Sound /\ StoredBlocksOfCursor /\ StoreMirrors /\ TickSound

----
(* The chain. *)

\* Block k is replaced or added, and everything above it.
ChainChange(k) ==
    /\ k \in 1..(Len(chain) + 1) /\ MayChange(k)
    /\ chain' \in Seq(Content) /\ Distinct(chain') /\ k <= Len(chain') + 1
    /\ \A n \in 1..(k - 1) : chain'[n] = chain[n]
    /\ k <= Len(chain) => k <= Len(chain') /\ chain'[k] # chain[k]

LEMMA NewBlockChanges ==
    ASSUME Sound, NewBlock
    PROVE  ChainChange(Len(chain) + 1)
<1>1. PICK c \in Content : chain' = Append(chain, c) /\ Distinct(chain')
  BY DEF NewBlock
<1>2. chain \in Seq(Content) /\ Len(chain) \in Nat
  BY LenProperties DEF Sound
<1>3. /\ chain' \in Seq(Content) /\ Len(chain') = Len(chain) + 1
      /\ \A n \in 1..Len(chain) : chain'[n] = chain[n]
  BY <1>1, <1>2, AppendProperties
<1>4. MayChange(Len(chain) + 1)
  BY DEF NewBlock
<1> QED BY <1>1, <1>2, <1>3, <1>4 DEF ChainChange

LEMMA ReorgChanges ==
    ASSUME Sound, Reorg
    PROVE  \E k \in Nat : ChainChange(k)
<1>a. PICK k \in 1..Len(chain) : \E len \in k..MaxHeight : \E tail \in [k..len -> Content] :
         /\ tail[k] # chain[k]
         /\ chain' = [n \in 1..len |-> IF n < k THEN chain[n] ELSE tail[n]]
         /\ Distinct(chain') /\ MayChange(k)
  BY DEF Reorg
<1>b. PICK len \in k..MaxHeight : \E tail \in [k..len -> Content] :
         /\ tail[k] # chain[k]
         /\ chain' = [n \in 1..len |-> IF n < k THEN chain[n] ELSE tail[n]]
         /\ Distinct(chain') /\ MayChange(k)
  BY <1>a
<1>1. PICK tail \in [k..len -> Content] :
         /\ tail[k] # chain[k]
         /\ chain' = [n \in 1..len |-> IF n < k THEN chain[n] ELSE tail[n]]
         /\ Distinct(chain') /\ MayChange(k)
  BY <1>b
<1>2. chain \in Seq(Content) /\ Len(chain) \in Nat
  BY LenProperties DEF Sound
<1>3. k \in Nat /\ len \in Nat /\ k <= len /\ 1 <= k
  BY <1>2, IndexerAssumption DEF IndexerAssumption
<1>4. \A n \in 1..len : (IF n < k THEN chain[n] ELSE tail[n]) \in Content
  <2> SUFFICES ASSUME NEW n \in 1..len PROVE (IF n < k THEN chain[n] ELSE tail[n]) \in Content
    OBVIOUS
  <2>1. n < k => chain[n] \in Content
    <3>1. n < k => n \in 1..Len(chain)
      BY <1>2, <1>3
    <3> QED BY <1>2, <3>1, ElementOfSeq
  <2>2. ~(n < k) => n \in k..len
    BY <1>3
  <2> QED BY <2>1, <2>2
<1>5. chain' \in [1..len -> Content]
  BY <1>1, <1>4
<1>6. chain' \in Seq(Content) /\ Len(chain') = len
  BY <1>3, <1>5, SeqDef, LenProperties
<1>7. \A n \in 1..(k - 1) : chain'[n] = chain[n]
  BY <1>1, <1>3
<1>8. chain'[k] # chain[k]
  BY <1>1, <1>3
<1> QED BY <1>1, <1>2, <1>3, <1>6, <1>7, <1>8 DEF ChainChange

\* The headers a batch asks for are of its blocks.
LEMMA NumbersInBatch ==
    ASSUME Sound, Number(tick.cursor) < tick.to
    PROVE  Numbers \subseteq From..tick.to
<1>1. tick.cursor \in Seq(Content) /\ tick.to \in Nat /\ Len(tick.cursor) \in Nat
  BY LenProperties DEF Sound, Tick
<1>2. \A e \in BatchEvents : e.block \in From..tick.to
  BY LogRows DEF BatchEvents
<1>3. tick.to \in From..tick.to
  BY <1>1 DEF From, Number
<1> QED BY <1>2, <1>3 DEF Numbers

\* A change of the chain breaks nothing: while headers are read it either is above
\* the batch, or replaces the cursor block.
LEMMA ChainChangeKeeps ==
    ASSUME "batch" \notin MidBatch, IndexerInv, NEW k \in Nat, ChainChange(k),
           UNCHANGED <<deployment, store, pc, tick>>
    PROVE  IndexerInv'
<1> USE DEF IndexerInv
<1> DEFINE n == Len(tick.cursor)
<1>1. /\ chain \in Seq(Content) /\ chain' \in Seq(Content) /\ tick \in Tick
      /\ Len(chain) \in Nat /\ Len(chain') \in Nat
      /\ 1 <= k /\ k <= Len(chain) + 1 /\ k <= Len(chain') + 1
  BY LenProperties DEF Sound, ChainChange
<1>2. /\ tick.cursor \in Seq(Content) /\ n \in Nat /\ tick.to \in Nat
      /\ tick.headers \in SUBSET Seq(Content)
  BY <1>1, LenProperties DEF Tick
<1>3. Sound'
  BY DEF Sound, Distinct, ChainChange, store
<1>4. StoredBlocksOfCursor'
  BY DEF StoredBlocksOfCursor, store
<1>5. StoreMirrors'
  BY DEF StoreMirrors, store
<1>6. Numbers' = Numbers
  BY DEF Numbers, BatchEvents, From
<1>7. ASSUME pc \in {"headers", "recheck"}, OnChain' PROVE OnChain /\ n < k
  <2>1. HashIn(chain', n) = tick.cursor
    BY <1>7, HashesOfChain DEF OnChain, Number
  <2>2. CASE n < k
    <3>1. HashIn(chain', n) = HashIn(chain, n)
      BY <1>1, <1>2, <2>2, SameHash DEF ChainChange
    <3> QED BY <2>1, <2>2, <3>1, HashesOfChain DEF OnChain, Number
  <2>3. CASE ~(n < k)
    <3>1. HashIn(chain, n) = tick.cursor
      BY <1>1, <1>2, <1>7, <2>3, HashesOfChain DEF ChainChange, MayChange, Number
    <3>2. tick.cursor # Unknown
      BY <1>1, <1>2, <2>3, EmptySeq DEF Unknown
    <3>3. n \in 1..Len(chain) /\ n \in 1..Len(chain')
      BY <1>1, <1>2, <2>1, <3>1, <3>2, HashProperties
    <3>4. k \in 1..n
      BY <1>1, <1>2, <2>3
    <3>5. tick.cursor[k] = chain[k] /\ tick.cursor[k] = chain'[k]
      <4>1. \A i \in 1..n : HashIn(chain, n)[i] = chain[i]
        BY <1>1, <1>2, <3>3, HashProperties
      <4>2. \A i \in 1..n : HashIn(chain', n)[i] = chain'[i]
        BY <1>1, <1>2, <3>3, HashProperties
      <4> HIDE DEF n
      <4> QED BY <2>1, <3>1, <3>4, <4>1, <4>2
    <3>6. chain'[k] # chain[k]
      BY <1>1, <1>2, <3>3, <3>4 DEF ChainChange
    <3> QED BY <3>5, <3>6
  <2> QED BY <2>2, <2>3
<1>8. ASSUME pc = "headers", OnChain' PROVE BatchOnChain'
  <2>1. OnChain /\ n < k
    BY <1>7, <1>8
  <2>2. BatchOnChain /\ \A h \in tick.headers : Number(h) \in Numbers
    BY <1>8, <2>1 DEF TickSound
  <2>3. n < tick.to
    BY <1>8 DEF TickSound, Number
  <2>4. tick.to < k
    BY <1>1, <1>2, <1>8, <2>1 DEF ChainChange, MayChange, Number
  <2>5. tick.to <= Len(chain) /\ tick.to <= Len(chain')
    BY <1>1, <1>2, <2>4
  <2>6. Lesser(tick.to, Len(chain)) = tick.to /\ Lesser(tick.to, Len(chain')) = tick.to
    BY <1>1, <1>2, <2>5 DEF Lesser
  <2>7. tick.to \in 1..Len(chain) /\ tick.to \in 1..Len(chain')
    BY <1>1, <1>2, <2>3, <2>5
  <2>8. SubSeq(chain', 1, tick.to) = SubSeq(chain, 1, tick.to)
    <3>1. HashIn(chain', tick.to) = HashIn(chain, tick.to)
      BY <1>1, <1>2, <2>4, SameHash DEF ChainChange
    <3> QED BY <2>7, <3>1 DEF HashIn
  <2>9. ASSUME NEW h \in tick.headers PROVE h # Unknown /\ h = HashIn(chain', Number(h))
    <3>1. Number(h) \in Nat /\ Number(h) < k
      <4>1. Number(h) \in From..tick.to
        BY <2>2, <2>3, NumbersInBatch DEF Number
      <4> QED BY <1>1, <1>2, <2>4, <4>1 DEF From, Number
    <3>2. h = HashIn(chain, Number(h)) /\ h # Unknown
      BY <2>2, HashesOfChain DEF BatchOnChain
    <3>3. HashIn(chain', Number(h)) = HashIn(chain, Number(h))
      BY <1>1, <3>1, SameHash DEF ChainChange
    <3> QED BY <3>2, <3>3
  <2> QED BY <2>2, <2>6, <2>8, <2>9, HashesOfChain DEF BatchOnChain, Number
<1>9. TickSound'
  <2>1. /\ tick' = tick /\ pc' = pc /\ cursor' = cursor /\ blocks' = blocks
        /\ deploymentKey' = deploymentKey /\ deployment' = deployment
    BY DEF store
  <2>2. BatchOfOneHistory' = BatchOfOneHistory
    BY <1>6, <2>1 DEF BatchOfOneHistory, Distinct
  <2>3. pc = "recheck" /\ OnChain' => BatchOfOneHistory
    BY <1>7 DEF TickSound
  <2> QED BY <1>6, <1>8, <2>1, <2>2, <2>3 DEF TickSound
<1> QED BY <1>3, <1>4, <1>5, <1>9

----
(* Faults, and the steps that only read. *)

LEMMA IdleSound == Idle \in Tick /\ Unknown \in Seq(Content) /\ Number(Unknown) = 0
BY EmptySeq DEF Idle, Tick, Unknown, Number

\* A step that leaves the chain and the store alone only has to keep TickSound.
LEMMA StoreKept ==
    ASSUME IndexerInv, UNCHANGED <<chain, deployment, store>>, tick' \in Tick
    PROVE  Sound' /\ StoredBlocksOfCursor' /\ StoreMirrors'
<1>1. Sound'
  BY DEF IndexerInv, Sound, Distinct, store
<1>2. StoredBlocksOfCursor'
  BY DEF IndexerInv, StoredBlocksOfCursor, store
<1>3. StoreMirrors'
  BY DEF IndexerInv, StoreMirrors, store
<1> QED BY <1>1, <1>2, <1>3

LEMMA InitSound == Init => IndexerInv
<1> SUFFICES ASSUME Init PROVE IndexerInv
  OBVIOUS
<1>1. Sound
  BY IdleSound, EmptySeq DEF Init, Sound, Distinct, Unknown
<1>2. StoredBlocksOfCursor /\ StoreMirrors /\ TickSound
  BY DEF Init, StoredBlocksOfCursor, StoreMirrors, TickSound
<1> QED BY <1>1, <1>2 DEF IndexerInv

\* A step that ends the tick.
LEMMA TickEnds ==
    ASSUME IndexerInv, UNCHANGED <<chain, deployment, store>>, tick' = Idle,
           pc' \in {"tick", "init"}, pc # "init"
    PROVE  IndexerInv'
<1>1. Sound' /\ StoredBlocksOfCursor' /\ StoreMirrors'
  BY StoreKept, IdleSound
<1>2. TickSound'
  BY DEF IndexerInv, TickSound, store
<1> QED BY <1>1, <1>2 DEF IndexerInv

LEMMA RedeployKeeps ==
    ASSUME IndexerInv, Redeploy
    PROVE  IndexerInv'
<1>1. Sound'
  BY IdleSound DEF IndexerInv, Redeploy, Sound, Distinct, store
<1>2. StoredBlocksOfCursor' /\ StoreMirrors'
  BY DEF IndexerInv, Redeploy, StoredBlocksOfCursor, StoreMirrors, store
<1>3. TickSound'
  BY DEF Redeploy, TickSound
<1> QED BY <1>1, <1>2, <1>3 DEF IndexerInv

LEMMA AbandonKeeps ==
    ASSUME IndexerInv, Abandon
    PROVE  IndexerInv'
BY TickEnds DEF Abandon

LEMMA readCursorKeeps ==
    ASSUME IndexerInv, readCursor
    PROVE  IndexerInv'
<1>1. tick' = [Idle EXCEPT !.cursor = cursor] /\ pc' \in {"head", "verify"} /\ pc = "tick"
  BY DEF readCursor, Goto
<1>2. tick' \in Tick /\ tick'.cursor = cursor /\ tick'.headers = {}
  BY <1>1, IdleSound DEF IndexerInv, Sound, Tick, Idle
<1>3. UNCHANGED <<chain, deployment, store>>
  BY DEF readCursor, Goto
<1>4. Sound' /\ StoredBlocksOfCursor' /\ StoreMirrors'
  BY <1>2, <1>3, StoreKept
<1>5. TickSound'
  BY <1>1, <1>2, <1>3 DEF IndexerInv, TickSound, store
<1> QED BY <1>4, <1>5 DEF IndexerInv

LEMMA verifyCursorKeeps ==
    ASSUME IndexerInv, verifyCursor
    PROVE  IndexerInv'
<1>1. /\ UNCHANGED <<chain, deployment, store>> /\ pc = "verify"
      /\ \/ pc' = "head" /\ tick' = tick
         \/ pc' = "probe" /\ tick' = [tick EXCEPT !.left = Window]
  BY DEF verifyCursor, Goto
<1>2. Window \subseteq blocks /\ blocks \subseteq Seq(Content) /\ tick \in Tick
  BY DEF Window, IndexerInv, Sound
<1>3. /\ tick' \in Tick /\ tick'.cursor = tick.cursor /\ tick'.headers = tick.headers
      /\ pc' = "probe" => tick'.left \subseteq blocks
  BY <1>1, <1>2 DEF Tick
<1>4. Sound' /\ StoredBlocksOfCursor' /\ StoreMirrors'
  BY <1>1, <1>3, StoreKept
<1>5. TickSound'
  BY <1>1, <1>3 DEF IndexerInv, TickSound, store
<1> QED BY <1>4, <1>5 DEF IndexerInv

LEMMA readHeadKeeps ==
    ASSUME IndexerInv, readHead
    PROVE  IndexerInv'
<1>1. UNCHANGED <<chain, deployment, store>> /\ pc = "head"
  BY DEF readHead, Goto, NextTick
<1>2. CASE Len(chain) < From + confirmations
  BY <1>1, <1>2, TickEnds DEF readHead, Goto, NextTick
<1>3. CASE ~(Len(chain) < From + confirmations)
  <2>1. pc' = "logs" /\ tick' = [tick EXCEPT !.to = BatchEnd]
    BY <1>3 DEF readHead, Goto
  <2>2. tick \in Tick /\ Len(tick.cursor) \in Nat /\ Len(chain) \in Nat
    BY LenProperties DEF IndexerInv, Sound, Tick
  <2>3. BatchEnd \in Nat /\ Len(tick.cursor) < BatchEnd
    <3>1. confirmations \in Nat /\ batchSize \in Nat /\ 1 <= batchSize
      BY IndexerAssumption DEF IndexerAssumption
    <3>2. From = Len(tick.cursor) + 1 /\ From + confirmations <= Len(chain)
      BY <1>3, <2>2, <3>1 DEF From, Number
    <3>3. BatchEnd = From + batchSize - 1 \/ BatchEnd = Len(chain) - confirmations
      BY DEF BatchEnd, Lesser
    <3> HIDE DEF From, BatchEnd
    <3> QED BY <2>2, <3>1, <3>2, <3>3
  <2>4. /\ tick' \in Tick /\ tick'.cursor = tick.cursor /\ tick'.headers = tick.headers
        /\ tick'.to = BatchEnd
    BY <2>1, <2>2, <2>3 DEF Tick
  <2>5. Sound' /\ StoredBlocksOfCursor' /\ StoreMirrors'
    BY <1>1, <2>4, StoreKept
  <2>6. TickSound'
    BY <1>1, <2>1, <2>3, <2>4 DEF IndexerInv, TickSound, store, Number
  <2> QED BY <2>5, <2>6 DEF IndexerInv
<1> QED BY <1>2, <1>3

LEMMA getLogsKeeps ==
    ASSUME IndexerInv, getLogs
    PROVE  IndexerInv'
<1>1. /\ UNCHANGED <<chain, deployment, store>> /\ pc = "logs" /\ pc' = "headers"
      /\ tick' = [tick EXCEPT !.source = SubSeq(chain, 1, Lesser(tick.to, Len(chain)))]
  BY DEF getLogs, Goto
<1>2. tick \in Tick /\ chain \in Seq(Content) /\ Len(chain) \in Nat /\ tick.to \in Nat
  BY LenProperties DEF IndexerInv, Sound, Tick
<1>3. SubSeq(chain, 1, Lesser(tick.to, Len(chain))) \in Seq(Content)
  <2>1. Lesser(tick.to, Len(chain)) \in 0..Len(chain)
    BY <1>2 DEF Lesser
  <2> QED BY <1>2, <2>1, Prefix
<1>4. /\ tick' \in Tick /\ tick'.cursor = tick.cursor /\ tick'.headers = tick.headers
      /\ tick'.to = tick.to /\ tick'.source = SubSeq(chain, 1, Lesser(tick.to, Len(chain)))
  BY <1>1, <1>2, <1>3 DEF Tick
<1>5. Sound' /\ StoredBlocksOfCursor' /\ StoreMirrors'
  BY <1>1, <1>4, StoreKept
<1>6. tick'.headers = {}
  BY <1>1, <1>4 DEF IndexerInv, TickSound
<1>7. BatchOnChain' /\ \E n \in Numbers' : TRUE
  BY <1>1, <1>4, <1>6 DEF BatchOnChain, Numbers
<1>8. TickSound'
  BY <1>1, <1>4, <1>6, <1>7 DEF IndexerInv, TickSound, store
<1> QED BY <1>5, <1>8 DEF IndexerInv

LEMMA recheckCursorKeeps ==
    ASSUME IndexerInv, recheckCursor
    PROVE  IndexerInv'
<1>1. UNCHANGED <<chain, deployment, store>> /\ pc = "recheck"
  BY DEF recheckCursor, Goto, NextTick
<1>2. \/ pc' = "tick" /\ tick' = Idle
      \/ pc' = "commit" /\ tick' = tick /\ tick.cursor \in {Unknown, Hash(Number(tick.cursor))}
  BY DEF recheckCursor, Goto, NextTick
<1>3. CASE pc' = "tick" /\ tick' = Idle
  BY <1>1, <1>3, TickEnds
<1>4. CASE pc' = "commit" /\ tick' = tick /\ tick.cursor \in {Unknown, Hash(Number(tick.cursor))}
  <2>1. OnChain
    <3>1. chain \in Seq(Content) /\ Len(chain) \in Nat
      BY LenProperties DEF IndexerInv, Sound
    <3>2. Hash(0) = Unknown
      BY <3>1, HashProperties, HashesOfChain
    <3> QED BY <1>4, <3>2, IdleSound DEF OnChain
  <2>2. BatchOfOneHistory'
    BY <1>1, <1>4, <2>1
       DEF IndexerInv, TickSound, BatchOfOneHistory, Distinct, Numbers, BatchEvents, From
  <2>3. Sound' /\ StoredBlocksOfCursor' /\ StoreMirrors'
    BY <1>1, <1>4, StoreKept DEF IndexerInv, Sound
  <2>4. TickSound'
    BY <1>1, <1>4, <2>2 DEF IndexerInv, TickSound, store
  <2> QED BY <2>3, <2>4 DEF IndexerInv
<1> QED BY <1>2, <1>3, <1>4

----
(* Reading the headers. *)

\* A nonempty set of naturals has a least element, and a greatest one if bounded.
LEMMA LeastNumber ==
    ASSUME NEW T \in SUBSET Nat, T # {}
    PROVE  \E x \in T : \A y \in T : x <= y
<1>1. PICK x \in T : \A y \in T : ~(<<y, x>> \in OpToRel(<, Nat))
  BY NatLessThanWellFounded, WFMin
<1>2. ASSUME NEW y \in T PROVE x <= y
  <2>1. x \in Nat /\ y \in Nat
    OBVIOUS
  <2>2. ASSUME y < x PROVE <<y, x>> \in OpToRel(<, Nat)
    <3>1. <<y, x>> \in Nat \X Nat /\ <<y, x>>[1] = y /\ <<y, x>>[2] = x
      BY <2>1
    <3> QED BY <2>1, <2>2, <3>1, Zenon DEF OpToRel
  <2>3. ~(y < x)
    BY <1>1, <2>2, Zenon
  <2> QED BY <2>1, <2>3
<1> QED BY <1>2

LEMMA GreatestNumber ==
    ASSUME NEW T \in SUBSET Nat, T # {}, NEW b \in Nat, \A y \in T : y <= b
    PROVE  \E x \in T : \A y \in T : y <= x
<1> DEFINE D == {b - y : y \in T}
<1>1. D \in SUBSET Nat /\ D # {}
  <2>1. \A y \in T : b - y \in Nat
    OBVIOUS
  <2> QED BY <2>1
<1>2. PICK d \in D : \A e \in D : d <= e
  <2> HIDE DEF D
  <2> QED BY <1>1, LeastNumber
<1>3. PICK x \in T : d = b - x
  OBVIOUS
<1>4. \A y \in T : b - y \in D
  OBVIOUS
<1>5. \A y \in T : y <= x
  BY <1>2, <1>3, <1>4
<1> QED BY <1>5

LEMMA readHeaderKeeps ==
    ASSUME IndexerInv, readHeader
    PROVE  IndexerInv'
<1> DEFINE unread == {n \in Numbers : \A h \in tick.headers : Number(h) # n}
           next == CHOOSE n \in unread : \A m \in unread : n <= m
<1>1. UNCHANGED <<chain, deployment, store>> /\ pc = "headers"
  BY DEF readHeader, Goto, NextTick
<1>2. /\ tick \in Tick /\ chain \in Seq(Content) /\ Len(chain) \in Nat /\ tick.to \in Nat
      /\ tick.cursor \in Seq(Content) /\ Len(tick.cursor) \in Nat /\ Len(tick.cursor) < tick.to
      /\ tick.headers \in SUBSET Seq(Content)
  BY <1>1, LenProperties DEF IndexerInv, Sound, Tick, TickSound, Number
<1>3. Numbers \subseteq From..tick.to /\ Numbers \subseteq Nat /\ \A n \in Numbers : 1 <= n
  BY <1>2, NumbersInBatch DEF IndexerInv, From, Number
<1>4. next \in unread
  <2>1. unread \in SUBSET Nat /\ unread # {}
    BY <1>1, <1>3 DEF IndexerInv, TickSound
  <2>2. \E n \in unread : \A m \in unread : n <= m
    <3> HIDE DEF unread
    <3> QED BY <2>1, LeastNumber
  <2> QED BY <2>2
<1>5. next \in Numbers /\ next \in Nat
  BY <1>3, <1>4
<1> DEFINE Reads(h) == tick' = [tick EXCEPT !.headers = tick.headers \cup {h}]
           After == IF tick.cursor = Unknown THEN "commit" ELSE "recheck"
<1>6. PICK h \in {Unknown, Hash(next)} :
         \/ NextTick
         \/ h # Unknown /\ unread # {next} /\ Goto("headers") /\ Reads(h)
         \/ h # Unknown /\ unread = {next} /\ Goto(After) /\ Reads(h)
  BY DEF readHeader
<1> HIDE DEF unread, next, Reads, After
<1>7. CASE NextTick
  BY <1>1, <1>7, TickEnds DEF NextTick, Goto
<1>8. CASE h # Unknown /\ Reads(h)
  <2>1. /\ h \in Seq(Content) /\ Number(h) = next /\ h = HashIn(chain, next)
        /\ next \in 1..Len(chain) /\ IsAncestor(h, chain)
    BY <1>2, <1>5, <1>6, <1>8, HashesOfChain, HashProperties
  <2>2. /\ tick' \in Tick /\ tick'.cursor = tick.cursor /\ tick'.to = tick.to
        /\ tick'.source = tick.source /\ tick'.headers = tick.headers \cup {h}
    BY <1>2, <1>8, <2>1 DEF Tick, Reads
  <2>3. Sound' /\ StoredBlocksOfCursor' /\ StoreMirrors'
    BY <1>1, <2>2, StoreKept
  <2>4. Numbers' = Numbers
    BY <1>1, <2>2 DEF Numbers, BatchEvents, From
  <2>5. OnChain' <=> OnChain
    BY <1>1, <2>2 DEF OnChain, Hash
  <2>6. ASSUME OnChain PROVE BatchOnChain'
    <3>1. BatchOnChain
      BY <1>1, <2>6 DEF IndexerInv, TickSound
    <3>2. h = Hash(Number(h))
      BY <2>1, HashesOfChain
    <3>3. \A n : Hash(n)' = Hash(n)
      BY <1>1, HashesOfChain
    <3>4. chain' = chain
      BY <1>1
    <3> QED BY <1>8, <2>2, <3>1, <3>2, <3>3, <3>4 DEF BatchOnChain
  <2>7. ASSUME unread # {next}, Goto("headers") PROVE TickSound'
    <3>1. \E n \in Numbers : \A g \in tick'.headers : Number(g) # n
      <4>1. PICK n \in unread : n # next
        BY <1>4, <2>7
      <4> QED BY <2>1, <2>2, <4>1 DEF unread
    <3>2. \A g \in tick'.headers : Number(g) \in Numbers
      BY <1>1, <1>5, <2>1, <2>2 DEF IndexerInv, TickSound
    <3> QED BY <1>1, <2>2, <2>4, <2>5, <2>6, <2>7, <3>1, <3>2
            DEF IndexerInv, TickSound, Goto, store
  <2>8. ASSUME unread = {next}, Goto(After)
        PROVE  TickSound'
    <3>1. ASSUME OnChain PROVE BatchOfOneHistory'
      <4>1. \A n \in Numbers : \E g \in tick'.headers : Number(g) = n
        BY <2>1, <2>2, <2>8 DEF unread
      <4>2. \A g \in tick'.headers : g # Unknown /\ g = HashIn(chain, Number(g))
        BY <1>1, <2>1, <2>2, <2>6, <3>1, HashesOfChain DEF BatchOnChain
      <4>3. tick.to \in Numbers
        BY DEF Numbers
      <4>4. PICK top \in tick'.headers : Number(top) = tick.to
        BY <4>1, <4>3
      <4>5. top = HashIn(chain, tick.to) /\ top # Unknown
        BY <4>2, <4>4
      <4>6. tick.to \in 1..Len(chain)
        BY <1>2, <4>5, HashProperties
      <4>7. tick.source = top
        <5>1. Lesser(tick.to, Len(chain)) = tick.to
          BY <1>2, <4>6 DEF Lesser
        <5>2. tick.source = SubSeq(chain, 1, tick.to)
          BY <1>1, <3>1, <5>1 DEF IndexerInv, TickSound, BatchOnChain
        <5> QED BY <4>5, <4>6, <5>2 DEF HashIn
      <4>8. top \in Seq(Content) /\ Len(top) = tick.to /\ IsAncestor(top, chain)
        BY <1>2, <4>5, <4>6, HashProperties DEF Number
      <4>9. IsAncestor(tick.cursor, top)
        <5>1. IsAncestor(tick.cursor, chain)
          <6>1. tick.cursor = HashIn(chain, Len(tick.cursor))
            BY <3>1, HashesOfChain DEF OnChain, Number
          <6>2. CASE Len(tick.cursor) \in 1..Len(chain)
            BY <1>2, <6>1, <6>2, HashProperties
          <6>3. CASE Len(tick.cursor) \notin 1..Len(chain)
            <7>1. tick.cursor = Unknown /\ Len(tick.cursor) = 0
              BY <1>2, <6>1, <6>3, HashProperties, IdleSound DEF Number
            <7>2. SubSeq(chain, 1, 0) = Unknown
              BY SubSeqEmpty DEF Unknown
            <7> QED BY <1>2, <7>1, <7>2 DEF IsAncestor
          <6> QED BY <6>2, <6>3
        <5> QED BY <1>2, <4>8, <5>1, AncestorsOfOne
      <4>10. ASSUME NEW g \in tick'.headers PROVE IsAncestor(g, top)
        <5>1. Number(g) \in Numbers
          BY <1>1, <1>5, <2>1, <2>2 DEF IndexerInv, TickSound
        <5>2. Number(g) \in Nat /\ Number(g) <= tick.to
          BY <1>2, <1>3, <5>1 DEF From, Number
        <5>3. g = HashIn(chain, Number(g)) /\ g # Unknown
          BY <4>2
        <5>4. g \in Seq(Content) /\ IsAncestor(g, chain)
          BY <1>2, <5>2, <5>3, HashProperties
        <5>5. chain \in Seq(Content) /\ Len(g) <= Len(top)
          BY <1>2, <4>8, <5>2 DEF Number
        <5> QED BY <4>8, <5>4, <5>5, AncestorsOfOne
      <4>11. Distinct(top)
        <5>1. Distinct(chain) /\ Len(top) <= Len(chain) /\ \A i \in 1..Len(top) : top[i] = chain[i]
          BY <1>2, <4>8, AncestorElements DEF IndexerInv, Sound
        <5>2. \A i \in 1..Len(top) : i \in 1..Len(chain)
          BY <1>2, <4>8, <5>1
        <5> QED BY <5>1, <5>2 DEF Distinct
      <4> QED BY <2>2, <2>4, <4>1, <4>2, <4>4, <4>7, <4>9, <4>10, <4>11
              DEF BatchOfOneHistory, Distinct
    <3>2. tick.cursor = Unknown => OnChain
      <4>1. Hash(0) = Unknown
        BY <1>2, HashProperties, HashesOfChain
      <4> QED BY <4>1, IdleSound DEF OnChain
    <3> QED BY <1>1, <2>2, <2>5, <2>8, <3>1, <3>2 DEF IndexerInv, TickSound, Goto, store, After
  <2> QED BY <1>6, <1>8, <2>3, <2>7, <2>8, <1>7 DEF IndexerInv
<1> QED BY <1>6, <1>7, <1>8

----
(* The transactions. *)

\* A stored block is not empty, so its number is at least 1.
LEMMA StoredNumbers ==
    ASSUME Sound, StoredBlocksOfCursor, NEW h \in blocks
    PROVE  /\ h \in Seq(Content) /\ Len(h) \in Nat /\ 1 <= Len(h) /\ Len(h) <= Len(cursor)
           /\ Len(cursor) \in Nat /\ IsAncestor(h, cursor)
<1>1. h \in Seq(Content) /\ h # << >> /\ cursor \in Seq(Content) /\ IsAncestor(h, cursor)
  BY DEF Sound, StoredBlocksOfCursor, Unknown
<1>2. Len(h) \in Nat \ {0} /\ Len(cursor) \in Nat
  BY <1>1, EmptySeq, LenProperties
<1>3. Len(h) <= Len(cursor)
  BY <1>1 DEF IsAncestor
<1> QED BY <1>1, <1>2, <1>3

LEMMA initKeeps ==
    ASSUME IndexerInv, init
    PROVE  IndexerInv'
<1>1. UNCHANGED <<chain, deployment, tick>> /\ pc' = "tick"
  BY DEF init, env
<1>2. CASE Wipe
  <2>1. blocks' = {} /\ events' = {} /\ snapshots' = {} /\ deploymentKey' = {} /\ cursor' = Unknown
    BY <1>2 DEF init
  <2>2. Sound'
    BY <1>1, <2>1, IdleSound DEF IndexerInv, Sound, Distinct
  <2>3. StoredBlocksOfCursor' /\ StoreMirrors' /\ TickSound'
    BY <1>1, <2>1 DEF StoredBlocksOfCursor, StoreMirrors, TickSound
  <2> QED BY <2>2, <2>3 DEF IndexerInv
<1>3. CASE ~Wipe
  <2>1. UNCHANGED store
    BY <1>3 DEF init
  <2>2. Sound' /\ StoredBlocksOfCursor' /\ StoreMirrors'
    BY <1>1, <2>1, StoreKept DEF IndexerInv, Sound
  <2>3. TickSound'
    BY <1>1, <1>3, <2>1 DEF TickSound, Wipe, store
  <2> QED BY <2>2, <2>3 DEF IndexerInv
<1> QED BY <1>2, <1>3

\* Past init the store is keyed to the process's deployment, or empty.
LEMMA EventsOfCursor ==
    ASSUME IndexerInv, pc # "init"
    PROVE  events = EventsOf(cursor, deployment)
<1>1. deploymentKey \subseteq {deployment}
  BY DEF IndexerInv, TickSound
<1>2. CASE deploymentKey = {} /\ cursor = Unknown /\ events = {}
  <2>1. Len(cursor) = 0
    BY <1>2, EmptySeq DEF Unknown
  <2>2. EventsOf(cursor, deployment) = {}
    BY <2>1, LogRows DEF EventsOf
  <2> QED BY <1>2, <2>2
<1>3. CASE \E d \in Deployment : deploymentKey = {d} /\ events = EventsOf(cursor, d)
  BY <1>1, <1>3
<1> QED BY <1>2, <1>3 DEF IndexerInv, StoreMirrors

\* What a batch that is written does to the store: it follows the batch's history.
LEMMA CommitFollows ==
    ASSUME IndexerInv, commit, cursor' # cursor \/ events' # events \/ blocks' # blocks
                                 \/ deploymentKey' # deploymentKey
    PROVE  /\ tick.cursor = cursor /\ BatchOfOneHistory
           /\ deploymentKey \subseteq {deployment} /\ deploymentKey' = {deployment}
           /\ cursor' = tick.source /\ blocks' = blocks \cup tick.headers
           /\ Number(cursor) < Number(cursor') /\ IsAncestor(cursor, cursor')
           /\ events' = EventsOf(tick.source, deployment)
<1>1. /\ tick.cursor = cursor /\ BatchOfOneHistory /\ deploymentKey \subseteq {deployment}
      /\ Number(tick.cursor) < tick.to
  BY DEF commit, IndexerInv, TickSound
<1>2. /\ persistBlocks(tick.headers) /\ persistEvents(BatchEvents)
      /\ writeCursor(CHOOSE h \in tick.headers : Number(h) = tick.to)
  BY DEF commit, store
<1>3. /\ tick.source \in Seq(Content) /\ cursor \in Seq(Content)
      /\ \A h \in tick.headers : h \in Seq(Content)
  BY DEF IndexerInv, Sound, Tick
<1>4. (CHOOSE h \in tick.headers : Number(h) = tick.to) = tick.source
  <2>1. tick.source \in tick.headers /\ Number(tick.source) = tick.to
    BY <1>1 DEF BatchOfOneHistory
  <2>2. ASSUME NEW h \in tick.headers, Number(h) = tick.to PROVE h = tick.source
    BY <1>1, <1>3, <2>1, <2>2, AncestorOfSameLength DEF BatchOfOneHistory, Number
  <2> QED BY <2>1, <2>2
<1>5. cursor' = tick.source /\ deploymentKey' = {deployment} /\ blocks' = blocks \cup tick.headers
  BY <1>2, <1>4 DEF writeCursor, persistBlocks
<1>6. Number(cursor) < Number(cursor') /\ IsAncestor(cursor, cursor')
  BY <1>1, <1>5 DEF BatchOfOneHistory
<1>7. events = EventsOf(cursor, deployment)
  BY EventsOfCursor DEF commit
<1>8. events' = EventsOf(tick.source, deployment)
  <2>1. BatchEvents = Logs(tick.source, Number(cursor) + 1, Len(tick.source), deployment)
    BY <1>1 DEF BatchEvents, BatchOfOneHistory, From, Number
  <2>2. IsAncestor(cursor, tick.source) /\ Distinct(tick.source) /\ deployment \in Deployment
    BY <1>1 DEF BatchOfOneHistory, IndexerInv, Sound
  <2> QED BY <1>2, <1>3, <1>7, <2>1, <2>2, EventsOfExtension DEF persistEvents
<1> QED BY <1>1, <1>5, <1>6, <1>8

LEMMA commitKeeps ==
    ASSUME IndexerInv, commit
    PROVE  IndexerInv'
<1>1. UNCHANGED <<chain, deployment, snapshots>> /\ pc = "commit" /\ pc' = "tick" /\ tick' = Idle
  BY DEF commit, env, store
<1>2. CASE UNCHANGED <<cursor, events, blocks, deploymentKey>>
  BY <1>1, <1>2, TickEnds DEF store
<1>3. CASE ~UNCHANGED <<cursor, events, blocks, deploymentKey>>
  <2>1. /\ tick.cursor = cursor /\ BatchOfOneHistory
        /\ deploymentKey' = {deployment}
        /\ cursor' = tick.source /\ blocks' = blocks \cup tick.headers
        /\ IsAncestor(cursor, cursor')
        /\ events' = EventsOf(tick.source, deployment)
    BY <1>3, CommitFollows
  <2>2. /\ tick.source \in Seq(Content) /\ cursor \in Seq(Content) /\ deployment \in Deployment
        /\ blocks \subseteq Seq(Content) \ {Unknown} /\ tick.headers \subseteq Seq(Content)
        /\ \A h \in blocks : IsAncestor(h, cursor)
    BY DEF IndexerInv, Sound, Tick, StoredBlocksOfCursor
  <2>3. Sound'
    BY <1>1, <2>1, <2>2, IdleSound DEF IndexerInv, Sound, Distinct, BatchOfOneHistory
  <2>4. \A h \in blocks' : IsAncestor(h, cursor')
    BY <2>1, <2>2, AncestorTransitive DEF BatchOfOneHistory
  <2>5. cursor' \in blocks'
    BY <2>1 DEF BatchOfOneHistory
  <2>6. ASSUME NEW e \in events' PROVE \E h \in blocks' : Number(h) = e.block
    <3>1. CASE e \in events
      BY <2>1, <3>1 DEF IndexerInv, StoredBlocksOfCursor
    <3>2. CASE e \notin events
      <4>1. e \in BatchEvents
        BY <1>3, <2>6, <3>2 DEF commit, persistEvents, insert, store
      <4> QED BY <2>1, <4>1 DEF BatchOfOneHistory, Numbers
    <3> QED BY <3>1, <3>2
  <2>7. StoredBlocksOfCursor'
    BY <2>4, <2>5, <2>6 DEF StoredBlocksOfCursor
  <2>8. StoreMirrors'
    BY <2>1, <2>2 DEF StoreMirrors
  <2>9. TickSound'
    BY <1>1, <2>1 DEF TickSound
  <2> QED BY <2>3, <2>7, <2>8, <2>9 DEF IndexerInv
<1> QED BY <1>2, <1>3

\* The walk asks for the newest block it has left.
LEMMA NewestOfLeft ==
    ASSUME IndexerInv, pc = "probe", tick.left # {}
    PROVE  Newest(tick.left) \in tick.left /\ \A g \in tick.left : Number(g) <= Number(Newest(tick.left))
<1>1. tick.left \subseteq blocks
  BY DEF IndexerInv, TickSound
<1> DEFINE T == {Len(h) : h \in tick.left}
<1>2. T \in SUBSET Nat /\ T # {} /\ Len(cursor) \in Nat /\ \A y \in T : y <= Len(cursor)
  <2>1. PICK g \in tick.left : TRUE
    OBVIOUS
  <2>2. \A h \in tick.left : Len(h) \in Nat /\ Len(h) <= Len(cursor) /\ Len(cursor) \in Nat
    BY <1>1, StoredNumbers DEF IndexerInv
  <2> QED BY <2>1, <2>2
<1>3. \E x \in T : \A y \in T : y <= x
  <2> HIDE DEF T
  <2> QED BY <1>2, GreatestNumber
<1>4. \E h \in tick.left : \A g \in tick.left : Number(g) <= Number(h)
  BY <1>3 DEF Number
<1> QED BY <1>4 DEF Newest

LEMMA probeKeeps ==
    ASSUME IndexerInv, probe
    PROVE  IndexerInv'
<1> DEFINE row == Newest(tick.left)
<1>1. UNCHANGED <<chain, deployment, store>> /\ pc = "probe" /\ tick.left # {}
  BY DEF probe, Goto
<1>2. /\ tick \in Tick /\ tick.left \subseteq blocks /\ blocks \subseteq Seq(Content)
      /\ Sound /\ StoredBlocksOfCursor
  BY <1>1 DEF IndexerInv, Sound, TickSound
<1>3. row \in tick.left
  BY <1>1, NewestOfLeft
<1>4. \/ pc' = "rollback" /\ tick' = [tick EXCEPT !.left = {row}]
      \/ pc' = "probe" /\ tick' = [tick EXCEPT !.left = tick.left \ {row}]
  BY DEF probe, Goto
<1> HIDE DEF row
<1>5. /\ tick' \in Tick /\ tick'.cursor = tick.cursor /\ tick'.left \subseteq blocks
      /\ pc' = "rollback" => tick'.left # {}
  BY <1>2, <1>3, <1>4 DEF Tick
<1>6. Sound' /\ StoredBlocksOfCursor' /\ StoreMirrors'
  BY <1>1, <1>5, StoreKept
<1>7. TickSound'
  BY <1>1, <1>4, <1>5 DEF IndexerInv, TickSound, store
<1> QED BY <1>6, <1>7 DEF IndexerInv

\* What a rollback does to the store: it retreats to a point of the history.
LEMMA RollbackRetreats ==
    ASSUME IndexerInv, commitRollback
    PROVE  \E n \in 0..Len(cursor) :
             /\ cursor' = SubSeq(cursor, 1, n) /\ deploymentKey' = {deployment}
             /\ blocks' = {h \in blocks : Number(h) <= n}
             /\ events' = {e \in events : e.block <= n}
             /\ snapshots' = {row \in snapshots : row.block <= n}
             /\ n # 0 => cursor' \in blocks
<1>1. cursor \in Seq(Content) /\ Len(cursor) \in Nat
  BY LenProperties DEF IndexerInv, Sound
<1>2. CASE pc = "rollback" /\ rollback(CHOOSE h \in tick.left : TRUE)
  <2> DEFINE row == CHOOSE h \in tick.left : TRUE
  <2>1. row \in blocks
    BY <1>2 DEF IndexerInv, TickSound
  <2>2. Len(row) \in 0..Len(cursor) /\ row = SubSeq(cursor, 1, Len(row))
    <3>1. /\ Len(row) \in Nat /\ 1 <= Len(row) /\ Len(row) <= Len(cursor)
          /\ IsAncestor(row, cursor)
      <4> HIDE DEF row
      <4> QED BY <2>1, StoredNumbers DEF IndexerInv
    <3>2. row = SubSeq(cursor, 1, Len(row))
      BY <3>1 DEF IsAncestor
    <3> HIDE DEF row
    <3> QED BY <1>1, <3>1, <3>2
  <2>3. /\ cursor' = row /\ deploymentKey' = {deployment}
        /\ blocks' = {h \in blocks : Number(h) <= Len(row)}
        /\ events' = {e \in events : e.block <= Len(row)}
        /\ snapshots' = {s \in snapshots : s.block <= Len(row)}
    BY <1>2 DEF rollback, writeCursor, dropSnapshotsAbove, Number
  <2> QED BY <2>1, <2>2, <2>3
<1>3. CASE pc = "probe" /\ rollback(Unknown)
  <2>1. /\ cursor' = Unknown /\ deploymentKey' = {deployment}
        /\ blocks' = {h \in blocks : Number(h) <= 0}
        /\ events' = {e \in events : e.block <= 0}
        /\ snapshots' = {row \in snapshots : row.block <= 0}
    BY <1>3, IdleSound DEF rollback, writeCursor, dropSnapshotsAbove
  <2>2. 0 \in 0..Len(cursor) /\ SubSeq(cursor, 1, 0) = Unknown
    BY <1>1, SubSeqEmpty DEF Unknown
  <2> QED BY <2>1, <2>2
<1> QED BY <1>2, <1>3 DEF commitRollback

\* After it the store shows the events of that point.
LEMMA RollbackShows ==
    ASSUME IndexerInv, commitRollback
    PROVE  /\ cursor' \in Seq(Content) /\ IsAncestor(cursor', cursor)
           /\ events' = EventsOf(cursor', deployment)
<1>1. PICK n \in 0..Len(cursor) :
             /\ cursor' = SubSeq(cursor, 1, n)
             /\ events' = {e \in events : e.block <= n}
  BY RollbackRetreats
<1>2. cursor \in Seq(Content) /\ Len(cursor) \in Nat
  BY LenProperties DEF IndexerInv, Sound
<1>3. cursor' \in Seq(Content) /\ Len(cursor') = n
  BY <1>1, <1>2, Prefix
<1>4. IsAncestor(cursor', cursor)
  BY <1>1, <1>2, <1>3 DEF IsAncestor
<1>5. events = EventsOf(cursor, deployment)
  BY EventsOfCursor DEF commitRollback
<1>6. EventsOf(cursor', deployment) = {e \in EventsOf(cursor, deployment) : e.block <= n}
  BY <1>2, <1>3, <1>4, EventsOfAncestor DEF Number
<1> QED BY <1>1, <1>3, <1>4, <1>5, <1>6

LEMMA commitRollbackKeeps ==
    ASSUME IndexerInv, commitRollback
    PROVE  IndexerInv'
<1>1. PICK n \in 0..Len(cursor) :
             /\ cursor' = SubSeq(cursor, 1, n) /\ deploymentKey' = {deployment}
             /\ blocks' = {h \in blocks : Number(h) <= n}
             /\ events' = {e \in events : e.block <= n}
             /\ n # 0 => cursor' \in blocks
  BY RollbackRetreats
<1>2. /\ UNCHANGED <<chain, deployment>> /\ pc' = "tick" /\ tick' = Idle
      /\ cursor \in Seq(Content) /\ Len(cursor) \in Nat /\ deployment \in Deployment
      /\ Sound /\ StoredBlocksOfCursor
  BY LenProperties DEF commitRollback, env, IndexerInv, Sound
<1>3. /\ cursor' \in Seq(Content) /\ IsAncestor(cursor', cursor) /\ Len(cursor') = n
      /\ events' = EventsOf(cursor', deployment)
  BY <1>1, <1>2, RollbackShows, Prefix
<1>4. Sound'
  BY <1>1, <1>2, <1>3, IdleSound DEF Sound, Distinct
<1>5. \A h \in blocks' : IsAncestor(h, cursor')
  <2> SUFFICES ASSUME NEW h \in blocks' PROVE IsAncestor(h, cursor')
    OBVIOUS
  <2>1. h \in blocks /\ Len(h) <= n
    BY <1>1 DEF Number
  <2>2. h \in Seq(Content) /\ IsAncestor(h, cursor)
    BY <1>2, <2>1, StoredNumbers
  <2> QED BY <1>2, <1>3, <2>1, <2>2, AncestorsOfOne
<1>6. cursor' # Unknown => cursor' \in blocks'
  <2>1. n = 0 => cursor' = Unknown
    BY <1>1, SubSeqEmpty DEF Unknown
  <2> QED BY <1>1, <1>2, <1>3, <2>1 DEF Number
<1>7. \A e \in events' : \E h \in blocks' : Number(h) = e.block
  BY <1>1, <1>2 DEF StoredBlocksOfCursor
<1>8. StoredBlocksOfCursor' /\ StoreMirrors'
  BY <1>1, <1>2, <1>3, <1>5, <1>6, <1>7 DEF StoredBlocksOfCursor, StoreMirrors
<1>9. TickSound'
  BY <1>1, <1>2 DEF TickSound
<1> QED BY <1>4, <1>8, <1>9 DEF IndexerInv

----
(* Every step. *)

LEMMA NextKeeps ==
    ASSUME "batch" \notin MidBatch, IndexerInv, [Next]_vars
    PROVE  IndexerInv'
<1>1. CASE NewBlock
  <2>1. Len(chain) + 1 \in Nat /\ ChainChange(Len(chain) + 1)
    BY <1>1, NewBlockChanges, LenProperties DEF IndexerInv, Sound
  <2>2. UNCHANGED <<deployment, store, pc, tick>>
    BY <1>1 DEF NewBlock
  <2> QED BY <2>1, <2>2, ChainChangeKeeps
<1>2. CASE Reorg
  <2>1. PICK k \in Nat : ChainChange(k)
    BY <1>2, ReorgChanges DEF IndexerInv
  <2>2. UNCHANGED <<deployment, store, pc, tick>>
    BY <1>2 DEF Reorg
  <2> QED BY <2>1, <2>2, ChainChangeKeeps
<1>3. CASE Abandon
  BY <1>3, AbandonKeeps
<1>4. CASE Redeploy
  BY <1>4, RedeployKeeps
<1>5. CASE Step
  BY <1>5, initKeeps, readCursorKeeps, verifyCursorKeeps, readHeadKeeps, getLogsKeeps,
     readHeaderKeeps, recheckCursorKeeps, commitKeeps, probeKeeps, commitRollbackKeeps DEF Step
<1>6. CASE UNCHANGED vars
  <2>1. UNCHANGED <<chain, deployment, store, pc, tick>>
    BY <1>6 DEF vars, env
  <2>2. Sound' /\ StoredBlocksOfCursor' /\ StoreMirrors'
    BY <2>1, StoreKept DEF IndexerInv, Sound
  <2>3. TickSound'
    BY <2>1 DEF IndexerInv, TickSound, OnChain, BatchOnChain, BatchOfOneHistory, Hash, Distinct,
                Numbers, BatchEvents, From, store
  <2> QED BY <2>2, <2>3 DEF IndexerInv
<1> QED BY <1>1, <1>2, <1>3, <1>4, <1>5, <1>6 DEF Next, Environment

(* The invariant of the indexer: what is stored lies on the history of the      *)
(* cursor, and what a tick holds may be written (indexer.ts, tick).             *)
THEOREM IndexerInvariant ==
    ASSUME "batch" \notin MidBatch
    PROVE  Spec => []IndexerInv
<1>1. IndexerInv /\ [Next]_vars => IndexerInv'
  BY NextKeeps
<1> QED BY <1>1, InitSound, PTL DEF Spec

(* Every stored block lies on the history of the cursor, the cursor block is    *)
(* stored, and so is the block of every event, whatever reorganises or fails:   *)
(* handleReorg's walk is over ancestors, and one DELETE undoes a fork.          *)
THEOREM BlocksOfCursor ==
    ASSUME "batch" \notin MidBatch
    PROVE  Spec => []StoredBlocksOfCursor
<1>1. IndexerInv => StoredBlocksOfCursor
  BY DEF IndexerInv
<1> QED BY <1>1, IndexerInvariant, PTL

\* Every step of the indexer is a step of EventMirror, or none.
LEMMA NextMirrors ==
    ASSUME "batch" \notin MidBatch, IndexerInv, [Next]_vars
    PROVE  [Mirror!Next]_<<cursor, deploymentKey, events>>
<1>1. cursor \in Seq(Content) /\ Len(cursor) \in Nat /\ deployment \in Deployment
  BY LenProperties DEF IndexerInv, Sound
<1>2. CASE UNCHANGED store
  BY <1>2 DEF store
<1>3. CASE init /\ ~UNCHANGED store
  <2>1. events' = {} /\ deploymentKey' = {} /\ cursor' = << >>
    BY <1>3 DEF init, Unknown
  <2> QED BY <2>1 DEF Mirror!Next, Mirror!Clear
<1>4. CASE commit
  <2>1. CASE UNCHANGED <<cursor, deploymentKey, events>>
    BY <2>1
  <2>2. CASE ~UNCHANGED <<cursor, deploymentKey, events>>
    <3>1. /\ deploymentKey \subseteq {deployment} /\ deploymentKey' = {deployment}
          /\ Number(cursor) < Number(cursor') /\ IsAncestor(cursor, cursor')
          /\ events' = EventsOf(cursor', deployment)
      BY <1>4, <2>2, CommitFollows
    <3>2. deploymentKey \in {{}, {deployment}}
      BY <3>1
    <3>3. Len(cursor') > Len(cursor) /\ SubSeq(cursor', 1, Len(cursor)) = cursor
      BY <3>1 DEF Number, IsAncestor
    <3> QED BY <1>1, <3>1, <3>2, <3>3 DEF Mirror!Next, Mirror!Follow, Mirror!Shows
  <2> QED BY <2>1, <2>2
<1>5. CASE commitRollback
  <2>1. PICK n \in 0..Len(cursor) : cursor' = SubSeq(cursor, 1, n) /\ deploymentKey' = {deployment}
    BY <1>5, RollbackRetreats
  <2>2. events' = EventsOf(SubSeq(cursor, 1, n), deployment)
    BY <1>5, <2>1, RollbackShows
  <2>3. deploymentKey \in {{}, {deployment}}
    BY <1>5 DEF commitRollback, IndexerInv, TickSound
  <2> QED BY <1>1, <2>1, <2>2, <2>3 DEF Mirror!Next, Mirror!Retreat, Mirror!Shows
<1>6. UNCHANGED store \/ init \/ commit \/ commitRollback
  BY DEF Next, Environment, Step, NewBlock, Reorg, Abandon, Redeploy, readCursor, verifyCursor,
         readHead, getLogs, readHeader, recheckCursor, probe, Goto, NextTick, vars, env, store
<1> QED BY <1>2, <1>3, <1>4, <1>5, <1>6

(* The class comment's "exactly-once", "reorg-safe" and "consistent batches":   *)
(* the store implements EventMirror, for every chain, fault and redeployment.   *)
THEOREM ImplementsMirror ==
    ASSUME "batch" \notin MidBatch
    PROVE  Spec => MirrorsOneHistory
<1>1. Init => Mirror!Init
  BY DEF Init, Mirror!Init, Unknown
<1>2. IndexerInv /\ [Next]_vars => [Mirror!Next]_<<cursor, deploymentKey, events>>
  BY NextMirrors
<1> QED BY <1>1, <1>2, IndexerInvariant, PTL DEF Spec, MirrorsOneHistory, Mirror!Spec

----
(* The store shared with the monitor. *)

(* Every row that came while the index showed its account up to the row's number   *)
(* still has an event of the account up to that number: a rollback deletes both    *)
(* by comparing with the same number.                                              *)
RowSound(row) ==
    /\ row.block \in Nat
    /\ row.indexed => \E e \in events : e.tx = row.account /\ e.block <= row.block

SweepSound ==
    /\ sweep.block \in Nat
    /\ sweep = [step |-> sweep.step, block |-> sweep.block,
                accounts |-> sweep.accounts, findings |-> sweep.findings]

RowsSound == \A row \in snapshots : RowSound(row)

SharedInv == IndexerInv /\ SweepSound /\ RowsSound

\* The numbers of events are numbers.
LEMMA EventNumbers ==
    ASSUME IndexerInv, NEW e \in events
    PROVE  e.block \in Nat
<1>1. PICK d \in Deployment : events = EventsOf(cursor, d)
  BY DEF IndexerInv, StoreMirrors
<1>2. cursor \in Seq(Content) /\ Len(cursor) \in Nat
  BY LenProperties DEF IndexerInv, Sound
<1>3. \A n \in 1..Len(cursor) : n \in Nat
  BY <1>2
<1> QED BY <1>1, <1>3 DEF EventsOf, Logs

\* Rows that come from a sweep are sound, whatever it read before.
LEMMA InsertedSound ==
    ASSUME SharedInv, insertSnapshots, UNCHANGED events
    PROVE  RowsSound'
<1> SUFFICES ASSUME NEW row \in snapshots' PROVE RowSound(row)'
  BY DEF RowsSound
<1>1. CASE row \in snapshots
  BY <1>1 DEF SharedInv, RowsSound, RowSound
<1>2. CASE row \notin snapshots
  <2>1. PICK a \in sweep.accounts :
          row = [account |-> a, risk |-> a \in sweep.findings, block |-> sweep.block,
                 indexed |-> Indexed(a, sweep.block)]
    BY <1>2 DEF insertSnapshots
  <2>2. row.account = a /\ row.block = sweep.block /\ row.indexed = Indexed(a, sweep.block)
    BY <2>1
  <2>3. Indexed(a, sweep.block) => \E e \in events : e.tx = a /\ e.block <= sweep.block
    BY DEF Indexed
  <2> QED BY <2>2, <2>3 DEF RowSound, SharedInv, SweepSound
<1> QED BY <1>1, <1>2

\* A sweep writes nothing the indexer relies on.
LEMMA SweepKeeps ==
    ASSUME SharedInv, Sweep
    PROVE  /\ SharedInv'
           /\ UNCHANGED <<cursor, deploymentKey, events>>
<1>1. /\ UNCHANGED <<chain, deployment, deploymentKey, cursor, blocks, events, pc, tick>>
      /\ UNCHANGED snapshots \/ insertSnapshots
  BY DEF Sweep, SweepHead, SweepAccounts, SweepHealth, SweepCommit, vars, env, store
<1>2. IndexerInv'
  BY <1>1 DEF SharedInv, IndexerInv, Sound, StoredBlocksOfCursor, StoreMirrors, TickSound,
     OnChain, BatchOnChain, BatchOfOneHistory, Hash, Distinct, Numbers, BatchEvents, From
<1>3. Len(chain) \in Nat
  BY LenProperties DEF SharedInv, IndexerInv, Sound
<1>4. SweepSound'
  <2>1. CASE SweepHead
    BY <1>3, <2>1 DEF SweepHead, SharedInv, SweepSound, NoSweep
  <2>2. CASE SweepAccounts
    BY <2>2 DEF SweepAccounts, SharedInv, SweepSound
  <2>3. CASE SweepHealth
    BY <2>3 DEF SweepHealth, SharedInv, SweepSound
  <2>4. CASE SweepCommit
    BY <2>4 DEF SweepCommit, SweepSound, NoSweep
  <2> QED BY <2>1, <2>2, <2>3, <2>4 DEF Sweep
<1>5. RowsSound'
  <2>1. CASE insertSnapshots
    BY <1>1, <2>1, InsertedSound
  <2>2. CASE UNCHANGED snapshots
    BY <1>1, <2>2 DEF SharedInv, RowsSound, RowSound
  <2> QED BY <1>1, <2>1, <2>2
<1> QED BY <1>1, <1>2, <1>4, <1>5 DEF SharedInv

\* A rollback deletes a row, or keeps the event that the row goes with.
LEMMA RollbackRows ==
    ASSUME SharedInv, commitRollback
    PROVE  RowsSound'
<1>1. PICK n \in 0..Len(cursor) :
             /\ events' = {e \in events : e.block <= n}
             /\ snapshots' = {row \in snapshots : row.block <= n}
  BY RollbackRetreats DEF SharedInv
<1>2. n \in Nat
  BY LenProperties DEF SharedInv, IndexerInv, Sound
<1> SUFFICES ASSUME NEW row \in snapshots' PROVE RowSound(row)'
  BY DEF RowsSound
<1>3. row \in snapshots /\ row.block <= n /\ row.block \in Nat
  BY <1>1 DEF SharedInv, RowsSound, RowSound
<1>4. ASSUME row.indexed PROVE \E e \in events' : e.tx = row.account /\ e.block <= row.block
  <2>1. PICK e \in events : e.tx = row.account /\ e.block <= row.block
    BY <1>3, <1>4 DEF SharedInv, RowsSound, RowSound
  <2>2. e.block \in Nat
    BY EventNumbers DEF SharedInv
  <2>3. e.block <= n
    BY <1>2, <1>3, <2>1, <2>2
  <2> QED BY <1>1, <2>1, <2>3
<1> QED BY <1>3, <1>4 DEF RowSound

\* No step of the indexer parts a row from its account.
LEMMA NextRows ==
    ASSUME SharedInv, [Next]_vars
    PROVE  RowsSound'
<1>1. CASE UNCHANGED store
  BY <1>1 DEF store, SharedInv, RowsSound, RowSound
<1>2. CASE init /\ ~UNCHANGED store
  BY <1>2 DEF init, RowsSound
<1>3. CASE commit /\ ~UNCHANGED store
  <2>1. snapshots' = snapshots /\ events \subseteq events'
    BY <1>3 DEF commit, store, persistEvents, insert
  <2> QED BY <2>1 DEF SharedInv, RowsSound, RowSound
<1>4. CASE commitRollback
  BY <1>4, RollbackRows
<1>5. UNCHANGED store \/ init \/ commit \/ commitRollback
  BY DEF Next, Environment, Step, NewBlock, Reorg, Abandon, Redeploy, readCursor, verifyCursor,
         readHead, getLogs, readHeader, recheckCursor, probe, Goto, NextTick, vars, env, store
<1> QED BY <1>1, <1>2, <1>3, <1>4, <1>5

LEMMA MNextKeeps ==
    ASSUME "batch" \notin MidBatch, SharedInv, [MNext]_mvars
    PROVE  /\ SharedInv'
           /\ [Mirror!Next]_<<cursor, deploymentKey, events>>
<1>1. CASE Sweep
  BY <1>1, SweepKeeps
<1>2. CASE [Next]_vars /\ UNCHANGED sweep
  <2>1. IndexerInv' /\ [Mirror!Next]_<<cursor, deploymentKey, events>>
    BY <1>2, NextKeeps, NextMirrors DEF SharedInv
  <2>2. SweepSound' /\ RowsSound'
    BY <1>2, NextRows DEF SharedInv, SweepSound
  <2> QED BY <2>1, <2>2 DEF SharedInv
<1>3. Sweep \/ ([Next]_vars /\ UNCHANGED sweep)
  BY DEF MNext, Index, mvars
<1> QED BY <1>1, <1>2, <1>3

LEMMA MInitSound == MInit => SharedInv /\ Mirror!Init
<1> SUFFICES ASSUME MInit PROVE SharedInv /\ Mirror!Init
  OBVIOUS
<1>1. IndexerInv
  BY InitSound DEF MInit
<1>2. SweepSound /\ RowsSound
  BY DEF MInit, Init, SweepSound, NoSweep, RowsSound
<1>3. Mirror!Init
  BY DEF MInit, Init, Mirror!Init, Unknown
<1> QED BY <1>1, <1>2, <1>3 DEF SharedInv

(* The indexer keeps its promise on a database it shares: with the monitor's    *)
(* sweeps between its steps the store still implements EventMirror.             *)
THEOREM SharedStoreMirrors ==
    ASSUME "batch" \notin MidBatch
    PROVE  MSpec => MirrorsOneHistory
<1>1. SharedInv /\ [MNext]_mvars =>
        SharedInv' /\ [Mirror!Next]_<<cursor, deploymentKey, events>>
  BY MNextKeeps
<1> QED BY <1>1, MInitSound, PTL DEF MSpec, MirrorsOneHistory, Mirror!Spec

(* An account that the index showed when a sweep listed it is not listed after  *)
(* the rollback that took it out of the index, in whatever order the steps of   *)
(* sweeps, batches and rollbacks come (dropSnapshotsAbove).  Rows written too   *)
(* late for that are told apart by what the index showed when they came.        *)
THEOREM ListedStayKnown ==
    ASSUME "batch" \notin MidBatch
    PROVE  MSpec => []ListedAreKnown
<1>1. SharedInv /\ [MNext]_mvars => SharedInv'
  BY MNextKeeps
<1>2. SharedInv => ListedAreKnown
  BY DEF SharedInv, RowsSound, RowSound, ListedAreKnown, accounts
<1> QED BY <1>1, <1>2, MInitSound, PTL DEF MSpec

----
(* The bounds. *)

Bounded ==
    /\ {Len(chain), Len(cursor), Len(tick.cursor), Len(tick.source), tick.to} \subseteq 0..MaxHeight
    /\ reorgs \in 0..MaxReorgs /\ failures \in 0..MaxFailures /\ lost \in 0..MaxLost
    /\ restarts \in 0..MaxRestarts
    /\ snapshots = {}
    /\ pc \in {"init", "tick", "verify", "head", "logs", "headers", "recheck", "commit",
               "probe", "rollback"}

\* The histories of TypeOK are the sequences of bounded length.
LEMMA BoundedHistories ==
    ASSUME NEW h \in Seq(Content), Len(h) <= MaxHeight
    PROVE  h \in Histories
<1>1. Len(h) \in 0..MaxHeight /\ h \in [1..Len(h) -> Content]
  BY LenProperties, IndexerAssumption DEF IndexerAssumption
<1> QED BY <1>1 DEF Histories

\* A change of the chain respects the bound on its height.
LEMMA ChainBounded ==
    ASSUME IndexerInv, Bounded, NewBlock \/ Reorg
    PROVE  Len(chain') \in 0..MaxHeight /\ reorgs' \in 0..MaxReorgs
<1>1. chain \in Seq(Content) /\ Len(chain) \in Nat /\ MaxHeight \in Nat /\ MaxReorgs \in Nat
  BY LenProperties, IndexerAssumption DEF IndexerInv, Sound, IndexerAssumption
<1>2. CASE NewBlock
  <2>1. PICK c \in Content : chain' = Append(chain, c)
    BY <1>2 DEF NewBlock
  <2>2. Len(chain') = Len(chain) + 1
    BY <1>1, <2>1, AppendProperties
  <2>3. Len(chain) < MaxHeight /\ reorgs' = reorgs
    BY <1>2 DEF NewBlock
  <2> QED BY <1>1, <2>2, <2>3 DEF Bounded
<1>3. CASE Reorg
  <2>1. PICK k \in 1..Len(chain) : \E len \in k..MaxHeight : \E tail \in [k..len -> Content] :
           chain' = [n \in 1..len |-> IF n < k THEN chain[n] ELSE tail[n]]
    BY <1>3 DEF Reorg
  <2>2. PICK len \in k..MaxHeight : \E tail \in [k..len -> Content] :
           chain' = [n \in 1..len |-> IF n < k THEN chain[n] ELSE tail[n]]
    BY <2>1
  <2>3. PICK tail \in [k..len -> Content] :
           chain' = [n \in 1..len |-> IF n < k THEN chain[n] ELSE tail[n]]
    BY <2>2
  <2>4. chain' \in Seq(Content)
    <3>1. PICK j \in Nat : ChainChange(j)
      BY <1>3, ReorgChanges DEF IndexerInv
    <3> QED BY <3>1 DEF ChainChange
  <2>5. DOMAIN chain' = 1..len /\ len \in 0..MaxHeight
    BY <1>1, <2>3
  <2>6. Len(chain') \in Nat /\ DOMAIN chain' = 1..Len(chain')
    BY <2>4, LenProperties
  <2>7. Len(chain') = len
    BY <2>5, <2>6, <1>1
  <2>8. reorgs < MaxReorgs /\ reorgs' = reorgs + 1
    BY <1>3 DEF Reorg
  <2> QED BY <1>1, <2>5, <2>7, <2>8 DEF Bounded
<1> QED BY <1>2, <1>3

\* A request that is answered wrongly is counted.
LEMMA LostBounded ==
    ASSUME Bounded, NEW n, NEW h, GetBlock(n, h)
    PROVE  lost' \in 0..MaxLost
BY IndexerAssumption DEF GetBlock, Bounded, IndexerAssumption

LEMMA IdleBounded ==
    ASSUME tick' = Idle
    PROVE  Len(tick'.cursor) = 0 /\ Len(tick'.source) = 0 /\ tick'.to = 0
<1>1. Len(Unknown) = 0
  BY EmptySeq DEF Unknown
<1> QED BY <1>1 DEF Idle

\* What a step of the process leaves in its local variables.
LEMMA TickBounded ==
    ASSUME IndexerInv, Bounded, Step
    PROVE  {Len(tick'.cursor), Len(tick'.source), tick'.to} \subseteq 0..MaxHeight
<1>1. /\ chain \in Seq(Content) /\ tick \in Tick /\ MaxHeight \in Nat
      /\ Len(chain) \in Nat /\ tick.to \in Nat /\ Len(tick.cursor) \in Nat
  BY LenProperties, IndexerAssumption DEF IndexerInv, Sound, Tick, IndexerAssumption
<1>2. CASE tick' = Idle
  BY <1>1, <1>2, IdleBounded
<1>3. CASE tick'.cursor = tick.cursor /\ tick'.source = tick.source /\ tick'.to = tick.to
  BY <1>3 DEF Bounded
<1>4. CASE readCursor
  <2>1. tick' = [Idle EXCEPT !.cursor = cursor]
    BY <1>4 DEF readCursor
  <2>2. tick'.cursor = cursor /\ tick'.source = Unknown /\ tick'.to = 0
    BY <2>1 DEF Idle
  <2>3. Len(Unknown) = 0
    BY EmptySeq DEF Unknown
  <2> QED BY <1>1, <2>2, <2>3 DEF Bounded
<1>5. CASE readHead /\ tick' # Idle
  <2>1. ~(Len(chain) < From + confirmations) /\ tick' = [tick EXCEPT !.to = BatchEnd]
    BY <1>5 DEF readHead, NextTick
  <2>2. BatchEnd \in 0..MaxHeight
    <3>1. confirmations \in Nat /\ batchSize \in Nat /\ 1 <= batchSize
      BY IndexerAssumption DEF IndexerAssumption
    <3>2. Len(chain) <= MaxHeight
      BY DEF Bounded
    <3>3. From = Len(tick.cursor) + 1 /\ From + confirmations <= Len(chain)
      BY <1>1, <2>1, <3>1 DEF From, Number
    <3>4. /\ BatchEnd = From + batchSize - 1 \/ BatchEnd = Len(chain) - confirmations
          /\ BatchEnd <= Len(chain) - confirmations
      BY <1>1, <3>1, <3>3 DEF BatchEnd, Lesser
    <3> HIDE DEF From, BatchEnd
    <3> QED BY <1>1, <3>1, <3>2, <3>3, <3>4
  <2>3. tick'.cursor = tick.cursor /\ tick'.source = tick.source /\ tick'.to = BatchEnd
    BY <1>1, <2>1 DEF Tick
  <2> QED BY <2>2, <2>3 DEF Bounded
<1>6. CASE getLogs
  <2>1. tick' = [tick EXCEPT !.source = SubSeq(chain, 1, Lesser(tick.to, Len(chain)))]
    BY <1>6 DEF getLogs
  <2>2. /\ tick'.cursor = tick.cursor /\ tick'.to = tick.to
        /\ tick'.source = SubSeq(chain, 1, Lesser(tick.to, Len(chain)))
    BY <1>1, <2>1 DEF Tick
  <2>3. Lesser(tick.to, Len(chain)) \in 0..Len(chain)
    BY <1>1 DEF Lesser
  <2>4. Len(tick'.source) = Lesser(tick.to, Len(chain))
    BY <1>1, <2>2, <2>3, Prefix
  <2> QED BY <1>1, <2>2, <2>3, <2>4 DEF Bounded
<1>7. CASE \E left : tick' = [tick EXCEPT !.left = left]
  BY <1>1, <1>3, <1>7 DEF Tick
<1>8. CASE \E headers : tick' = [tick EXCEPT !.headers = headers]
  BY <1>1, <1>3, <1>8 DEF Tick
<1>9. \/ tick' = Idle \/ tick' = tick
      \/ \E left : tick' = [tick EXCEPT !.left = left]
      \/ \E headers : tick' = [tick EXCEPT !.headers = headers]
      \/ readCursor \/ (readHead /\ tick' # Idle) \/ getLogs
  BY DEF Step, init, verifyCursor, readHead, readHeader, recheckCursor, commit, probe,
         commitRollback, env, NextTick
<1> QED BY <1>2, <1>3, <1>4, <1>5, <1>6, <1>7, <1>8, <1>9

LEMMA StepLostBounded ==
    ASSUME Bounded, Step
    PROVE  lost' \in 0..MaxLost
<1>1. CASE UNCHANGED lost
  BY <1>1 DEF Bounded
<1>2. CASE \E n, h : GetBlock(n, h)
  BY <1>2, LostBounded
<1>3. UNCHANGED lost \/ verifyCursor \/ readHeader \/ recheckCursor \/ probe
  BY DEF Step, init, readCursor, readHead, getLogs, commit, commitRollback, env
<1>4. verifyCursor \/ readHeader \/ recheckCursor \/ probe => \E n, h : GetBlock(n, h)
  BY DEF verifyCursor, readHeader, recheckCursor, probe
<1> QED BY <1>1, <1>2, <1>3, <1>4

\* What a step of the process leaves in the store.
LEMMA StoreBounded ==
    ASSUME IndexerInv, Bounded, Step
    PROVE  Len(cursor') \in 0..MaxHeight /\ snapshots' = {}
<1>1. /\ MaxHeight \in Nat /\ cursor \in Seq(Content) /\ Len(cursor) \in Nat
      /\ snapshots = {} /\ Len(cursor) \in 0..MaxHeight
  BY LenProperties, IndexerAssumption DEF IndexerInv, Sound, IndexerAssumption, Bounded
<1>2. CASE init
  <2>1. Len(Unknown) = 0
    BY EmptySeq DEF Unknown
  <2> QED BY <1>1, <1>2, <2>1 DEF init, store
<1>3. CASE commit
  <2>1. snapshots' = {}
    BY <1>1, <1>3 DEF commit, store
  <2>2. cursor' = cursor \/ cursor' = tick.source
    BY <1>3, CommitFollows
  <2> QED BY <1>1, <2>1, <2>2 DEF Bounded
<1>4. CASE commitRollback
  <2>1. PICK n \in 0..Len(cursor) : /\ cursor' = SubSeq(cursor, 1, n)
                                    /\ snapshots' = {row \in snapshots : row.block <= n}
    BY <1>4, RollbackRetreats
  <2> QED BY <1>1, <2>1, Prefix
<1>5. init \/ commit \/ commitRollback \/ UNCHANGED <<cursor, snapshots>>
  BY DEF Step, readCursor, verifyCursor, readHead, getLogs, readHeader, recheckCursor, probe,
         Goto, NextTick, store
<1> QED BY <1>1, <1>2, <1>3, <1>4, <1>5

LEMMA NextBounded ==
    ASSUME IndexerInv, Bounded, [Next]_vars
    PROVE  Bounded'
<1>1. CASE NewBlock \/ Reorg
  <2>1. Len(chain') \in 0..MaxHeight /\ reorgs' \in 0..MaxReorgs
    BY <1>1, ChainBounded
  <2>2. UNCHANGED <<failures, lost, restarts, cursor, snapshots, pc, tick>>
    BY <1>1 DEF NewBlock, Reorg, store
  <2> QED BY <2>1, <2>2 DEF Bounded
<1>2. CASE Abandon \/ Redeploy
  <2>1. /\ UNCHANGED <<chain, reorgs, lost, cursor, snapshots>>
        /\ tick' = Idle /\ pc' \in {"tick", "init"}
    BY <1>2 DEF Abandon, Redeploy, store
  <2>2. failures' \in 0..MaxFailures /\ restarts' \in 0..MaxRestarts
    <3>1. MaxFailures \in Nat /\ MaxRestarts \in Nat
      BY IndexerAssumption DEF IndexerAssumption
    <3>2. failures \in 0..MaxFailures /\ restarts \in 0..MaxRestarts
      BY DEF Bounded
    <3>3. CASE Abandon
      BY <3>1, <3>2, <3>3 DEF Abandon
    <3>4. CASE Redeploy
      BY <3>1, <3>2, <3>4 DEF Redeploy
    <3> QED BY <1>2, <3>3, <3>4
  <2>3. MaxHeight \in Nat
    BY IndexerAssumption DEF IndexerAssumption
  <2>4. {Len(tick'.cursor), Len(tick'.source), tick'.to} \subseteq 0..MaxHeight
    BY <2>1, <2>3, IdleBounded
  <2> QED BY <2>1, <2>2, <2>4 DEF Bounded
<1>3. CASE Step
  <2>1. UNCHANGED <<chain, reorgs, failures, restarts>>
    BY <1>3 DEF Step, init, readCursor, verifyCursor, readHead, getLogs, readHeader, recheckCursor,
                commit, probe, commitRollback, Goto, NextTick, env
  <2>2. pc' \in {"tick", "verify", "head", "logs", "headers", "recheck", "commit", "probe",
                 "rollback"}
    BY <1>3 DEF Step, init, readCursor, verifyCursor, readHead, getLogs, readHeader, recheckCursor,
                commit, probe, commitRollback, Goto, NextTick
  <2>3. /\ {Len(tick'.cursor), Len(tick'.source), tick'.to} \subseteq 0..MaxHeight
        /\ lost' \in 0..MaxLost /\ Len(cursor') \in 0..MaxHeight /\ snapshots' = {}
    BY <1>3, TickBounded, StepLostBounded, StoreBounded
  <2> QED BY <2>1, <2>2, <2>3 DEF Bounded
<1>4. CASE UNCHANGED vars
  BY <1>4 DEF vars, env, store, Bounded
<1> QED BY <1>1, <1>2, <1>3, <1>4 DEF Next, Environment

\* Within the bounds, the tables and the process are as TypeOK says.
LEMMA BoundedTypes ==
    ASSUME IndexerInv, Bounded
    PROVE  TypeOK
<1>1. /\ chain \in Histories /\ cursor \in Histories
      /\ tick.cursor \in Histories /\ tick.source \in Histories
  BY BoundedHistories DEF IndexerInv, Sound, Tick, Bounded
<1>2. ASSUME NEW h \in blocks PROVE h \in Histories
  <2>1. h \in Seq(Content) /\ Len(h) <= Len(cursor) /\ Len(h) \in Nat /\ Len(cursor) \in Nat
    BY StoredNumbers DEF IndexerInv, Bounded
  <2>2. MaxHeight \in Nat
    BY IndexerAssumption DEF IndexerAssumption
  <2> QED BY <2>1, <2>2, BoundedHistories DEF Bounded
<1>3. ASSUME NEW e \in events PROVE e \in Rows
  <2>1. PICK d \in Deployment : e \in EventsOf(cursor, d)
    BY <1>3 DEF IndexerInv, StoreMirrors
  <2>2. PICK n \in 1..Len(cursor) : cursor[n] \in Watched[d] /\ e = [tx |-> cursor[n], block |-> n]
    BY <2>1, LogRows DEF EventsOf
  <2>3. cursor[n] \in Tx
    BY <2>2, IndexerAssumption DEF IndexerAssumption
  <2>4. n \in 1..MaxHeight
    BY <2>2, IndexerAssumption DEF IndexerAssumption, Bounded
  <2> QED BY <2>2, <2>3, <2>4 DEF Rows
<1>4. events \subseteq Rows
  BY <1>3
<1> QED BY <1>1, <1>2, <1>4 DEF TypeOK, IndexerInv, Sound, Bounded

LEMMA InitBounded == Init => Bounded
<1> SUFFICES ASSUME Init PROVE Bounded
  OBVIOUS
<1>1. Len(Unknown) = 0 /\ Unknown = << >>
  BY EmptySeq DEF Unknown
<1> QED BY <1>1, IndexerAssumption DEF Init, Bounded, Idle, IndexerAssumption

(* The tables hold histories and events of a bounded chain, whatever the bounds *)
(* are, and the process is at one of its steps.                                 *)
THEOREM IndexerTypes ==
    ASSUME "batch" \notin MidBatch
    PROVE  Spec => []TypeOK
<1>1. Init => IndexerInv /\ Bounded
  BY InitSound, InitBounded
<1>2. IndexerInv /\ Bounded /\ [Next]_vars => IndexerInv' /\ Bounded'
  BY NextKeeps, NextBounded
<1>3. IndexerInv /\ Bounded => TypeOK
  BY BoundedTypes
<1> QED BY <1>1, <1>2, <1>3, PTL DEF Spec

----
(* What a rollback deletes. *)

\* History h and chain c have different blocks of the same number.
Diverges(h, c) == \E i \in 1..Len(h) : i <= Len(c) /\ c[i] # h[i]

Known == blocks \cup tick.headers
WindowCovers == Cardinality(blocks) <= reorgWindow

\* Until the first reorganisation every block the indexer knows is on the chain,
\* and until the second one those that are not have been replaced, for good; what
\* the walk of handleReorg has passed is among these, unless a request was lost.
\* Only a window shorter than the store leaves blocks out, below those it holds.
Lineage ==
    /\ reorgs = 0 => \A h \in Known : IsAncestor(h, chain)
    /\ reorgs <= 1 => \A h \in Known : IsAncestor(h, chain) \/ Diverges(h, chain)
    /\ pc \in {"probe", "rollback"} /\ lost = 0 => reorgs >= 1
    /\ pc = "probe" /\ lost = 0 /\ reorgs <= 1 =>
         \A h \in blocks \ tick.left :
            Diverges(h, chain) \/ (~WindowCovers /\ \A g \in tick.left : Number(h) < Number(g))
    /\ pc = "rollback" /\ lost = 0 /\ reorgs <= 1 =>
         \A h \in blocks : (\E g \in tick.left : Number(g) < Number(h)) => Diverges(h, chain)

\* The blocks on the chain are the hashes it answers with; a replaced one is not.
LEMMA OnChainIsHash ==
    ASSUME NEW c \in Seq(Content), NEW h \in Seq(Content), h # Unknown
    PROVE  /\ IsAncestor(h, c) => h = HashIn(c, Len(h))
           /\ Diverges(h, c) => h # HashIn(c, Len(h))
<1>1. Len(h) \in Nat /\ Len(c) \in Nat /\ Len(h) # 0
  BY LenProperties, EmptySeq DEF Unknown
<1>2. ASSUME IsAncestor(h, c) PROVE h = HashIn(c, Len(h))
  <2>1. Len(h) <= Len(c) /\ h = SubSeq(c, 1, Len(h))
    BY <1>2 DEF IsAncestor
  <2>2. Len(h) \in 1..Len(c)
    BY <1>1, <2>1
  <2> QED BY <2>1, <2>2 DEF HashIn
<1>3. ASSUME Diverges(h, c), h = HashIn(c, Len(h)) PROVE FALSE
  <2>1. PICK i \in 1..Len(h) : i <= Len(c) /\ c[i] # h[i]
    BY <1>3 DEF Diverges
  <2>2. Len(h) \in 1..Len(c)
    BY <1>1, <1>3, HashProperties
  <2>3. \A j \in 1..Len(h) : HashIn(c, Len(h))[j] = c[j]
    BY <1>1, <2>2, HashProperties
  <2> QED BY <1>3, <2>1, <2>3
<1> QED BY <1>2, <1>3

\* A block that the chain no longer answers with, known before the second
\* reorganisation, has been replaced.
LEMMA ReplacedDiverges ==
    ASSUME IndexerInv, Lineage, reorgs <= 1, NEW h \in blocks, h # Hash(Number(h))
    PROVE  Diverges(h, chain)
<1>1. h \in Seq(Content) /\ h # Unknown /\ chain \in Seq(Content)
  BY DEF IndexerInv, Sound
<1>2. IsAncestor(h, chain) \/ Diverges(h, chain)
  BY DEF Lineage, Known
<1> QED BY <1>1, <1>2, OnChainIsHash, HashesOfChain DEF Number

\* A new block replaces nothing, and brings nothing back.
LEMMA NewBlockLineage ==
    ASSUME IndexerInv, NEW h \in Seq(Content), NewBlock
    PROVE  /\ IsAncestor(h, chain) => IsAncestor(h, chain')
           /\ Diverges(h, chain) => Diverges(h, chain')
<1>1. PICK c \in Content : chain' = Append(chain, c)
  BY DEF NewBlock
<1>2. chain \in Seq(Content) /\ Len(chain) \in Nat /\ Len(h) \in Nat
  BY LenProperties DEF IndexerInv, Sound
<1>3. /\ chain' \in Seq(Content) /\ Len(chain') = Len(chain) + 1
      /\ \A n \in 1..Len(chain) : chain'[n] = chain[n]
  BY <1>1, <1>2, AppendProperties
<1>4. ASSUME IsAncestor(h, chain) PROVE IsAncestor(h, chain')
  <2>1. Len(h) <= Len(chain) /\ \A i \in 1..Len(h) : h[i] = chain[i]
    BY <1>2, <1>4, AncestorElements
  <2>2. Len(h) <= Len(chain') /\ \A i \in 1..Len(h) : h[i] = chain'[i]
    BY <1>2, <1>3, <2>1
  <2> QED BY <1>3, <2>2, AncestorElements
<1>5. ASSUME Diverges(h, chain) PROVE Diverges(h, chain')
  BY <1>2, <1>3, <1>5 DEF Diverges
<1> QED BY <1>4, <1>5

\* A reorganisation replaces what it takes off the chain.
LEMMA ReorgLineage ==
    ASSUME IndexerInv, NEW h \in Seq(Content), Reorg, IsAncestor(h, chain)
    PROVE  IsAncestor(h, chain') \/ Diverges(h, chain')
<1>1. PICK k \in Nat : ChainChange(k)
  BY ReorgChanges DEF IndexerInv
<1>2. /\ chain \in Seq(Content) /\ chain' \in Seq(Content)
      /\ Len(chain) \in Nat /\ Len(chain') \in Nat /\ Len(h) \in Nat /\ 1 <= k
      /\ k <= Len(chain') + 1 /\ \A n \in 1..(k - 1) : chain'[n] = chain[n]
      /\ k <= Len(chain) => k <= Len(chain') /\ chain'[k] # chain[k]
  BY <1>1, LenProperties DEF IndexerInv, Sound, ChainChange
<1>3. Len(h) <= Len(chain) /\ \A i \in 1..Len(h) : h[i] = chain[i]
  BY <1>2, AncestorElements
<1>4. CASE k <= Len(h)
  <2>1. k \in 1..Len(h) /\ k <= Len(chain') /\ chain'[k] # h[k]
    BY <1>2, <1>3, <1>4
  <2> QED BY <2>1 DEF Diverges
<1>5. CASE ~(k <= Len(h))
  <2>1. Len(h) <= Len(chain') /\ \A i \in 1..Len(h) : h[i] = chain'[i]
    BY <1>2, <1>3, <1>5
  <2> QED BY <1>2, <2>1, AncestorElements
<1> QED BY <1>4, <1>5

\* The store is finite: its blocks have different numbers.
LEMMA StoreFinite ==
    ASSUME IndexerInv
    PROVE  IsFiniteSet(blocks)
<1>1. cursor \in Seq(Content) /\ Len(cursor) \in Nat
  BY LenProperties DEF IndexerInv, Sound
<1>2. \A h \in blocks : Len(h) \in 0..Len(cursor) /\ h = SubSeq(cursor, 1, Len(h))
  <2> SUFFICES ASSUME NEW h \in blocks
               PROVE  Len(h) \in 0..Len(cursor) /\ h = SubSeq(cursor, 1, Len(h))
    OBVIOUS
  <2>1. Len(h) \in Nat /\ Len(h) <= Len(cursor) /\ IsAncestor(h, cursor)
    BY StoredNumbers DEF IndexerInv
  <2> QED BY <1>1, <2>1 DEF IsAncestor
<1> DEFINE number == [h \in blocks |-> Len(h)]
<1>3. number \in Injection(blocks, 0..Len(cursor))
  BY <1>2 DEF Injection, IsInjective
<1>4. IsFiniteSet(0..Len(cursor))
  BY <1>1, FS_Interval
<1> HIDE DEF number
<1> QED BY <1>3, <1>4, FS_Injection

\* What the window leaves out is older than all it holds, and it leaves nothing out
\* when it holds as many blocks as are stored.
LEMMA WindowIsNewest ==
    ASSUME IndexerInv, tick.cursor = cursor, NEW h \in blocks \ Window
    PROVE  ~WindowCovers /\ \A g \in Window : Number(h) < Number(g)
<1> DEFINE above(f) == {g \in blocks : Number(g) > Number(f)}
<1>1. reorgWindow \in Nat
  BY IndexerAssumption DEF IndexerAssumption
<1>2. \A g \in blocks : Len(g) \in Nat /\ Len(g) <= Len(cursor)
  BY StoredNumbers DEF IndexerInv
<1>3. IsFiniteSet(blocks)
  BY StoreFinite
<1>4. \A f \in blocks : IsFiniteSet(above(f)) /\ Cardinality(above(f)) \in Nat
  BY <1>3, FS_Subset, FS_CardinalityType
<1>5. {g \in blocks : Number(g) <= Number(tick.cursor)} = blocks
  BY <1>2 DEF Number
<1>6. Window = {f \in blocks : Cardinality(above(f)) < reorgWindow}
  BY <1>5 DEF Window
<1> HIDE DEF above
<1>7. ~(Cardinality(above(h)) < reorgWindow)
  BY <1>6
<1>8. ~WindowCovers
  <2>1. above(h) \subseteq blocks \ {h}
    BY <1>2 DEF Number, above
  <2>2. /\ IsFiniteSet(blocks \ {h}) /\ Cardinality(blocks \ {h}) = Cardinality(blocks) - 1
        /\ Cardinality(blocks) \in Nat
    BY <1>3, FS_RemoveElement, FS_CardinalityType
  <2>3. Cardinality(above(h)) <= Cardinality(blocks \ {h})
    BY <2>1, <2>2, FS_Subset
  <2> QED BY <1>1, <1>4, <1>7, <2>2, <2>3 DEF WindowCovers
<1>9. ASSUME NEW g \in Window PROVE Number(h) < Number(g)
  <2>1. g \in blocks /\ Cardinality(above(g)) < reorgWindow
    BY <1>6
  <2>2. SUFFICES ASSUME Number(g) <= Number(h) PROVE FALSE
    BY <1>2, <2>1 DEF Number
  <2>3. above(h) \subseteq above(g)
    BY <1>2, <2>1, <2>2 DEF Number, above
  <2>4. Cardinality(above(h)) <= Cardinality(above(g))
    BY <1>4, <2>1, <2>3, FS_Subset
  <2> QED BY <1>1, <1>4, <1>7, <2>1, <2>4
<1> QED BY <1>8, <1>9

\* Nothing known is forgotten about, or learnt, while the chain, the process and
\* what it knows stay the same.
LEMMA SameLineage ==
    ASSUME Lineage, UNCHANGED <<chain, reorgs>>, Known' \subseteq Known,
           pc' \notin {"probe", "rollback"}
    PROVE  Lineage'
BY DEF Lineage, Diverges

LEMMA ChainLineage ==
    ASSUME IndexerInv, Bounded, Lineage, NewBlock \/ Reorg
    PROVE  Lineage'
<1>1. UNCHANGED <<blocks, tick, pc, lost>> /\ reorgs \in Nat /\ Known' = Known /\ blocks \subseteq Known
  BY IndexerAssumption DEF NewBlock, Reorg, store, Bounded, IndexerAssumption, Known
<1>2. \A h \in Known : h \in Seq(Content)
  BY DEF Known, IndexerInv, Sound, Tick
<1>3. CASE NewBlock
  <2>1. reorgs' = reorgs
    BY <1>3 DEF NewBlock
  <2>2. \A h \in Known : /\ IsAncestor(h, chain) => IsAncestor(h, chain')
                         /\ Diverges(h, chain) => Diverges(h, chain')
    BY <1>2, <1>3, NewBlockLineage
  <2>3. reorgs' = 0 => \A h \in Known' : IsAncestor(h, chain')
    BY <1>1, <2>1, <2>2 DEF Lineage
  <2>4. reorgs' <= 1 => \A h \in Known' : IsAncestor(h, chain') \/ Diverges(h, chain')
    BY <1>1, <2>1, <2>2 DEF Lineage
  <2>5. WindowCovers' = WindowCovers
    BY <1>1 DEF WindowCovers
  <2>6. ASSUME pc = "probe", lost = 0, reorgs' <= 1
        PROVE  \A h \in blocks \ tick.left :
                 Diverges(h, chain') \/ (~WindowCovers /\ \A g \in tick.left : Number(h) < Number(g))
    BY <1>1, <2>1, <2>2, <2>6 DEF Lineage
  <2>7. ASSUME pc = "rollback", lost = 0, reorgs' <= 1
        PROVE  \A h \in blocks : (\E g \in tick.left : Number(g) < Number(h)) => Diverges(h, chain')
    BY <1>1, <2>1, <2>2, <2>7 DEF Lineage
  <2>8. pc \in {"probe", "rollback"} /\ lost = 0 => reorgs' >= 1
    BY <2>1 DEF Lineage
  <2> QED BY <1>1, <2>3, <2>4, <2>5, <2>6, <2>7, <2>8 DEF Lineage
<1>4. CASE Reorg
  <2>1. reorgs' = reorgs + 1
    BY <1>4 DEF Reorg
  <2>2. reorgs' <= 1 => reorgs = 0
    BY <1>1, <2>1
  <2>3. ASSUME reorgs' <= 1, NEW h \in Known PROVE IsAncestor(h, chain') \/ Diverges(h, chain')
    BY <1>2, <1>4, <2>2, <2>3, ReorgLineage DEF Lineage
  <2>4. pc \in {"probe", "rollback"} /\ lost = 0 => ~(reorgs' <= 1)
    BY <1>1, <2>2 DEF Lineage
  <2>5. reorgs' >= 1 /\ reorgs' # 0
    BY <1>1, <2>1
  <2> QED BY <1>1, <2>3, <2>4, <2>5 DEF Lineage
<1> QED BY <1>3, <1>4

LEMMA verifyCursorLineage ==
    ASSUME IndexerInv, Bounded, Lineage, verifyCursor
    PROVE  Lineage'
<1>1. /\ UNCHANGED <<chain, reorgs, blocks>> /\ pc = "verify" /\ tick.cursor = cursor
      /\ tick \in Tick /\ chain \in Seq(Content) /\ cursor \in Seq(Content)
  BY DEF verifyCursor, Goto, store, IndexerInv, TickSound, Sound
<1>2. PICK h \in {Unknown, Hash(Number(tick.cursor))} :
         /\ GetBlock(Number(tick.cursor), h)
         /\ IF h = tick.cursor
            THEN Goto("head") /\ UNCHANGED tick
            ELSE Goto("probe") /\ tick' = [tick EXCEPT !.left = Window]
  BY DEF verifyCursor
<1>3. CASE h = tick.cursor
  <2>1. pc' = "head" /\ tick' = tick
    BY <1>2, <1>3 DEF Goto
  <2>2. Known' = Known
    BY <1>1, <2>1 DEF Known
  <2> QED BY <1>1, <2>1, <2>2, SameLineage
<1>4. CASE h # tick.cursor
  <2>1. pc' = "probe" /\ tick' = [tick EXCEPT !.left = Window]
    BY <1>2, <1>4 DEF Goto
  <2>2. tick'.left = Window /\ tick'.headers = tick.headers /\ Known' = Known
    BY <1>1, <2>1 DEF Tick, Known
  <2>3. \A g \in blocks \ Window : ~WindowCovers /\ \A f \in Window : Number(g) < Number(f)
    BY <1>1, WindowIsNewest
  <2>4. lost \in Nat /\ reorgs \in Nat
    BY IndexerAssumption DEF Bounded, IndexerAssumption
  <2>5. lost' = 0 => h = Hash(Number(tick.cursor))
    BY <1>2, <2>4 DEF GetBlock
  <2>6. ASSUME reorgs = 0 PROVE cursor = Hash(Number(cursor))
    <3>1. CASE cursor = Unknown
      <4>1. Hash(0) = Unknown
        BY <1>1, HashProperties, HashesOfChain
      <4> QED BY <3>1, <4>1, IdleSound
    <3>2. CASE cursor # Unknown
      <4>1. IsAncestor(cursor, chain)
        BY <2>6, <3>2 DEF IndexerInv, StoredBlocksOfCursor, Lineage, Known
      <4> QED BY <1>1, <3>2, <4>1, OnChainIsHash, HashesOfChain DEF Number
    <3> QED BY <3>1, <3>2
  <2>7. lost' = 0 => reorgs >= 1
    BY <1>1, <1>4, <2>4, <2>5, <2>6
  <2>8. WindowCovers' = WindowCovers
    BY <1>1 DEF WindowCovers
  <2>9. \A g \in blocks \ tick'.left : ~WindowCovers /\ \A f \in tick'.left : Number(g) < Number(f)
    BY <2>2, <2>3
  <2>10. /\ reorgs' = 0 => \A g \in Known' : IsAncestor(g, chain')
         /\ reorgs' <= 1 => \A g \in Known' : IsAncestor(g, chain') \/ Diverges(g, chain')
    BY <1>1, <2>2 DEF Lineage
  <2> QED BY <1>1, <2>1, <2>7, <2>8, <2>9, <2>10 DEF Lineage
<1> QED BY <1>3, <1>4

LEMMA readHeaderLineage ==
    ASSUME IndexerInv, Lineage, readHeader
    PROVE  Lineage'
<1> DEFINE unread == {n \in Numbers : \A h \in tick.headers : Number(h) # n}
           next == CHOOSE n \in unread : \A m \in unread : n <= m
<1>1. /\ UNCHANGED <<chain, reorgs, blocks>> /\ pc = "headers"
      /\ pc' \in {"tick", "headers", "commit", "recheck"}
  BY DEF readHeader, Goto, NextTick, store
<1>2. /\ tick \in Tick /\ chain \in Seq(Content) /\ blocks \subseteq Known
  BY DEF IndexerInv, Sound, Known
<1>3. PICK h \in {Unknown, Hash(next)} :
         \/ tick' = Idle
         \/ h # Unknown /\ tick' = [tick EXCEPT !.headers = tick.headers \cup {h}]
  BY DEF readHeader, NextTick
<1> HIDE DEF unread, next
<1>4. CASE tick' = Idle
  <2>1. Known' \subseteq Known
    BY <1>1, <1>4 DEF Known, Idle
  <2> QED BY <1>1, <2>1, SameLineage
<1>5. CASE h # Unknown /\ tick' = [tick EXCEPT !.headers = tick.headers \cup {h}]
  <2>1. Known' = Known \cup {h}
    BY <1>1, <1>2, <1>5 DEF Known, Tick
  <2>2. h = Hash(next) /\ Hash(next) # Unknown
    BY <1>3, <1>5
  <2>3. next \in 1..Len(chain) /\ h = HashIn(chain, next)
    BY <2>2, HashesOfChain DEF Hash
  <2>4. IsAncestor(h, chain)
    BY <1>2, <2>3, HashProperties, LenProperties
  <2>5. /\ reorgs' = 0 => \A g \in Known' : IsAncestor(g, chain')
        /\ reorgs' <= 1 => \A g \in Known' : IsAncestor(g, chain') \/ Diverges(g, chain')
    BY <1>1, <2>1, <2>4 DEF Lineage
  <2> QED BY <1>1, <2>5 DEF Lineage
<1> QED BY <1>3, <1>4, <1>5

LEMMA probeLineage ==
    ASSUME IndexerInv, Bounded, Lineage, probe
    PROVE  Lineage'
<1> DEFINE row == Newest(tick.left)
<1>1. /\ UNCHANGED <<chain, reorgs, blocks>> /\ pc = "probe" /\ tick.left # {}
      /\ tick \in Tick /\ tick.left \subseteq blocks
  BY DEF probe, Goto, store, IndexerInv, Sound, TickSound
<1>2. PICK h \in {Unknown, Hash(Number(row))} :
         /\ GetBlock(Number(row), h)
         /\ IF h = row
            THEN Goto("rollback") /\ tick' = [tick EXCEPT !.left = {row}]
            ELSE Goto("probe") /\ tick' = [tick EXCEPT !.left = tick.left \ {row}]
  BY DEF probe
<1>3. row \in tick.left /\ \A g \in tick.left : Number(g) <= Number(row)
  BY <1>1, NewestOfLeft
<1> HIDE DEF row
<1>4. lost \in Nat /\ reorgs \in Nat
  BY IndexerAssumption DEF Bounded, IndexerAssumption
<1>5. lost' = 0 => lost = 0 /\ h = Hash(Number(row))
  BY <1>2, <1>4 DEF GetBlock
<1>6. Known' = Known /\ WindowCovers' = WindowCovers
  <2>1. tick'.headers = tick.headers
    BY <1>1, <1>2 DEF Tick
  <2> QED BY <1>1, <2>1 DEF Known, WindowCovers
<1>7. /\ reorgs' = 0 => \A g \in Known' : IsAncestor(g, chain')
      /\ reorgs' <= 1 => \A g \in Known' : IsAncestor(g, chain') \/ Diverges(g, chain')
      /\ lost' = 0 => reorgs' >= 1
  BY <1>1, <1>5, <1>6 DEF Lineage
<1>8. ASSUME lost' = 0, reorgs' <= 1
      PROVE  \A g \in blocks \ tick.left :
               Diverges(g, chain) \/ (~WindowCovers /\ \A f \in tick.left : Number(g) < Number(f))
  BY <1>1, <1>5, <1>6, <1>8 DEF Lineage
<1>9. CASE h = row
  <2>1. pc' = "rollback" /\ tick'.left = {row}
    BY <1>1, <1>2, <1>9 DEF Tick, Goto
  <2>2. ASSUME lost' = 0, reorgs' <= 1, NEW g \in blocks, \E f \in tick'.left : Number(f) < Number(g)
        PROVE  Diverges(g, chain)
    <3>1. Number(row) < Number(g) /\ Number(row) \in Nat /\ Number(g) \in Nat
      BY <1>1, <1>3, <2>1, <2>2, StoredNumbers DEF IndexerInv, Number
    <3>2. g \notin tick.left /\ ~(Number(g) < Number(row))
      BY <1>3, <3>1
    <3> QED BY <1>3, <1>8, <2>2, <3>2
  <2> QED BY <1>1, <1>7, <2>1, <2>2 DEF Lineage
<1>10. CASE h # row
  <2>1. pc' = "probe" /\ tick'.left = tick.left \ {row}
    BY <1>1, <1>2, <1>10 DEF Tick, Goto
  <2>2. ASSUME lost' = 0, reorgs' <= 1, NEW g \in blocks \ tick'.left
        PROVE  Diverges(g, chain) \/ (~WindowCovers /\ \A f \in tick'.left : Number(g) < Number(f))
    <3>1. CASE g = row
      <4>1. row \in blocks /\ row # Hash(Number(row)) /\ reorgs <= 1
        BY <1>1, <1>3, <1>5, <1>10, <2>2
      <4> QED BY <3>1, <4>1, ReplacedDiverges
    <3>2. CASE g # row
      <4>1. g \in blocks \ tick.left /\ tick'.left \subseteq tick.left
        BY <2>1, <3>2
      <4>2. Diverges(g, chain) \/ (~WindowCovers /\ \A f \in tick.left : Number(g) < Number(f))
        BY <1>8, <2>2, <4>1
      <4> QED BY <4>1, <4>2
    <3> QED BY <3>1, <3>2
  <2> QED BY <1>1, <1>6, <1>7, <2>1, <2>2 DEF Lineage
<1> QED BY <1>9, <1>10

LEMMA NextLineage ==
    ASSUME IndexerInv, Bounded, Lineage, [Next]_vars
    PROVE  Lineage'
<1>1. CASE NewBlock \/ Reorg
  BY <1>1, ChainLineage
<1>2. CASE Abandon \/ Redeploy
  <2>1. UNCHANGED <<chain, reorgs, blocks>> /\ tick' = Idle /\ pc' \in {"tick", "init"}
    BY <1>2 DEF Abandon, Redeploy, store
  <2>2. Known' \subseteq Known
    BY <2>1 DEF Known, Idle
  <2> QED BY <2>1, <2>2, SameLineage
<1>3. CASE init
  <2>1. UNCHANGED <<chain, reorgs, tick>> /\ blocks' \subseteq blocks /\ pc' = "tick"
    BY <1>3 DEF init, env, store
  <2>2. Known' \subseteq Known
    BY <2>1 DEF Known
  <2> QED BY <2>1, <2>2, SameLineage
<1>4. CASE commit
  <2>1. /\ UNCHANGED <<chain, reorgs>> /\ tick' = Idle /\ pc' = "tick"
        /\ blocks' = blocks \/ blocks' = blocks \cup tick.headers
    BY <1>4 DEF commit, env, store, persistBlocks
  <2>2. Known' \subseteq Known
    BY <2>1 DEF Known, Idle
  <2> QED BY <2>1, <2>2, SameLineage
<1>5. CASE commitRollback
  <2>1. UNCHANGED <<chain, reorgs>> /\ tick' = Idle /\ pc' = "tick" /\ blocks' \subseteq blocks
    BY <1>5 DEF commitRollback, env, rollback
  <2>2. Known' \subseteq Known
    BY <2>1 DEF Known, Idle
  <2> QED BY <2>1, <2>2, SameLineage
<1>6. CASE readCursor \/ readHead \/ getLogs \/ recheckCursor
  <2>1. /\ UNCHANGED <<chain, reorgs, blocks>>
        /\ pc' \in {"tick", "verify", "head", "logs", "headers", "commit"}
    BY <1>6 DEF readCursor, readHead, getLogs, recheckCursor, Goto, NextTick, store
  <2>2. \/ tick' = Idle \/ tick' = tick \/ tick' = [Idle EXCEPT !.cursor = cursor]
        \/ tick' = [tick EXCEPT !.to = BatchEnd]
        \/ tick' = [tick EXCEPT !.source = SubSeq(chain, 1, Lesser(tick.to, Len(chain)))]
    BY <1>6 DEF readCursor, readHead, getLogs, recheckCursor, NextTick
  <2>3. tick \in Tick
    BY DEF IndexerInv, Sound
  <2>4. tick'.headers \subseteq tick.headers
    BY <2>2, <2>3 DEF Idle, Tick
  <2>5. Known' \subseteq Known
    BY <2>1, <2>4 DEF Known
  <2> QED BY <2>1, <2>5, SameLineage
<1>7. CASE verifyCursor
  BY <1>7, verifyCursorLineage
<1>8. CASE readHeader
  BY <1>8, readHeaderLineage
<1>9. CASE probe
  BY <1>9, probeLineage
<1>10. CASE UNCHANGED vars
  BY <1>10 DEF vars, env, store, Lineage, Known, WindowCovers
<1> QED BY <1>1, <1>2, <1>3, <1>4, <1>5, <1>6, <1>7, <1>8, <1>9, <1>10 DEF Next, Environment, Step

\* The events a step deletes, with the process past init.
LEMMA DeletedWereReplaced ==
    ASSUME IndexerInv, Bounded, Lineage, [Next]_vars, NEW e \in events \ events',
           pc # "init", lost = 0, reorgs <= 1, tick.left = {} => WindowCovers
    PROVE  SubSeq(cursor, 1, e.block) # Hash(e.block)
<1>1. commitRollback
  <2>1. commit => events \subseteq events'
    BY DEF commit, persistEvents, insert, store
  <2>2. init \/ commit \/ commitRollback \/ UNCHANGED events
    BY DEF Next, Environment, Step, NewBlock, Reorg, Abandon, Redeploy, readCursor, verifyCursor,
           readHead, getLogs, readHeader, recheckCursor, probe, Goto, NextTick, vars, env, store
  <2> QED BY <2>1, <2>2 DEF init
<1>2. PICK b \in blocks : Number(b) = e.block
  BY DEF IndexerInv, StoredBlocksOfCursor
<1>3. /\ b \in Seq(Content) /\ b # Unknown /\ chain \in Seq(Content)
      /\ Len(b) \in Nat /\ 1 <= Len(b) /\ IsAncestor(b, cursor)
  BY StoredNumbers DEF IndexerInv, Sound
<1>4. b = SubSeq(cursor, 1, e.block)
  BY <1>2, <1>3 DEF IsAncestor, Number
<1>5. Diverges(b, chain)
  <2>1. CASE pc = "rollback" /\ rollback(CHOOSE h \in tick.left : TRUE)
    <3> DEFINE row == CHOOSE h \in tick.left : TRUE
    <3>1. tick.left # {} /\ tick.left \subseteq blocks
      BY <2>1 DEF IndexerInv, TickSound
    <3>2. row \in tick.left
      BY <3>1
    <3>3. events' = {f \in events : f.block <= Number(row)}
      BY <2>1 DEF rollback
    <3> HIDE DEF row
    <3>4. ~(e.block <= Number(row)) /\ Number(row) \in Nat
      BY <3>1, <3>2, <3>3, StoredNumbers DEF IndexerInv, Number
    <3> QED BY <1>2, <1>3, <2>1, <3>1, <3>2, <3>4 DEF Lineage, Number
  <2>2. CASE pc = "probe" /\ tick.left = {}
    BY <2>2 DEF Lineage
  <2> QED BY <1>1, <2>1, <2>2 DEF commitRollback
<1>6. b # HashIn(chain, Len(b))
  BY <1>3, <1>5, OnChainIsHash
<1> QED BY <1>2, <1>4, <1>6, HashesOfChain DEF Number

(* A rollback deletes an event only when its block is no longer on the chain,   *)
(* or one of the three exceptions of handleReorg applies: a lost request, a     *)
(* chain reorganised back, and a fork deeper than the window.                   *)
THEOREM DeletesOnlyReplaced ==
    ASSUME "batch" \notin MidBatch
    PROVE  Spec => OnlyReplacedDeleted
<1>1. Init => IndexerInv /\ Bounded /\ Lineage
  <2> SUFFICES ASSUME Init PROVE IndexerInv /\ Bounded /\ Lineage
    OBVIOUS
  <2>1. Lineage
    BY DEF Init, Idle, Lineage, Known
  <2> QED BY <2>1, InitSound, InitBounded
<1>2. IndexerInv /\ Bounded /\ Lineage /\ [Next]_vars => IndexerInv' /\ Bounded' /\ Lineage'
  BY NextKeeps, NextBounded, NextLineage
<1>3. IndexerInv /\ Bounded /\ Lineage /\ [Next]_vars =>
        [\A e \in events \ events' :
           \/ pc = "init" \/ SubSeq(cursor, 1, e.block) # Hash(e.block)
           \/ lost > 0 \/ reorgs > 1
           \/ tick.left = {} /\ Cardinality(blocks) > reorgWindow]_vars
  <2> SUFFICES ASSUME IndexerInv, Bounded, Lineage, [Next]_vars, NEW e \in events \ events',
                      pc # "init", ~(lost > 0), ~(reorgs > 1),
                      ~(tick.left = {} /\ Cardinality(blocks) > reorgWindow)
               PROVE  SubSeq(cursor, 1, e.block) # Hash(e.block)
    OBVIOUS
  <2>1. lost = 0 /\ reorgs <= 1
    BY IndexerAssumption DEF Bounded, IndexerAssumption
  <2>2. tick.left = {} => WindowCovers
    <3>1. Cardinality(blocks) \in Nat /\ reorgWindow \in Nat
      BY StoreFinite, FS_CardinalityType, IndexerAssumption DEF IndexerAssumption
    <3> QED BY <3>1 DEF WindowCovers
  <2> QED BY <2>1, <2>2, DeletedWereReplaced
<1> QED BY <1>1, <1>2, <1>3, PTL DEF Spec, OnlyReplacedDeleted
=============================================================================

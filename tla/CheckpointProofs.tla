-------------------------- MODULE CheckpointProofs --------------------------
(***************************************************************************)
(* Checkpoints, restores and retries for any number of goroutines, events  *)
(* and keys.  The invariant has four parts, about the positions, about the *)
(* snapshots and the journal, about the deltas and about the sink.         *)
(***************************************************************************)
EXTENDS Checkpoint, DataTheorems

Locations == {"idle", "version", "fence", "commit", "flushed", "retry",
              "replay"}

Entries == [offset : Nat, kind : {"commit", "restore"}]

PositionTypeOK ==
  /\ emitted \in Nat
  /\ cpc \in [Thread -> Locations]
  /\ position \in [Thread -> Nat]
  /\ from \in [Thread -> Nat]
  /\ lastCommitted \in Nat /\ lastManifest \in Nat /\ committed \in Nat
  /\ log \in Seq(Entries)
  /\ \A s \in snaps : s.offset \in Nat

PositionInv == PositionTypeOK /\ PositionsAgree

(***************************************************************************)
(* A snapshot is numbered when taken; the newest one is bridged by the     *)
(* journal unless a restore emptied it.  A goroutine between the fence and *)
(* the end of Commit holds such a snapshot, not yet among the committed.   *)
(***************************************************************************)
Snapshots == [data : [Key -> Nat], seq : Nat, id : Nat]

BridgedIn(x, newest, cut, jnl, now) ==
  /\ x \in Snapshots
  /\ x.id <= newest
  /\ x.id = newest /\ ~cut => Plus(x.data, jnl) = now

Bridged(x) == BridgedIn(x, captures, journalCut, journal, data)

StoreTypeOK ==
  /\ data \in [Key -> Nat] /\ journal \in [Key -> Nat] /\ deltas \in [Key -> Nat]
  /\ seq \in Nat /\ captures \in Nat
  /\ cpc \in [Thread -> Locations]
  /\ DOMAIN held = Thread
  /\ work \in Nat /\ stage \in {"record", "write", "fold"}
  /\ stage # "record" => KeyOf[work] \in Key

AllBridged ==
  /\ \A s \in snaps : Bridged(s.snap)
  /\ \A t \in Thread : cpc[t] \in {"commit", "flushed"} => Bridged(held[t])

JournalInv ==
  /\ StoreTypeOK
  /\ AllBridged

(* Offsets in work belong to processed events; a round that is not full    *)
(* has finitely many keys.                                                 *)
DeltaInv ==
  /\ emitted \in 0..MaxEvents
  /\ restores \in Nat
  /\ processed \subseteq 0..(emitted - 1)
  /\ stage # "record" => work \in processed
  /\ IsFiniteSet(PendingKeys(deltas))
  /\ DeltasConserved

-----------------------------------------------------------------------------
(* Log.Append keeps the newest entries. *)
LEMMA LogAppendFacts ==
  ASSUME log \in Seq(Entries), Len(log) <= LogCapacity,
         NEW x \in Entries, LogAppend(x)
  PROVE  /\ log' \in Seq(Entries) /\ Len(log') <= LogCapacity
         /\ log' # <<>> /\ Last(log') = x
<1> DEFINE L == Len(log)
           C == LogCapacity
           all == Append(log, x)
           n == Len(all)
           m == n - C + 1
<1>1. L \in Nat /\ C \in Nat /\ C > 0
  BY CheckpointAssumption, LenProperties
<1>2. all \in Seq(Entries) /\ n = L + 1 /\ all[L + 1] = x
  BY AppendProperties
<1>0. log' = IF n > C THEN SubSeq(all, m, n) ELSE all
  BY DEF LogAppend
<1>3. CASE L + 1 > C
  <2> HIDE DEF L, C, all, n
  <2>1. m = 2 /\ L = C /\ n \in Int /\ m \in Int
    BY <1>1, <1>2, <1>3 DEF L, C
  <2>3. \A i \in m..n : all[i] \in Entries
    <3>1. \A i \in m..n : i \in 1..n
      BY <1>1, <1>2, <2>1
    <3> QED BY <1>2, <3>1, ElementOfSeq DEF n
  <2> HIDE DEF m
  <2>2. log' = SubSeq(all, m, n)
    BY <1>0, <1>2, <1>3
  <2>4. /\ log' \in Seq(Entries)
        /\ Len(log') = IF m <= n THEN n - m + 1 ELSE 0
        /\ \A i \in 1..(n - m + 1) : log'[i] = all[m + i - 1]
    BY <2>1, <2>2, <2>3, SubSeqProperties
  <2>5. Len(log') = L /\ log'[L] = all[L + 1]
    <3>1. m <= n /\ n - m + 1 = L
      BY <1>1, <1>2, <2>1
    <3>2. L \in 1..(n - m + 1) /\ m + L - 1 = L + 1
      BY <1>1, <1>2, <2>1
    <3> QED BY <2>4, <3>1, <3>2
  <2>6. Last(log') = x
    BY <1>2, <2>5 DEF Last
  <2>7. log' # <<>>
    BY <1>1, <2>1, <2>5
  <2>8. Len(log') <= C
    BY <1>1, <2>1, <2>5
  <2> QED BY <2>4, <2>6, <2>7, <2>8 DEF C
<1>4. CASE ~(L + 1 > C)
  <2>1. log' = all
    BY <1>0, <1>2, <1>4
  <2> HIDE DEF all
  <2>2. Len(log') = L + 1 /\ L + 1 <= C /\ L + 1 # 0
    BY <1>1, <1>2, <1>4, <2>1
  <2>3. log' # <<>>
    BY <2>2
  <2>4. Last(log') = x
    BY <1>2, <2>1, <2>2 DEF Last
  <2> QED BY <1>2, <2>1, <2>2, <2>3, <2>4
<1> QED BY <1>3, <1>4

(* Commit and Restore end alike: a new position is published. *)
LEMMA PositionPublished ==
  ASSUME PositionInv, NEW x \in Nat, NEW k \in {"commit", "restore"},
         lastCommitted' = x, lastManifest' = x, CommitOffset(x),
         LogAppend([offset |-> x, kind |-> k]),
         \A s \in snaps' : s \in snaps \/ s.offset = x
  PROVE  /\ PositionsAgree' /\ log' \in Seq(Entries)
         /\ lastCommitted' \in Nat /\ lastManifest' \in Nat
         /\ committed' \in Nat /\ committed' >= committed
         /\ \A s \in snaps' : s.offset \in Nat
<1> DEFINE e == [offset |-> x, kind |-> k]
<1>1. e \in Entries /\ e.offset = x
  BY DEF Entries
<1>2. /\ committed \in Nat /\ log \in Seq(Entries) /\ Len(log) <= LogCapacity
      /\ \A s \in snaps : s.offset \in Nat /\ s.offset <= committed
  BY DEF PositionInv, PositionTypeOK, PositionsAgree
<1>3. committed' \in Nat /\ committed' >= committed /\ x <= committed'
  BY <1>2 DEF CommitOffset
<1>4. /\ log' \in Seq(Entries) /\ Len(log') <= LogCapacity
      /\ log' # <<>> /\ Last(log') = e
  <2> HIDE DEF e
  <2>1. LogAppend(e)
    BY DEF e
  <2> QED BY <1>1, <1>2, <2>1, LogAppendFacts
<1>5. \A s \in snaps' : s.offset \in Nat /\ s.offset <= committed'
  BY <1>2, <1>3
<1> HIDE DEF e
<1> QED BY <1>1, <1>3, <1>4, <1>5 DEF PositionsAgree

LEMMA PositionUntouched ==
  ASSUME PositionInv, emitted' \in Nat, cpc' \in [Thread -> Locations],
         position' \in [Thread -> Nat],
         from' \in [Thread -> Nat],
         UNCHANGED <<lastCommitted, lastManifest, committed, log, snaps>>
  PROVE  PositionInv'
<1>1. PositionTypeOK'
  BY DEF PositionInv, PositionTypeOK
<1>2. PositionsAgree'
  BY DEF PositionInv, PositionsAgree
<1> QED BY <1>1, <1>2 DEF PositionInv

LEMMA PositionKeeps ==
  ASSUME PositionInv, CheckpointNext
  PROVE  PositionInv'
<1> USE DEF coordVars, runVars, historyVars, processVars
<1>1. PositionTypeOK
  BY DEF PositionInv
<1>2. CASE Emit
  BY <1>1, <1>2, PositionUntouched DEF Emit, PositionTypeOK
<1>3. CASE \/ \E o \in 0..(MaxEvents - 1) : RecordEvent(o)
           \/ WriteEvent \/ FoldDelta
  BY <1>1, <1>3, PositionUntouched
     DEF RecordEvent, WriteEvent, FoldDelta, PositionTypeOK
<1>4. ASSUME NEW t \in Thread, RunCheckpoint(t) PROVE PositionInv'
  <2>1. cpc' \in [Thread -> Locations] /\ position' \in [Thread -> Nat]
    BY <1>1, <1>4 DEF RunCheckpoint, PositionTypeOK, Locations
  <2> QED BY <1>1, <1>4, <2>1, PositionUntouched DEF RunCheckpoint, PositionTypeOK
<1>5. ASSUME NEW t \in Thread, \/ ReadVersion(t) \/ TakeSnapshot(t) \/ FlushSink(t)
                            \/ BeginReplay(t)
      PROVE  PositionInv'
  <2>1. cpc' \in [Thread -> Locations]
    BY <1>1, <1>5 DEF ReadVersion, TakeSnapshot, FlushSink, BeginReplay,
       PositionTypeOK, Locations
  <2>2. UNCHANGED <<emitted, position, from, lastCommitted, lastManifest,
                    committed, log, snaps>>
    BY <1>5 DEF ReadVersion, TakeSnapshot, FlushSink, BeginReplay
  <2> QED BY <1>1, <2>1, <2>2, PositionUntouched DEF PositionTypeOK
<1>6. ASSUME NEW t \in Thread, PublishOffset(t) PROVE PositionInv'
  <2>1. position[t] \in Nat
    BY <1>1 DEF PositionTypeOK
  <2>2. \A s \in snaps' : s \in snaps \/ s.offset = position[t]
    BY <1>6 DEF PublishOffset
  <2>3. /\ PositionsAgree' /\ log' \in Seq(Entries)
        /\ lastCommitted' \in Nat /\ lastManifest' \in Nat
        /\ committed' \in Nat /\ committed' >= committed
        /\ \A s \in snaps' : s.offset \in Nat
    <3>1. /\ lastCommitted' = position[t] /\ lastManifest' = position[t]
          /\ CommitOffset(position[t])
          /\ LogAppend([offset |-> position[t], kind |-> "commit"])
      BY <1>6 DEF PublishOffset
    <3> QED BY <2>1, <2>2, <3>1, PositionPublished
  <2>4. /\ cpc' \in [Thread -> Locations] /\ position' \in [Thread -> Nat]
        /\ from' = from /\ emitted' = emitted
    BY <1>1, <1>6 DEF PublishOffset, PositionTypeOK, Locations
  <2>5. PositionTypeOK'
    BY <1>1, <2>3, <2>4 DEF PositionTypeOK
  <2> QED BY <2>3, <2>5 DEF PositionInv
<1>7. ASSUME NEW t \in Thread, Retry(t) \/ RetryReturns(t) PROVE PositionInv'
  <2>1. UNCHANGED <<emitted, position, lastCommitted, lastManifest, committed,
                    log, snaps>>
    BY <1>7 DEF Retry, RetryReturns
  <2>2. cpc' \in [Thread -> Locations]
    BY <1>1, <1>7 DEF Retry, RetryReturns, PositionTypeOK, Locations
  <2>3. from' \in [Thread -> Nat]
    <3>1. from \in [Thread -> Nat] /\ lastCommitted \in Nat
      BY <1>1 DEF PositionTypeOK
    <3>2. \E n \in Nat : from' = [from EXCEPT ![t] = n]
      BY <1>7, <3>1 DEF Retry, RetryReturns
    <3> QED BY <3>1, <3>2
  <2> QED BY <1>1, <2>1, <2>2, <2>3, PositionUntouched DEF PositionTypeOK
<1>8. ASSUME NEW s \in snaps, Restore(s) PROVE PositionInv'
  <2>1. s.offset \in Nat
    BY <1>1 DEF PositionTypeOK
  <2>2. UNCHANGED <<emitted, cpc, position, from, snaps>>
    BY <1>8 DEF Restore
  <2>3. /\ PositionsAgree' /\ log' \in Seq(Entries)
        /\ lastCommitted' \in Nat /\ lastManifest' \in Nat
        /\ committed' \in Nat /\ committed' >= committed
        /\ \A x \in snaps' : x.offset \in Nat
    <3>1. /\ lastCommitted' = s.offset /\ lastManifest' = s.offset
          /\ CommitOffset(s.offset)
          /\ LogAppend([offset |-> s.offset, kind |-> "restore"])
      BY <1>8 DEF Restore
    <3> QED BY <2>1, <2>2, <3>1, PositionPublished
  <2>4. PositionTypeOK'
    BY <1>1, <2>2, <2>3 DEF PositionTypeOK
  <2> QED BY <2>3, <2>4 DEF PositionInv
<1> QED BY <1>2, <1>3, <1>4, <1>5, <1>6, <1>7, <1>8 DEF CheckpointNext
-----------------------------------------------------------------------------
LEMMA PlusType ==
  ASSUME NEW f \in [Key -> Nat], NEW g \in [Key -> Nat]
  PROVE  Plus(f, g) \in [Key -> Nat]
BY DEF Plus

LEMMA PlusAssociates ==
  ASSUME NEW f \in [Key -> Nat], NEW g \in [Key -> Nat], NEW h \in [Key -> Nat]
  PROVE  Plus(f, Plus(g, h)) = Plus(Plus(f, g), h)
<1>1. \A k \in Key : f[k] + (g[k] + h[k]) = (f[k] + g[k]) + h[k]
  OBVIOUS
<1> QED BY <1>1 DEF Plus

LEMMA ZeroType == Zero \in [Key -> Nat]
BY DEF Zero

LEMMA PlusZero ==
  ASSUME NEW f \in [Key -> Nat]
  PROVE  Plus(f, Zero) = f
<1>1. \A k \in Key : f[k] + 0 = f[k]
  OBVIOUS
<1> QED BY <1>1 DEF Plus, Zero

(* The deltas after maybeFlushDeltas added one. *)
LEMMA AddDeltaType ==
  ASSUME deltas \in [Key -> Nat], NEW k \in Key
  PROVE  AddDelta(k) \in [Key -> Nat]
         /\ \A j \in Key : AddDelta(k)[j] = IF j = k THEN deltas[j] + 1 ELSE deltas[j]
BY DEF AddDelta

LEMMA JournalUntouched ==
  ASSUME JournalInv, UNCHANGED <<data, journal, captures, journalCut, snaps, held>>,
         StoreTypeOK',
         \A t \in Thread : cpc'[t] \in {"commit", "flushed"} =>
                             cpc[t] \in {"commit", "flushed"}
  PROVE  JournalInv'
<1>1. AllBridged'
  BY DEF JournalInv, AllBridged, Bridged
<1> QED BY <1>1 DEF JournalInv

(* A round goes into the data and the journal alike. *)
LEMMA RoundBridged ==
  ASSUME StoreTypeOK, NEW d \in [Key -> Nat], ApplyRound(d),
         UNCHANGED journalCut, NEW x, Bridged(x)
  PROVE  BridgedIn(x, captures', journalCut', journal', data')
<1>1. /\ data' = Plus(data, d) /\ journal' = Plus(journal, d)
      /\ captures' = captures
  BY DEF ApplyRound
<1>2. x \in Snapshots /\ x.data \in [Key -> Nat] /\ journal \in [Key -> Nat]
  BY DEF Bridged, BridgedIn, Snapshots, StoreTypeOK
<1>3. Plus(x.data, Plus(journal, d)) = Plus(Plus(x.data, journal), d)
  BY <1>2, PlusAssociates
<1> QED BY <1>1, <1>3 DEF Bridged, BridgedIn

LEMMA JournalKeeps ==
  ASSUME JournalInv, CheckpointNext
  PROVE  JournalInv'
<1> USE DEF coordVars, runVars, historyVars, processVars, storeVars
<1>1. StoreTypeOK /\ AllBridged
  BY DEF JournalInv
<1>2. CASE Emit
  <2>1. StoreTypeOK'
    BY <1>1, <1>2 DEF Emit, StoreTypeOK
  <2> QED BY <1>2, <2>1, JournalUntouched DEF Emit
<1>3. ASSUME NEW o \in 0..(MaxEvents - 1), RecordEvent(o) PROVE JournalInv'
  <2>1. KeyOf[o] \in Key /\ o \in Nat
    BY CheckpointAssumption
  <2>2. StoreTypeOK'
    BY <1>1, <1>3, <2>1 DEF RecordEvent, Record, StoreTypeOK
  <2> QED BY <1>3, <2>2, JournalUntouched DEF RecordEvent, Record
<1>4. CASE WriteEvent
  <2>1. StoreTypeOK'
    BY <1>1, <1>4 DEF WriteEvent, StoreTypeOK
  <2> QED BY <1>4, <2>1, JournalUntouched DEF WriteEvent
<1>5. CASE FoldDelta
  <2> DEFINE all == AddDelta(KeyOf[work])
             full == Cardinality(PendingKeys(all)) >= FlushEvery
  <2>1. /\ stage = "fold" /\ stage' = "record" /\ work' = 0
        /\ IF full THEN ApplyRound(all) ELSE UNCHANGED storeVars
        /\ deltas' = IF full THEN Zero ELSE all
        /\ UNCHANGED <<cpc, held, snaps, journalCut>>
    BY <1>5 DEF FoldDelta
  <2>2. all \in [Key -> Nat]
    BY <1>1, <2>1, AddDeltaType DEF StoreTypeOK
  <2> HIDE DEF all, full
  <2>3. CASE full
    <3>1. ApplyRound(all) /\ deltas' = Zero
      BY <2>1, <2>3
    <3>2. StoreTypeOK'
      BY <1>1, <2>1, <2>2, <3>1, PlusType, ZeroType DEF StoreTypeOK, ApplyRound
    <3>3. \A x : Bridged(x) => BridgedIn(x, captures', journalCut', journal', data')
      BY <1>1, <2>1, <2>2, <3>1, RoundBridged
    <3>4. AllBridged'
      BY <1>1, <2>1, <3>3 DEF AllBridged, Bridged
    <3> QED BY <3>2, <3>4 DEF JournalInv
  <2>4. CASE ~full
    <3>1. UNCHANGED storeVars /\ deltas' = all
      BY <2>1, <2>4
    <3>2. StoreTypeOK'
      BY <1>1, <2>1, <2>2, <3>1 DEF StoreTypeOK
    <3> QED BY <2>1, <3>1, <3>2, JournalUntouched
  <2> QED BY <2>3, <2>4
<1>6. ASSUME NEW t \in Thread,
             \/ RunCheckpoint(t) \/ ReadVersion(t) \/ RetryReturns(t)
             \/ FlushSink(t) \/ Retry(t) \/ BeginReplay(t)
      PROVE  JournalInv'
  <2>1. UNCHANGED <<data, journal, seq, captures, journalCut, snaps, held, deltas,
                    work, stage>>
    BY <1>6 DEF RunCheckpoint, ReadVersion, RetryReturns, FlushSink, Retry,
       BeginReplay
  <2>2. cpc' \in [Thread -> Locations]
    BY <1>1, <1>6 DEF RunCheckpoint, ReadVersion, RetryReturns, FlushSink, Retry,
       BeginReplay, StoreTypeOK, Locations
  <2>3. \A u \in Thread : cpc'[u] \in {"commit", "flushed"} =>
                            cpc[u] \in {"commit", "flushed"}
    BY <1>1, <1>6 DEF RunCheckpoint, ReadVersion, RetryReturns, FlushSink, Retry,
       BeginReplay, StoreTypeOK
  <2>4. StoreTypeOK'
    BY <1>1, <2>1, <2>2 DEF StoreTypeOK
  <2> QED BY <2>1, <2>3, <2>4, JournalUntouched
<1>7. ASSUME NEW t \in Thread, TakeSnapshot(t) PROVE JournalInv'
  <2>1. /\ cpc[t] = "fence" /\ journal' = Zero /\ captures' = captures + 1
        /\ journalCut' = FALSE
        /\ UNCHANGED <<data, seq, deltas, work, stage, snaps>>
        /\ \/ /\ held' = [held EXCEPT ![t] = Capture]
              /\ cpc' = [cpc EXCEPT ![t] = "commit"]
           \/ /\ cpc' = [cpc EXCEPT ![t] = "version"]
              /\ UNCHANGED held
    BY <1>7 DEF TakeSnapshot, Snapshot
  <2>2. StoreTypeOK'
    BY <1>1, <2>1, ZeroType DEF StoreTypeOK, Locations
  <2>3. \A x : Bridged(x) => BridgedIn(x, captures', journalCut', journal', data')
    <3> SUFFICES ASSUME NEW x, Bridged(x)
                 PROVE  BridgedIn(x, captures', journalCut', journal', data')
      OBVIOUS
    <3>1. /\ x \in Snapshots /\ x.id \in Nat /\ x.id <= captures
          /\ captures \in Nat
      BY <1>1 DEF Bridged, BridgedIn, Snapshots, StoreTypeOK
    <3>2. x.id <= captures' /\ x.id # captures'
      BY <2>1, <3>1
    <3> QED BY <3>1, <3>2 DEF BridgedIn
  <2>4. BridgedIn(Capture, captures', journalCut', journal', data')
    <3>1. Capture = [data |-> data, seq |-> seq, id |-> captures + 1]
      BY DEF Capture
    <3>2. Capture \in Snapshots /\ Capture.id = captures + 1 /\ Capture.data = data
      BY <1>1, <3>1 DEF StoreTypeOK, Snapshots
    <3>3. Plus(data, Zero) = data
      BY <1>1, PlusZero DEF StoreTypeOK
    <3>4. captures + 1 <= captures + 1
      BY <1>1 DEF StoreTypeOK
    <3> QED BY <2>1, <3>2, <3>3, <3>4 DEF BridgedIn
  <2>5. AllBridged'
    <3>1. \A s \in snaps' : BridgedIn(s.snap, captures', journalCut', journal', data')
      BY <1>1, <2>1, <2>3 DEF AllBridged
    <3>2. ASSUME NEW u \in Thread, cpc'[u] \in {"commit", "flushed"}
          PROVE  BridgedIn(held'[u], captures', journalCut', journal', data')
      <4>1. CASE u = t
        BY <1>1, <2>1, <2>4, <3>2, <4>1 DEF StoreTypeOK
      <4>2. CASE u # t
        <5>1. cpc'[u] = cpc[u] /\ held'[u] = held[u]
          BY <1>1, <2>1, <4>2 DEF StoreTypeOK
        <5> QED BY <1>1, <2>3, <3>2, <5>1 DEF AllBridged
      <4> QED BY <4>1, <4>2
    <3> QED BY <3>1, <3>2 DEF AllBridged, Bridged
  <2> QED BY <2>2, <2>5 DEF JournalInv
<1>8. ASSUME NEW t \in Thread, PublishOffset(t) PROVE JournalInv'
  <2>1. /\ cpc[t] = "flushed" /\ cpc' = [cpc EXCEPT ![t] = "idle"]
        /\ snaps' = snaps \cup {[snap |-> held[t], offset |-> position[t]]}
        /\ held' = [held EXCEPT ![t] = NoSnapshot]
        /\ UNCHANGED <<data, journal, seq, captures, journalCut, deltas, work, stage>>
    BY <1>8 DEF PublishOffset
  <2>2. StoreTypeOK'
    BY <1>1, <2>1 DEF StoreTypeOK, Locations
  <2>3. \A x : Bridged(x) => BridgedIn(x, captures', journalCut', journal', data')
    BY <2>1 DEF Bridged
  <2>4. \A s \in snaps' : BridgedIn(s.snap, captures', journalCut', journal', data')
    <3>1. Bridged(held[t])
      BY <1>1, <2>1 DEF AllBridged
    <3> QED BY <1>1, <2>1, <2>3, <3>1 DEF AllBridged
  <2>5. ASSUME NEW u \in Thread, cpc'[u] \in {"commit", "flushed"}
        PROVE  BridgedIn(held'[u], captures', journalCut', journal', data')
    <3>1. u # t /\ cpc'[u] = cpc[u] /\ held'[u] = held[u]
      BY <1>1, <2>1, <2>5 DEF StoreTypeOK
    <3> QED BY <1>1, <2>3, <2>5, <3>1 DEF AllBridged
  <2>6. AllBridged'
    BY <2>4, <2>5 DEF AllBridged, Bridged
  <2> QED BY <2>2, <2>6 DEF JournalInv
<1>9. ASSUME NEW s \in snaps, Restore(s) PROVE JournalInv'
  <2>1. /\ journalCut' = TRUE
        /\ data' = Plus(s.snap.data, journal) /\ journal' = Zero
        /\ seq' = s.snap.seq + 1
        /\ UNCHANGED <<captures, cpc, held, snaps, deltas, work, stage>>
    BY <1>9 DEF Restore, RestoreSnapshot
  <2>2. s.snap \in Snapshots
    BY <1>1 DEF AllBridged, Bridged, BridgedIn
  <2>3. s.snap.data \in [Key -> Nat] /\ s.snap.seq \in Nat
    BY <2>2 DEF Snapshots
  <2>4. StoreTypeOK'
    BY <1>1, <2>1, <2>3, PlusType, ZeroType DEF StoreTypeOK
  <2>5. \A x : Bridged(x) => BridgedIn(x, captures', journalCut', journal', data')
    BY <2>1 DEF Bridged, BridgedIn
  <2>6. AllBridged'
    BY <1>1, <2>1, <2>5 DEF AllBridged, Bridged
  <2> QED BY <2>4, <2>6 DEF JournalInv
<1> QED BY <1>2, <1>3, <1>4, <1>5, <1>6, <1>7, <1>8, <1>9 DEF CheckpointNext
-----------------------------------------------------------------------------
LEMMA FoldedFinite ==
  ASSUME DeltaInv, NEW k \in Key
  PROVE  IsFiniteSet(Folded(k)) /\ Cardinality(Folded(k)) \in Nat
<1>1. IsFiniteSet(0..(emitted - 1))
  <2>1. 0 \in Int /\ emitted - 1 \in Int
    BY CheckpointAssumption DEF DeltaInv
  <2> QED BY <2>1, FS_Interval
<1>2. Folded(k) \in SUBSET (0..(emitted - 1))
  BY DEF Folded, DeltaInv
<1> QED BY <1>1, <1>2, FS_Subset, FS_CardinalityType

LEMMA DeltaUntouched ==
  ASSUME DeltaInv, UNCHANGED <<data, deltas, emitted, restores, processed, stage, work>>
  PROVE  DeltaInv'
BY DEF DeltaInv, DeltasConserved, Folded, PendingKeys

LEMMA DeltaKeeps ==
  ASSUME JournalInv, DeltaInv, CheckpointNext
  PROVE  DeltaInv'
<1> USE DEF coordVars, runVars, historyVars, processVars, storeVars
<1>0. MaxEvents \in Nat /\ FlushEvery \in Nat /\ FlushEvery > 0
  BY CheckpointAssumption
<1>1. StoreTypeOK /\ DeltasConserved /\ emitted \in 0..MaxEvents
  BY DEF JournalInv, DeltaInv
<1>2. CASE Emit
  <2>1. /\ emitted' = emitted + 1 /\ emitted < MaxEvents
        /\ UNCHANGED <<data, deltas, restores, processed, stage, work>>
    BY <1>2 DEF Emit
  <2>2. emitted' \in 0..MaxEvents /\ 0..(emitted - 1) \subseteq 0..(emitted' - 1)
    BY <1>0, <1>1, <2>1
  <2>3. DeltasConserved'
    BY <1>1, <2>1 DEF DeltasConserved, Folded, PendingKeys
  <2> QED BY <2>1, <2>2, <2>3 DEF DeltaInv, PendingKeys
<1>3. ASSUME NEW o \in 0..(MaxEvents - 1), RecordEvent(o) PROVE DeltaInv'
  <2>1. /\ stage = "record" /\ stage' = "write" /\ o < emitted
        /\ o \notin processed /\ work' = o /\ processed' = processed \cup {o}
        /\ UNCHANGED <<data, deltas, restores, emitted>>
    BY <1>3 DEF RecordEvent, Record
  <2>2. \A k \in Key : Folded(k)' = Folded(k)
    BY <2>1 DEF Folded
  <2>3. DeltasConserved'
    BY <1>1, <2>1, <2>2 DEF DeltasConserved, PendingKeys
  <2>4. o \in 0..(emitted - 1)
    BY <1>0, <1>1, <2>1
  <2> QED BY <2>1, <2>3, <2>4 DEF DeltaInv, PendingKeys
<1>4. CASE WriteEvent
  <2>1. /\ stage = "write" /\ stage' = "fold"
        /\ UNCHANGED <<data, deltas, restores, emitted, processed, work>>
    BY <1>4 DEF WriteEvent
  <2>2. \A k \in Key : Folded(k)' = Folded(k)
    BY <2>1 DEF Folded
  <2>3. DeltasConserved'
    BY <1>1, <2>1, <2>2 DEF DeltasConserved, PendingKeys
  <2> QED BY <2>1, <2>3 DEF DeltaInv, PendingKeys
<1>5. CASE FoldDelta
  <2> DEFINE j == KeyOf[work]
             all == AddDelta(j)
             pend == PendingKeys(all)
             full == Cardinality(pend) >= FlushEvery
  <2>1. /\ stage = "fold" /\ stage' = "record"
        /\ IF full THEN ApplyRound(all) ELSE UNCHANGED storeVars
        /\ deltas' = IF full THEN Zero ELSE all
        /\ UNCHANGED <<emitted, processed, restores>>
    BY <1>5 DEF FoldDelta
  <2>2. j \in Key /\ work \in processed
    BY <1>1, <2>1 DEF StoreTypeOK, DeltaInv
  <2>3. /\ all \in [Key -> Nat]
        /\ \A k \in Key : all[k] = IF k = j THEN deltas[k] + 1 ELSE deltas[k]
    BY <1>1, <2>2, AddDeltaType DEF StoreTypeOK
  <2>4. IsFiniteSet(pend)
    <3>1. pend \in SUBSET (PendingKeys(deltas) \cup {j})
      BY <2>3 DEF PendingKeys
    <3>2. IsFiniteSet(PendingKeys(deltas) \cup {j})
      BY FS_AddElement DEF DeltaInv
    <3> QED BY <3>1, <3>2, FS_Subset
  <2>5. Cardinality(pend) \in Nat
    BY <2>4, FS_CardinalityType
  <2> HIDE DEF all, pend
  <2>6. IsFiniteSet(PendingKeys(deltas)') /\ Cardinality(PendingKeys(deltas)') < FlushEvery
    <3>1. CASE full
      <4>1. PendingKeys(deltas)' = {}
        BY <2>1, <3>1 DEF PendingKeys, Zero
      <4> QED BY <1>0, <4>1, FS_EmptySet
    <3>2. CASE ~full
      <4>1. PendingKeys(deltas)' = pend
        BY <2>1, <3>2 DEF PendingKeys, pend
      <4>2. Cardinality(pend) < FlushEvery
        BY <1>0, <2>5, <3>2
      <4> QED BY <2>4, <4>1, <4>2
    <3> QED BY <3>1, <3>2
  <2>7. \A k \in Key : data'[k] + deltas'[k] = data[k] + all[k]
    <3>1. CASE full
      BY <1>1, <2>1, <2>3, <3>1 DEF ApplyRound, Plus, Zero, StoreTypeOK
    <3>2. CASE ~full
      BY <2>1, <3>2
    <3> QED BY <3>1, <3>2
  <2> HIDE DEF full
  <2>8. ASSUME NEW k \in Key, restores = 0
        PROVE  data'[k] + deltas'[k] = Cardinality(Folded(k)')
    <3>1. data[k] + deltas[k] = Cardinality(Folded(k))
      BY <1>1, <2>8 DEF DeltasConserved
    <3>2. data[k] \in Nat /\ deltas[k] \in Nat
      BY <1>1 DEF StoreTypeOK
    <3>3. IsFiniteSet(Folded(k)) /\ Cardinality(Folded(k)) \in Nat
      BY FoldedFinite
    <3>4. CASE k = j
      <4>1. Folded(k)' = Folded(k) \cup {work} /\ work \notin Folded(k)
        BY <2>1, <2>2, <3>4 DEF Folded
      <4>2. Cardinality(Folded(k) \cup {work}) = Cardinality(Folded(k)) + 1
        BY <3>3, <4>1, FS_AddElement
      <4>3. Cardinality(Folded(k)') = Cardinality(Folded(k)) + 1
        BY <4>1, <4>2
      <4>4. all[k] = deltas[k] + 1
        BY <2>3, <3>4
      <4>5. data'[k] + deltas'[k] = data[k] + all[k]
        BY <2>7
      <4> QED BY <3>1, <3>2, <3>3, <4>3, <4>4, <4>5
    <3>5. CASE k # j
      <4>1. Folded(k)' = Folded(k)
        BY <2>1, <3>5 DEF Folded
      <4> QED BY <2>3, <2>7, <3>1, <3>5, <4>1
    <3> QED BY <3>4, <3>5
  <2>9. DeltasConserved'
    BY <2>1, <2>6, <2>8 DEF DeltasConserved
  <2> QED BY <2>1, <2>6, <2>9 DEF DeltaInv
<1>6. ASSUME NEW t \in Thread,
             \/ RunCheckpoint(t) \/ ReadVersion(t) \/ TakeSnapshot(t)
             \/ FlushSink(t) \/ PublishOffset(t) \/ RetryReturns(t)
             \/ Retry(t) \/ BeginReplay(t)
      PROVE  DeltaInv'
  <2>1. UNCHANGED <<data, deltas, emitted, restores, processed, stage, work>>
    BY <1>6 DEF RunCheckpoint, ReadVersion, TakeSnapshot, Snapshot, FlushSink,
       PublishOffset, RetryReturns, Retry, BeginReplay
  <2> QED BY <2>1, DeltaUntouched
<1>7. ASSUME NEW s \in snaps, Restore(s) PROVE DeltaInv'
  <2>1. /\ restores' = restores + 1
        /\ UNCHANGED <<deltas, emitted, processed, stage, work>>
    BY <1>7 DEF Restore
  <2>2. restores' \in Nat /\ restores' # 0
    BY <2>1 DEF DeltaInv
  <2>3. DeltasConserved'
    BY <1>1, <2>1, <2>2 DEF DeltasConserved, PendingKeys
  <2> QED BY <2>1, <2>2, <2>3 DEF DeltaInv, PendingKeys
<1> QED BY <1>2, <1>3, <1>4, <1>5, <1>6, <1>7 DEF CheckpointNext
-----------------------------------------------------------------------------
(***************************************************************************)
(* The loop of Sink.CommitUpTo, as a fold.                                 *)
(***************************************************************************)
Lists == [done : Seq(Nat), kept : Seq(Nat)]

LEMMA DeliverType ==
  ASSUME NEW a \in Lists, NEW x \in Nat, NEW b \in Int
  PROVE  LET n == Deliver(a, x, b) IN
         /\ n \in Lists
         /\ n.done = IF x <= b THEN Append(a.done, x) ELSE a.done
         /\ n.kept = IF x <= b THEN a.kept ELSE Append(a.kept, x)
<1> DEFINE n == Deliver(a, x, b)
           more == Append(a.done, x)
           rest == Append(a.kept, x)
<1>1. more \in Seq(Nat) /\ rest \in Seq(Nat)
  BY AppendProperties DEF Lists
<1>2. n = IF x <= b THEN [a EXCEPT !.done = more] ELSE [a EXCEPT !.kept = rest]
  BY DEF Deliver
<1> HIDE DEF n, more, rest
<1>3. CASE x <= b
  <2>1. n = [a EXCEPT !.done = more]
    BY <1>2, <1>3
  <2>2. n = [done |-> more, kept |-> a.kept]
    BY <2>1 DEF Lists
  <2>3. n \in Lists /\ n.done = more /\ n.kept = a.kept
    BY <1>1, <2>2 DEF Lists
  <2> QED BY <1>3, <2>3 DEF n, more
<1>4. CASE ~(x <= b)
  <2>1. n = [a EXCEPT !.kept = rest]
    BY <1>2, <1>4
  <2>2. n = [done |-> a.done, kept |-> rest]
    BY <2>1 DEF Lists
  <2>3. n \in Lists /\ n.done = a.done /\ n.kept = rest
    BY <1>1, <2>2 DEF Lists
  <2> QED BY <1>4, <2>3 DEF n, rest
<1> QED BY <1>3, <1>4

(* Delivers the record at an index. *)
Deliverer(recs, b, S) == [i \in S |-> [a \in Lists |-> Deliver(a, recs[i], b)]]

LEMMA DeliverIsFold ==
  ASSUME NEW n \in Nat, NEW recs, DOMAIN recs = 1..n,
         \A i \in 1..n : recs[i] \in Nat, NEW b \in Int, NEW d \in Seq(Nat)
  PROVE  \E g : /\ IsSeqFold(g, n, Lists, [done |-> d, kept |-> <<>>],
                             Deliverer(recs, b, 1..n))
                /\ DeliverAll(d, recs, b) = g[1..n]
<1> DEFINE S == 1..n
           r == [done |-> d, kept |-> <<>>]
           Body(g) == [s \in SUBSET S |-> IF s = {} THEN r
                         ELSE Deliver(g[s \ {Max(s)}], recs[Max(s)], b)]
           it == CHOOSE iter : iter = Body(iter)
<1>0. r \in Lists /\ IsFiniteSet(S)
  BY EmptySeq, FS_Interval DEF Lists
<1>1. PICK g \in [SUBSET S -> Lists] :
        IsFold(g, LastPicker(S), Deliverer(recs, b, S), r, S)
  <2>1. IsOperation(Deliverer(recs, b, S), S, Lists)
    BY DeliverType DEF IsOperation, Deliverer
  <2>2. IsChoice(LastPicker(S), S)
    BY LastPickerChoice
  <2>3. CanFold(S, Lists, r, LastPicker(S), Deliverer(recs, b, S))
    <3> HIDE DEF S, r
    <3> QED BY <1>0, <2>1, <2>2 DEF CanFold
  <2>4. HasFold(S, Lists, r, LastPicker(S), Deliverer(recs, b, S))
    <3> HIDE DEF S, r
    <3> QED BY <2>3, FoldExists
  <2> QED BY <2>4 DEF HasFold
<1>2. \A s \in SUBSET S : s # {} =>
        /\ LastPicker(S)[s] = Max(s)
        /\ Max(s) \in s
        /\ Max(s) \in S
        /\ s \ {Max(s)} \in SUBSET S
  BY MaxIndex DEF LastPicker
<1> HIDE DEF r
<1>3. \A s \in SUBSET S : g[s] = Body(g)[s]
  <2> SUFFICES ASSUME NEW s \in SUBSET S PROVE g[s] = Body(g)[s]
    OBVIOUS
  <2>1. CASE s = {}
    BY <1>1, <2>1 DEF IsFold
  <2>2. CASE s # {}
    <3>1. g[s] = Deliverer(recs, b, S)[Max(s)][g[s \ {Max(s)}]]
      BY <1>1, <1>2, <2>2 DEF IsFold
    <3>2. g[s \ {Max(s)}] \in Lists
      BY <1>1, <1>2, <2>2
    <3>3. g[s] = Deliver(g[s \ {Max(s)}], recs[Max(s)], b)
      BY <1>2, <2>2, <3>1, <3>2 DEF Deliverer
    <3> QED BY <2>2, <3>3
  <2> QED BY <2>1, <2>2
<1>4. g = Body(g)
  BY <1>1, <1>3
<1>5. it = Body(it)
  <2> HIDE DEF Body
  <2> QED BY <1>4
<1>6. DeliverAll(d, recs, b) = it[S]
  BY DEF DeliverAll, FoldLeft, MapThenFoldSet, r
<1>7. it[S] = g[S]
  <2> DEFINE G == {s \in SUBSET S : it[s] = g[s]}
  <2>1. /\ \A s \in SUBSET S : s # {} =>
             /\ it[s] = Deliver(it[s \ {Max(s)}], recs[Max(s)], b)
             /\ g[s] = Deliver(g[s \ {Max(s)}], recs[Max(s)], b)
        /\ it[{}] = r /\ g[{}] = r
    <3>1. ASSUME NEW i, i = Body(i)
          PROVE  /\ \A s \in SUBSET S : s # {} =>
                      i[s] = Deliver(i[s \ {Max(s)}], recs[Max(s)], b)
                 /\ i[{}] = r
      BY <1>2, <3>1
    <3> HIDE DEF Body, it
    <3> QED BY <1>4, <1>5, <3>1
  <2> HIDE DEF it
  <2>2. ASSUME NEW s \in SUBSET S, \A t \in SUBSET s : t # s => t \in G
        PROVE  s \in G
    <3>1. CASE s = {}
      BY <2>1, <3>1
    <3>2. CASE s # {}
      <4>1. s \ {Max(s)} \in SUBSET s /\ s \ {Max(s)} # s
        BY <1>2, <3>2
      <4>2. it[s \ {Max(s)}] = g[s \ {Max(s)}]
        BY <2>2, <4>1
      <4> QED BY <2>1, <3>2, <4>2
    <3> QED BY <3>1, <3>2
  <2>3. S \in G
    <3>1. Hereditary(G, S)
      BY <2>2 DEF Hereditary
    <3> HIDE DEF G, S
    <3> QED BY <1>0, <3>1, AllSubsets
  <2> QED BY <2>3
<1> HIDE DEF it
<1>8. IsSeqFold(g, n, Lists, r, Deliverer(recs, b, S))
  BY <1>1 DEF IsSeqFold
<1> QED BY <1>6, <1>7, <1>8 DEF r

LEMMA DeliverNone ==
  ASSUME NEW d \in Seq(Nat), NEW b \in Int
  PROVE  DeliverAll(d, <<>>, b) = [done |-> d, kept |-> <<>>]
<1>1. /\ DOMAIN <<>> = 1..0 /\ 1..0 = {} /\ 0 \in Nat
      /\ \A i \in 1..0 : <<>>[i] \in Nat
  OBVIOUS
<1>2. PICK g : /\ IsSeqFold(g, 0, Lists, [done |-> d, kept |-> <<>>],
                            Deliverer(<<>>, b, 1..0))
               /\ DeliverAll(d, <<>>, b) = g[1..0]
  BY <1>1, DeliverIsFold
<1> QED BY <1>1, <1>2 DEF IsSeqFold, IsFold

(* One record more is one turn of the loop more. *)
LEMMA DeliverOne ==
  ASSUME NEW d \in Seq(Nat), NEW recs \in Seq(Nat), NEW x \in Nat, NEW b \in Int
  PROVE  /\ DeliverAll(d, Append(recs, x), b)
              = Deliver(DeliverAll(d, recs, b), x, b)
         /\ DeliverAll(d, recs, b) \in Lists
<1> DEFINE n == Len(recs)
           m == n + 1
           all == Append(recs, x)
           S == 1..m
           R == 1..n
           r == [done |-> d, kept |-> <<>>]
<1>1. n \in Nat /\ DOMAIN recs = R /\ \A i \in R : recs[i] \in Nat
  BY LenProperties, ElementOfSeq
<1>2. /\ all \in Seq(Nat) /\ Len(all) = m /\ all[m] = x
      /\ \A i \in R : all[i] = recs[i]
  BY AppendProperties
<1>3. m \in Nat /\ DOMAIN all = S /\ \A i \in S : all[i] \in Nat
  BY <1>1, <1>2, LenProperties, ElementOfSeq
<1> HIDE DEF n, all
<1>4. R \subseteq S /\ m \in S
  BY <1>1
<1>5. PICK g : /\ IsSeqFold(g, m, Lists, r, Deliverer(all, b, S))
               /\ DeliverAll(d, all, b) = g[S]
  BY <1>3, DeliverIsFold
<1>6. PICK h : /\ IsSeqFold(h, n, Lists, r, Deliverer(recs, b, R))
               /\ DeliverAll(d, recs, b) = h[R]
  BY <1>1, DeliverIsFold
<1>7. \A i \in R : Deliverer(all, b, S)[i] = Deliverer(recs, b, R)[i]
  BY <1>2, <1>4 DEF Deliverer
<1>8. g[S] = Deliverer(all, b, S)[m][h[R]] /\ h[R] \in Lists
  <2> DEFINE o == Deliverer(all, b, S)
             p == Deliverer(recs, b, R)
  <2>1. /\ IsSeqFold(g, n + 1, Lists, r, o) /\ IsSeqFold(h, n, Lists, r, p)
        /\ \A i \in 1..n : o[i] = p[i]
    BY <1>5, <1>6, <1>7
  <2> HIDE DEF r, o, p
  <2>2. g[1..(n + 1)] = o[n + 1][h[1..n]] /\ h[1..n] \in Lists
    BY <1>1, <2>1, FoldLast
  <2> QED BY <2>2 DEF o
<1>9. g[S] = Deliver(h[R], all[m], b)
  BY <1>4, <1>8 DEF Deliverer
<1>10. DeliverAll(d, all, b) = Deliver(DeliverAll(d, recs, b), x, b)
  BY <1>2, <1>5, <1>6, <1>9
<1> QED BY <1>6, <1>8, <1>10 DEF all

(***************************************************************************)
(* Both lists hold consecutive numbers, the kept ones after the committed; *)
(* once a record is kept, every later one is above the barrier too.        *)
(***************************************************************************)
Lined(a, total, b) ==
  /\ a \in Lists
  /\ Len(a.done) + Len(a.kept) = total
  /\ \A i \in 1..Len(a.done) : a.done[i] = i
  /\ \A i \in 1..Len(a.kept) : a.kept[i] = Len(a.done) + i
  /\ Len(a.kept) # 0 => b < Len(a.done) + 1

LEMMA LinedStep ==
  ASSUME NEW a, NEW n \in Nat, NEW b \in Int, Lined(a, n, b)
  PROVE  Lined(Deliver(a, n + 1, b), n + 1, b)
<1> DEFINE x == n + 1
           d == a.done
           k == a.kept
           z == Deliver(a, x, b)
<1>1. a \in Lists /\ d \in Seq(Nat) /\ k \in Seq(Nat) /\ x \in Nat
  BY DEF Lined, Lists
<1>2. Len(d) \in Nat /\ Len(k) \in Nat /\ Len(d) + Len(k) = n
  BY <1>1, LenProperties DEF Lined
<1>3. /\ z \in Lists
      /\ z.done = IF x <= b THEN Append(d, x) ELSE d
      /\ z.kept = IF x <= b THEN k ELSE Append(k, x)
  BY <1>1, DeliverType
<1>4. /\ \A i \in 1..Len(d) : d[i] = i
      /\ \A i \in 1..Len(k) : k[i] = Len(d) + i
      /\ Len(k) # 0 => b < Len(d) + 1
  BY DEF Lined
<1> HIDE DEF z, d, k
<1>5. CASE x <= b
  <2>1. Len(k) = 0 /\ x = Len(d) + 1
    BY <1>2, <1>4, <1>5
  <2>2. /\ Len(Append(d, x)) = Len(d) + 1
        /\ \A i \in 1..Len(d) : Append(d, x)[i] = d[i]
        /\ Append(d, x)[Len(d) + 1] = x
    BY <1>1, AppendProperties
  <2>3. \A i \in 1..(Len(d) + 1) : Append(d, x)[i] = i
    <3> TAKE i \in 1..(Len(d) + 1)
    <3>1. i \in 1..Len(d) \/ i = Len(d) + 1
      BY <1>2
    <3> QED BY <1>4, <2>1, <2>2, <3>1
  <2>4. z.done = Append(d, x) /\ z.kept = k
    BY <1>3, <1>5
  <2>5. Len(z.done) = Len(d) + 1 /\ Len(z.kept) = 0
    BY <2>1, <2>2, <2>4
  <2>6. Len(z.done) + Len(z.kept) = x
    BY <1>2, <2>1, <2>5
  <2>7. \A i \in 1..Len(z.done) : z.done[i] = i
    BY <2>3, <2>4, <2>5
  <2>8. 1..Len(z.kept) = {}
    BY <2>5
  <2>9. Lined(z, x, b)
    BY <1>3, <2>5, <2>6, <2>7, <2>8 DEF Lined
  <2> QED BY <2>9 DEF z
<1>6. CASE ~(x <= b)
  <2>1. /\ Len(Append(k, x)) = Len(k) + 1
        /\ \A i \in 1..Len(k) : Append(k, x)[i] = k[i]
        /\ Append(k, x)[Len(k) + 1] = x
    BY <1>1, AppendProperties
  <2>2. z.done = d /\ z.kept = Append(k, x)
    BY <1>3, <1>6
  <2>3. \A i \in 1..(Len(k) + 1) : Append(k, x)[i] = Len(d) + i
    <3> TAKE i \in 1..(Len(k) + 1)
    <3>1. i \in 1..Len(k) \/ i = Len(k) + 1
      BY <1>2
    <3>2. x = Len(d) + (Len(k) + 1)
      BY <1>2
    <3> QED BY <1>4, <2>1, <3>1, <3>2
  <2>4. Len(z.kept) = Len(k) + 1 /\ Len(z.done) = Len(d)
    BY <2>1, <2>2
  <2>5. Len(z.done) + Len(z.kept) = x
    BY <1>2, <2>4
  <2>6. /\ \A i \in 1..Len(z.done) : z.done[i] = i
        /\ \A i \in 1..Len(z.kept) : z.kept[i] = Len(z.done) + i
    BY <1>4, <2>2, <2>3, <2>4
  <2>7. b < Len(z.done) + 1
    <3>1. b < x
      BY <1>1, <1>6
    <3>2. CASE Len(k) = 0
      BY <1>2, <2>4, <3>1, <3>2
    <3>3. CASE Len(k) # 0
      BY <1>4, <2>4, <3>3
    <3> QED BY <3>2, <3>3
  <2>8. Lined(z, x, b)
    BY <1>3, <2>5, <2>6, <2>7 DEF Lined
  <2> QED BY <2>8 DEF z
<1> QED BY <1>5, <1>6

LEMMA DeliverLined ==
  ASSUME NEW f \in Seq(Nat), NEW u \in Seq(Nat), NEW b \in Int,
         \A i \in 1..Len(f) : f[i] = i,
         \A i \in 1..Len(u) : u[i] = Len(f) + i
  PROVE  Lined(DeliverAll(f, u, b), Len(f) + Len(u), b)
<1> DEFINE F == Len(f)
           U == Len(u)
           D(k) == DeliverAll(f, SubSeq(u, 1, k), b)
           Good == {k \in Nat : k <= U => Lined(D(k), F + k, b)}
<1>1. F \in Nat /\ U \in Nat
  BY LenProperties
<1>2. 0 \in Good
  <2>1. SubSeq(u, 1, 0) = <<>>
    <3>1. 1 \in Int /\ 0 \in Int /\ 0 < 1
      OBVIOUS
    <3> QED BY <3>1, SubSeqEmpty
  <2> DEFINE a == [done |-> f, kept |-> <<>>]
  <2>2. D(0) = a
    BY <2>1, DeliverNone
  <2>3. a \in Lists /\ a.done = f /\ a.kept = <<>> /\ Len(<<>>) = 0
    BY EmptySeq DEF Lists
  <2> HIDE DEF a
  <2>4. F + 0 = F /\ 1..0 = {} /\ Len(a.done) + Len(a.kept) = F
    BY <1>1, <2>3
  <2>5. Lined(a, F + 0, b)
    BY <2>3, <2>4 DEF Lined
  <2> HIDE DEF D, F
  <2> QED BY <2>2, <2>5
<1>3. ASSUME NEW k \in Nat, k \in Good PROVE k + 1 \in Good
  <2>1. ASSUME k + 1 <= U PROVE Lined(D(k + 1), F + (k + 1), b)
    <3>1. 1 \in 1..U /\ k + 1 \in 1..U /\ (k + 1) - 1 = k /\ k <= U
      BY <1>1, <2>1
    <3>2. /\ SubSeq(u, 1, k + 1) = Append(SubSeq(u, 1, k), u[k + 1])
          /\ SubSeq(u, 1, k) \in Seq(Nat)
      BY <3>1, SubSeqAppend
    <3>3. u[k + 1] = F + (k + 1) /\ F + (k + 1) \in Nat
      BY <1>1, <3>1
    <3>4. D(k + 1) = Deliver(D(k), F + (k + 1), b)
      <4> DEFINE x == u[k + 1]
                 v == SubSeq(u, 1, k)
      <4>1. x \in Nat /\ v \in Seq(Nat)
        BY <3>2, <3>3
      <4> HIDE DEF x, v
      <4>2. DeliverAll(f, Append(v, x), b) = Deliver(DeliverAll(f, v, b), x, b)
        BY <4>1, DeliverOne
      <4> QED BY <3>2, <3>3, <4>2 DEF x, v
    <3>5. Lined(D(k), F + k, b)
      BY <1>3, <3>1
    <3> HIDE DEF D, F
    <3>6. F + k \in Nat /\ (F + k) + 1 = F + (k + 1)
      BY <1>1
    <3>7. Lined(Deliver(D(k), (F + k) + 1, b), (F + k) + 1, b)
      BY <3>5, <3>6, LinedStep
    <3> QED BY <3>4, <3>6, <3>7
  <2> HIDE DEF D, F, U
  <2> QED BY <2>1
<1>4. Nat \subseteq Good
  <2> HIDE DEF Good
  <2> QED BY <1>2, <1>3, AllNumbers
<1>5. SubSeq(u, 1, U) = u
  BY SubSeqFull
<1>6. Lined(D(U), F + U, b)
  <2> HIDE DEF D, F, U
  <2>1. U \in Good
    BY <1>1, <1>4
  <2> QED BY <1>1, <2>1
<1> QED BY <1>5, <1>6

(* The sink's lists are consecutive numbers from one. *)
Consecutive(f, u, n) ==
  /\ Len(f) + Len(u) = n
  /\ \A i \in 1..Len(f) : f[i] = i
  /\ \A i \in 1..Len(u) : u[i] = Len(f) + i

SinkRecordsOK ==
  /\ flushed \in Seq(Nat) /\ unflushed \in Seq(Nat) /\ nextSeq \in Nat \ {0}
  /\ Consecutive(flushed, unflushed, nextSeq - 1)

LEMMA SinkKeeps ==
  ASSUME SinkRecordsOK, PositionInv, CheckpointNext
  PROVE  SinkRecordsOK'
<1> USE DEF coordVars, runVars, historyVars, processVars, storeVars, sinkVars
<1>1. /\ flushed \in Seq(Nat) /\ unflushed \in Seq(Nat) /\ nextSeq \in Nat \ {0}
      /\ Consecutive(flushed, unflushed, nextSeq - 1)
  BY DEF SinkRecordsOK
<1>2. CASE UNCHANGED sinkVars
  BY <1>2 DEF SinkRecordsOK
<1>3. CASE WriteEvent
  <2> DEFINE U == Len(unflushed)
             F == Len(flushed)
             new == Append(unflushed, nextSeq)
  <2>1. unflushed' = new /\ nextSeq' = nextSeq + 1 /\ flushed' = flushed
    BY <1>3 DEF WriteEvent, Write
  <2>2. U \in Nat /\ F \in Nat /\ F + U = nextSeq - 1
    BY <1>1, LenProperties DEF Consecutive
  <2>3. /\ new \in Seq(Nat) /\ Len(new) = U + 1
        /\ \A i \in 1..U : new[i] = unflushed[i]
        /\ new[U + 1] = nextSeq
    BY <1>1, AppendProperties
  <2> HIDE DEF new
  <2>4. \A i \in 1..(U + 1) : new[i] = F + i
    <3> TAKE i \in 1..(U + 1)
    <3>1. i \in 1..U \/ i = U + 1
      BY <2>2
    <3>2. nextSeq = F + (U + 1)
      BY <1>1, <2>2
    <3>3. \A j \in 1..U : unflushed[j] = F + j
      BY <1>1 DEF Consecutive
    <3> QED BY <2>3, <3>1, <3>2, <3>3
  <2>5. nextSeq + 1 \in Nat \ {0} /\ F + (U + 1) = (nextSeq + 1) - 1
    BY <1>1, <2>2
  <2>6. Consecutive(flushed, new, (nextSeq + 1) - 1)
    BY <1>1, <2>3, <2>4, <2>5 DEF Consecutive
  <2> QED BY <1>1, <2>1, <2>3, <2>5, <2>6 DEF SinkRecordsOK
<1>4. ASSUME NEW t \in Thread, FlushSink(t) PROVE SinkRecordsOK'
  <2> DEFINE b == position[t]
             end == DeliverAll(flushed, unflushed, b)
  <2>1. flushed' = end.done /\ unflushed' = end.kept /\ nextSeq' = nextSeq
    BY <1>4 DEF FlushSink, CommitUpTo
  <2>2. b \in Int
    BY DEF PositionInv, PositionTypeOK
  <2>3. Lined(end, Len(flushed) + Len(unflushed), b)
    <3> HIDE DEF b
    <3> QED BY <1>1, <2>2, DeliverLined DEF Consecutive
  <2> HIDE DEF end, b
  <2>4. end.done \in Seq(Nat) /\ end.kept \in Seq(Nat)
    BY <2>3 DEF Lined, Lists
  <2>5. Consecutive(end.done, end.kept, nextSeq - 1)
    BY <1>1, <2>3 DEF Lined, Consecutive
  <2> QED BY <1>1, <2>1, <2>4, <2>5 DEF SinkRecordsOK
<1>5. \/ UNCHANGED sinkVars \/ WriteEvent \/ \E t \in Thread : FlushSink(t)
  BY DEF CheckpointNext, Emit, RecordEvent, FoldDelta, RunCheckpoint, ReadVersion,
     TakeSnapshot, PublishOffset, Retry, BeginReplay, RetryReturns, Restore
<1> QED BY <1>2, <1>3, <1>4, <1>5
-----------------------------------------------------------------------------
CheckpointInv == PositionInv /\ JournalInv /\ DeltaInv /\ SinkRecordsOK

LEMMA CheckpointStartInv == CheckpointInit => CheckpointInv
<1> SUFFICES ASSUME CheckpointInit PROVE CheckpointInv
  OBVIOUS
<1> USE DEF CheckpointInit
<1>0. LogCapacity \in Nat /\ FlushEvery \in Nat /\ FlushEvery > 0 /\ MaxEvents \in Nat
  BY CheckpointAssumption
<1>1. PositionInv
  <2>1. log \in Seq(Entries) /\ Len(log) = 0
    BY EmptySeq
  <2>2. PositionTypeOK
    BY <2>1 DEF PositionTypeOK, Locations
  <2>3. PositionsAgree
    BY <1>0, <2>1 DEF PositionsAgree
  <2> QED BY <2>2, <2>3 DEF PositionInv
<1>2. JournalInv
  <2>1. StoreTypeOK
    BY ZeroType DEF StoreInit, StoreTypeOK, Locations
  <2>2. AllBridged
    BY DEF AllBridged
  <2> QED BY <2>1, <2>2 DEF JournalInv
<1>3. DeltaInv
  <2>1. \A k \in Key : Folded(k) = {} /\ data[k] + deltas[k] = 0
    <3> TAKE k \in Key
    <3>1. Folded(k) = {}
      BY DEF Folded
    <3>2. data[k] = 0 /\ deltas[k] = 0
      BY DEF StoreInit, Zero
    <3> QED BY <3>1, <3>2
  <2>2. PendingKeys(deltas) = {}
    BY DEF PendingKeys, Zero
  <2>3. DeltasConserved
    BY <1>0, <2>1, <2>2, FS_EmptySet DEF DeltasConserved
  <2>4. emitted \in 0..MaxEvents /\ restores \in Nat
    BY <1>0
  <2> QED BY <2>2, <2>3, <2>4, FS_EmptySet DEF DeltaInv
<1>4. SinkRecordsOK
  <2>1. flushed = <<>> /\ unflushed = <<>> /\ nextSeq = 1
    BY DEF SinkInit
  <2>2. <<>> \in Seq(Nat) /\ Len(<<>>) = 0 /\ 1..0 = {} /\ 1 - 1 = 0 /\ 0 + 0 = 0
    BY EmptySeq
  <2>3. Consecutive(<<>>, <<>>, 1 - 1)
    BY <2>2 DEF Consecutive
  <2> QED BY <2>1, <2>2, <2>3 DEF SinkRecordsOK
<1> QED BY <1>1, <1>2, <1>3, <1>4 DEF CheckpointInv

LEMMA CheckpointStepInv ==
  CheckpointInv /\ [CheckpointNext]_checkpointVars => CheckpointInv'
<1> SUFFICES ASSUME CheckpointInv, [CheckpointNext]_checkpointVars
             PROVE  CheckpointInv'
  OBVIOUS
<1>1. CASE CheckpointNext
  BY <1>1, PositionKeeps, JournalKeeps, DeltaKeeps, SinkKeeps DEF CheckpointInv
<1>2. CASE UNCHANGED checkpointVars
  <2> USE DEF checkpointVars, coordVars, runVars, historyVars, processVars,
              storeVars, sinkVars
  <2>1. PositionInv'
    BY <1>2 DEF CheckpointInv, PositionInv, PositionTypeOK, PositionsAgree
  <2>2. JournalInv'
    BY <1>2 DEF CheckpointInv, JournalInv, StoreTypeOK, AllBridged, Bridged
  <2>3. DeltaInv'
    BY <1>2, DeltaUntouched DEF CheckpointInv
  <2>4. SinkRecordsOK'
    BY <1>2 DEF CheckpointInv, SinkRecordsOK
  <2> QED BY <2>1, <2>2, <2>3, <2>4 DEF CheckpointInv
<1> QED BY <1>1, <1>2

(* The invariant of every behaviour of the checkpoint path: coordinator,   *)
(* state backend, deltas and sink (checkpoint.go, state.go, pipeline.go).  *)
THEOREM CheckpointInvariant == CheckpointSpec => []CheckpointInv
BY CheckpointStartInv, CheckpointStepInv, PTL DEF CheckpointSpec

(* Position, manifest, newest log entry and committed offset agree after   *)
(* commits and restores in any order (checkpoint.go, Commit and Restore).  *)
THEOREM PositionsAgreeHolds == CheckpointSpec => []PositionsAgree
<1>1. CheckpointInv => PositionsAgree
  BY DEF CheckpointInv, PositionInv
<1> QED BY <1>1, CheckpointInvariant, PTL

(* The newest committed snapshot and the journal give the current values   *)
(* (state.go, Snapshot, ApplyRound and RestoreSnapshot).                   *)
THEOREM JournalBridgesHolds == CheckpointSpec => []JournalBridges
<1>1. CheckpointInv => JournalBridges
  BY DEF CheckpointInv, JournalInv, AllBridged, Bridged, BridgedIn, JournalBridges
<1> QED BY <1>1, CheckpointInvariant, PTL

(* Until a restore the store and the pending deltas hold every folded      *)
(* event exactly once (pipeline.go, maybeFlushDeltas).                     *)
THEOREM DeltasConservedHolds == CheckpointSpec => []DeltasConserved
<1>1. CheckpointInv => DeltasConserved
  BY DEF CheckpointInv, DeltaInv
<1> QED BY <1>1, CheckpointInvariant, PTL

(* The sink neither loses, repeats nor reorders a record, for any order of *)
(* barriers (sink.go, Write and CommitUpTo).                               *)
THEOREM SinkKeepsOrderHolds == CheckpointSpec => []SinkKeepsOrder
<1>1. ASSUME SinkRecordsOK PROVE SinkKeepsOrder
  <2> DEFINE F == Len(flushed)
             U == Len(unflushed)
             n == nextSeq - 1
             all == flushed \o unflushed
  <2>1. /\ flushed \in Seq(Nat) /\ unflushed \in Seq(Nat) /\ F + U = n
        /\ \A i \in 1..F : flushed[i] = i
        /\ \A i \in 1..U : unflushed[i] = F + i
    BY <1>1 DEF SinkRecordsOK, Consecutive
  <2>2. F \in Nat /\ U \in Nat
    BY <2>1, LenProperties
  <2>3. /\ Len(all) = F + U
        /\ \A i \in 1..(F + U) :
             all[i] = IF i <= F THEN flushed[i] ELSE unflushed[i - F]
    BY <2>1, ConcatProperties
  <2> HIDE DEF F, U, n, all
  <2>4. \A i \in 1..n : all[i] = i
    <3> TAKE i \in 1..n
    <3>1. CASE i <= F
      BY <2>1, <2>2, <2>3, <3>1
    <3>2. CASE ~(i <= F)
      <4>1. i - F \in 1..U /\ F + (i - F) = i
        BY <2>1, <2>2, <3>2
      <4>2. all[i] = unflushed[i - F]
        BY <2>1, <2>3, <3>2
      <4> QED BY <2>1, <4>1, <4>2
    <3> QED BY <3>1, <3>2
  <2>5. Len(all) = n
    BY <2>1, <2>3
  <2> QED BY <2>4, <2>5 DEF SinkKeepsOrder, n, all
<1>2. CheckpointInv => SinkRecordsOK
  BY DEF CheckpointInv
<1> QED BY <1>1, <1>2, CheckpointInvariant, PTL
=============================================================================

------------------------- MODULE RateLimiterProofs -------------------------
(***************************************************************************)
(* Proofs about RateLimiter, for any addresses, limit, window and table    *)
(* size: the sliding window is respected, the table stays bounded and no   *)
(* refusal is without a reason in the history.                             *)
(*                                                                         *)
(* The argument: a tracked address's deque is the end of its history, and  *)
(* everything the deque lacks has expired (TableComplete).  Pruning keeps  *)
(* this, sweeping is pruning every entry, and time only expires more.  An  *)
(* admission finds fewer than MaxPerWindow entries in the deque, so the    *)
(* admission MaxPerWindow places back, if there was one, has expired.      *)
(* What is left of a pruned deque has a front that counts, and with it,    *)
(* admissions being recorded in the order of time, all of it counts.       *)
(***************************************************************************)
EXTENDS RateLimiter, FiniteSetTheorems, SequenceTheorems, TLAPS

Table == [Ip -> {None} \cup Seq(Nat)]

(* The end of a deque from place m on. *)
LEMMA EndOfDeque ==
    ASSUME NEW deque \in Seq(Nat), NEW m \in 1..(Len(deque) + 1)
    PROVE  LET end == SubSeq(deque, m, Len(deque)) IN
           /\ end \in Seq(Nat)
           /\ Len(end) = Len(deque) - m + 1
           /\ \A j \in 1..(Len(deque) - m + 1) : end[j] = deque[m + j - 1]
<1>1. Len(deque) \in Nat /\ \A i \in 1..Len(deque) : deque[i] \in Nat
  BY LenProperties, ElementOfSeq
<1>2. m \in Int /\ Len(deque) \in Int /\ \A i \in m..Len(deque) : deque[i] \in Nat
  BY <1>1
<1>. QED BY <1>1, <1>2, SubSeqProperties

(* prune drops a prefix of the deque, and only what has expired. *)
LEMMA PruneDropsExpired ==
    ASSUME NEW deque \in Seq(Nat), now \in Nat
    PROVE  LET dropped == Len(deque) - Len(Prune(deque)) IN
           /\ Prune(deque) \in Seq(Nat)
           /\ dropped \in 0..Len(deque)
           /\ \A j \in 1..Len(Prune(deque)) : Prune(deque)[j] = deque[dropped + j]
           /\ \A i \in 1..dropped : Expired(deque[i])
           /\ Len(Prune(deque)) > 0 => ~Expired(Prune(deque)[1])
<1> DEFINE P == Prefix(deque)
           n == Cardinality(P)
           L == Len(deque)
<1>1. L \in Nat /\ \A i \in 1..L : deque[i] \in Nat
  BY LenProperties, ElementOfSeq
<1>2. IsFiniteSet(1..L) /\ Cardinality(1..L) = L
  BY <1>1, FS_Interval
<1>3. P \in SUBSET (1..L)
  BY DEF Prefix
<1>4. IsFiniteSet(P) /\ n \in Nat /\ n <= L
  BY <1>2, <1>3, FS_Subset, FS_CardinalityType
<1>5. P = 1..n
  <2>1. \A m \in P : 1..m \in SUBSET P
    BY <1>1, <1>3 DEF Prefix
  <2>2. \A m \in P : m <= n
    <3> TAKE m \in P
    <3>1. m \in Nat /\ m >= 1
      BY <1>1, <1>3
    <3>2. Cardinality(1..m) = m
      BY <3>1, FS_Interval
    <3>3. Cardinality(1..m) <= n
      BY <1>4, <2>1, FS_Subset
    <3>. QED BY <3>2, <3>3
  <2>3. P \in SUBSET (1..n)
    BY <1>1, <1>3, <2>2
  <2>4. IsFiniteSet(1..n) /\ Cardinality(1..n) = n
    BY <1>4, FS_Interval
  <2>. QED BY <2>3, <2>4, FS_Subset
<1>6. \A i \in 1..n : Expired(deque[i])
  BY <1>4, <1>5 DEF Prefix
<1>7. /\ Prune(deque) \in Seq(Nat)
      /\ Len(Prune(deque)) = L - n
      /\ \A j \in 1..(L - n) : Prune(deque)[j] = deque[n + j]
  <2> HIDE DEF n
  <2>1. n + 1 \in 1..(Len(deque) + 1)
    BY <1>1, <1>4
  <2>2. /\ SubSeq(deque, n + 1, Len(deque)) \in Seq(Nat)
        /\ Len(SubSeq(deque, n + 1, Len(deque))) = Len(deque) - (n + 1) + 1
        /\ \A j \in 1..(Len(deque) - (n + 1) + 1) :
            SubSeq(deque, n + 1, Len(deque))[j] = deque[(n + 1) + j - 1]
    BY <2>1, EndOfDeque
  <2>3. Prune(deque) = SubSeq(deque, n + 1, Len(deque))
    BY DEF Prune, n
  <2>4. Len(deque) - (n + 1) + 1 = L - n /\ \A j \in 1..(L - n) : (n + 1) + j - 1 = n + j
    BY <1>1, <1>4
  <2>. QED BY <2>2, <2>3, <2>4
<1>8. n + 1 \in 1..L => ~Expired(deque[n + 1])
  <2> SUFFICES ASSUME n + 1 \in 1..L, Expired(deque[n + 1]) PROVE FALSE
    OBVIOUS
  <2>1. \A i \in 1..(n + 1) : i \in 1..n \/ i = n + 1
    BY <1>4
  <2>2. n + 1 \in P
    BY <1>6, <2>1 DEF Prefix
  <2>. QED BY <1>4, <1>5, <2>2
<1>9. Len(Prune(deque)) > 0 => ~Expired(Prune(deque)[1])
  <2> HIDE DEF n, P
  <2> SUFFICES ASSUME Len(Prune(deque)) > 0 PROVE ~Expired(Prune(deque)[1])
    OBVIOUS
  <2>1. 1 \in 1..(L - n) /\ n + 1 \in 1..L
    BY <1>1, <1>4, <1>7
  <2>. QED BY <1>7, <1>8, <2>1
<1>. QED BY <1>1, <1>4, <1>6, <1>7, <1>9

(* Pruning forgets nothing that counts. *)
LEMMA PruneCovers ==
    ASSUME NEW deque \in Seq(Nat), NEW history \in Seq(Nat), now \in Nat,
           Covers(deque, history)
    PROVE  Covers(Prune(deque), history)
<1> DEFINE d == Len(history) - Len(deque)
           e == Len(deque) - Len(Prune(deque))
<1>1. Len(history) \in Nat /\ Len(deque) \in Nat
  BY LenProperties
<1>2. /\ Prune(deque) \in Seq(Nat)
      /\ e \in 0..Len(deque)
      /\ \A j \in 1..Len(Prune(deque)) : Prune(deque)[j] = deque[e + j]
      /\ \A i \in 1..e : Expired(deque[i])
  BY PruneDropsExpired
<1>3. Len(Prune(deque)) \in Nat
  BY <1>2, LenProperties
<1>4. /\ d \in Nat
      /\ \A j \in 1..Len(deque) : deque[j] = history[d + j]
      /\ \A i \in 1..d : Expired(history[i])
  BY DEF Covers
<1> DEFINE f == Len(history) - Len(Prune(deque))
<1>5. f = d + e /\ f \in Nat
  BY <1>1, <1>2, <1>3, <1>4
<1>6. \A j \in 1..Len(Prune(deque)) : Prune(deque)[j] = history[f + j]
  <2> TAKE j \in 1..Len(Prune(deque))
  <2>1. e + j \in 1..Len(deque) /\ d + (e + j) = f + j
    BY <1>1, <1>2, <1>3, <1>4, <1>5
  <2>. QED BY <1>2, <1>4, <2>1
<1>7. \A i \in 1..f : Expired(history[i])
  <2> TAKE i \in 1..f
  <2>1. CASE i <= d
    BY <1>4, <1>5, <2>1
  <2>2. CASE i > d
    <3>1. i - d \in 1..e /\ i - d \in 1..Len(deque) /\ d + (i - d) = i
      BY <1>1, <1>2, <1>4, <1>5, <2>2
    <3>. QED BY <3>1, <1>2, <1>4
  <2>. QED BY <2>1, <2>2, <1>4
<1> HIDE DEF d, e
<1>. QED BY <1>5, <1>6, <1>7 DEF Covers

(* sweep prunes what each address retains, and forgets the rest.           *)
LEMMA SweepPrunes ==
    ASSUME NEW table \in Table, now \in Nat
    PROVE  /\ Swept(table) \in Table
           /\ Tracked(Swept(table)) \subseteq Tracked(table)
           /\ \A ip \in Ip : Retained(Swept(table), ip) = Prune(Retained(table, ip))
<1>1. \A ip \in Ip : table[ip] # None => table[ip] \in Seq(Nat)
  BY DEF Table
<1>2. \A deque \in Seq(Nat) : Prune(deque) \in Seq(Nat)
  BY PruneDropsExpired
<1>3. Prune(<<>>) = <<>>
  <2>1. <<>> \in Seq(Nat) /\ Len(<<>>) = 0
    BY EmptySeq
  <2>2. Prune(<<>>) \in Seq(Nat) /\ Len(<<>>) - Len(Prune(<<>>)) \in 0..Len(<<>>)
    BY <2>1, PruneDropsExpired
  <2>3. Len(Prune(<<>>)) = 0
    BY <2>1, <2>2, LenProperties
  <2>. QED BY <2>2, <2>3, EmptySeq
<1>4. Swept(table) \in Table
  BY <1>1, <1>2 DEF Swept, Table
<1>5. Tracked(Swept(table)) \subseteq Tracked(table)
  BY DEF Swept, Tracked
<1>6. \A ip \in Ip : Retained(Swept(table), ip) = Prune(Retained(table, ip))
  <2> TAKE ip \in Ip
  <2>1. CASE table[ip] = None
    BY <1>3, <2>1 DEF Swept, Retained
  <2>2. CASE table[ip] # None
    <3>1. Prune(table[ip]) # None
      BY <1>1, <1>2, <2>2, RateAssumption
    <3>2. Swept(table)[ip] = IF Prune(table[ip]) # <<>> THEN Prune(table[ip]) ELSE None
      BY <2>2 DEF Swept
    <3>. QED BY <2>2, <3>1, <3>2 DEF Retained
  <2>. QED BY <2>1, <2>2
<1>. QED BY <1>4, <1>5, <1>6

(* A table that forgets nothing that counts and keeps to its bounds. *)
Faithful(table, history) ==
    /\ table \in Table
    /\ \A ip \in Ip : Len(Retained(table, ip)) <= MaxPerWindow
    /\ \A ip \in Ip : Covers(Retained(table, ip), history[ip])
    /\ Cardinality(Tracked(table)) <= MaxTracked

LEMMA RetainedType ==
    ASSUME NEW table \in Table, NEW ip \in Ip
    PROVE  Retained(table, ip) \in Seq(Nat)
BY EmptySeq DEF Table, Retained

(* A sweep leaves it so. *)
LEMMA SweepFaithful ==
    ASSUME NEW table, NEW history \in [Ip -> Seq(Nat)],
           Faithful(table, history), now \in Nat
    PROVE  Faithful(Swept(table), history)
<1>1. table \in Table
  BY DEF Faithful
<1>2. /\ Swept(table) \in Table
      /\ Tracked(Swept(table)) \subseteq Tracked(table)
      /\ \A ip \in Ip : Retained(Swept(table), ip) = Prune(Retained(table, ip))
  BY <1>1, SweepPrunes
<1>3. ASSUME NEW ip \in Ip
      PROVE  /\ Len(Retained(Swept(table), ip)) <= MaxPerWindow
             /\ Covers(Retained(Swept(table), ip), history[ip])
  <2> DEFINE deque == Retained(table, ip)
  <2>1. deque \in Seq(Nat) /\ Len(deque) \in Nat /\ Len(deque) <= MaxPerWindow
    BY <1>1, RetainedType, LenProperties DEF Faithful
  <2>2. Covers(deque, history[ip]) /\ history[ip] \in Seq(Nat)
    BY DEF Faithful
  <2> HIDE DEF deque
  <2>3. Prune(deque) \in Seq(Nat) /\ Len(deque) - Len(Prune(deque)) \in 0..Len(deque)
    BY <2>1, PruneDropsExpired
  <2>4. Len(Prune(deque)) \in Nat
    BY <2>3, LenProperties
  <2>5. Len(Prune(deque)) <= MaxPerWindow
    BY <2>1, <2>3, <2>4, RateAssumption
  <2>6. Covers(Prune(deque), history[ip])
    BY <2>1, <2>2, PruneCovers
  <2>. QED BY <1>2, <2>5, <2>6 DEF deque
<1>4. Cardinality(Tracked(Swept(table))) <= MaxTracked
  <2>1. IsFiniteSet(Tracked(table))
    BY FS_Subset, RateAssumption DEF Tracked
  <2>2. Cardinality(Tracked(Swept(table))) <= Cardinality(Tracked(table))
    BY <1>2, <2>1, FS_Subset
  <2>3. IsFiniteSet(Tracked(Swept(table)))
    BY <1>2, <2>1, FS_Subset
  <2>4. Cardinality(Tracked(table)) \in Nat /\ Cardinality(Tracked(Swept(table))) \in Nat
    BY <2>1, <2>3, FS_CardinalityType
  <2>. QED BY <2>2, <2>4, RateAssumption DEF Faithful
<1>. QED BY <1>2, <1>3, <1>4 DEF Faithful

LEMMA LookupFaithful ==
    ASSUME NEW ip \in Ip, Faithful(hits, admitted), now \in Nat, admitted \in [Ip -> Seq(Nat)]
    PROVE  Faithful(TableFor(ip), admitted)
<1>1. Faithful(DueSweep, admitted)
  BY SweepFaithful DEF DueSweep
<1>. QED BY <1>1, SweepFaithful DEF TableFor

(* So does putting a deque that covers its history in an entry there is    *)
(* room for.                                                               *)
LEMMA PutFaithful ==
    ASSUME NEW table, NEW history \in [Ip -> Seq(Nat)], NEW ip \in Ip, NEW deque \in Seq(Nat),
           table \in Table,
           \A q \in Ip \ {ip} : /\ Len(Retained(table, q)) <= MaxPerWindow
                                /\ Covers(Retained(table, q), history[q]),
           Cardinality(Tracked(table)) <= MaxTracked,
           ~Full(table, ip), Len(deque) <= MaxPerWindow, Covers(deque, history[ip])
    PROVE  Faithful([table EXCEPT ![ip] = deque], history)
<1> DEFINE new == [table EXCEPT ![ip] = deque]
<1>1. deque # None
  BY RateAssumption
<1>2. new \in Table
  BY DEF Table
<1>3. Retained(new, ip) = deque /\ \A q \in Ip \ {ip} : Retained(new, q) = Retained(table, q)
  BY <1>1 DEF Retained, Table
<1>4. Tracked(new) = Tracked(table) \cup {ip}
  BY <1>1 DEF Tracked, Table
<1>5. IsFiniteSet(Tracked(table))
  BY FS_Subset, RateAssumption DEF Tracked
<1>6. Cardinality(Tracked(table)) \in Nat
  BY <1>5, FS_CardinalityType
<1>7. Cardinality(Tracked(new))
        = IF ip \in Tracked(table) THEN Cardinality(Tracked(table)) ELSE Cardinality(Tracked(table)) + 1
  BY <1>4, <1>5, FS_AddElement
<1>8. ip \notin Tracked(table) => Cardinality(Tracked(table)) < MaxTracked
  BY <1>6, RateAssumption DEF Full, Tracked
<1>9. Cardinality(Tracked(new)) <= MaxTracked
  BY <1>6, <1>7, <1>8, RateAssumption
<1>. QED BY <1>2, <1>3, <1>9 DEF Faithful

(* An admission recorded in both keeps the deque covering its history. *)
LEMMA AppendCovers ==
    ASSUME NEW deque \in Seq(Nat), NEW history \in Seq(Nat), NEW t \in Nat,
           Covers(deque, history)
    PROVE  Covers(Append(deque, t), Append(history, t))
<1> DEFINE d == Len(history) - Len(deque)
<1>1. Len(history) \in Nat /\ Len(deque) \in Nat
  BY LenProperties
<1>2. /\ d \in Nat
      /\ \A j \in 1..Len(deque) : deque[j] = history[d + j]
      /\ \A i \in 1..d : Expired(history[i])
  BY DEF Covers
<1>3. /\ Len(Append(deque, t)) = Len(deque) + 1
      /\ \A j \in 1..Len(deque) : Append(deque, t)[j] = deque[j]
      /\ Append(deque, t)[Len(deque) + 1] = t
      /\ Len(Append(history, t)) = Len(history) + 1
      /\ \A j \in 1..Len(history) : Append(history, t)[j] = history[j]
      /\ Append(history, t)[Len(history) + 1] = t
  BY AppendProperties
<1>4. Len(Append(history, t)) - Len(Append(deque, t)) = d
  BY <1>1, <1>3
<1>5. \A j \in 1..Len(Append(deque, t)) : Append(deque, t)[j] = Append(history, t)[d + j]
  <2> TAKE j \in 1..Len(Append(deque, t))
  <2>1. CASE j \in 1..Len(deque)
    <3>1. d + j \in 1..Len(history)
      BY <1>1, <1>2, <2>1
    <3>. QED BY <1>2, <1>3, <2>1, <3>1
  <2>2. CASE j = Len(deque) + 1
    <3>1. d + j = Len(history) + 1
      BY <1>1, <2>2
    <3>. QED BY <1>3, <2>2, <3>1
  <2>3. j \in 1..Len(deque) \/ j = Len(deque) + 1
    BY <1>1, <1>3
  <2>. QED BY <2>1, <2>2, <2>3
<1>6. \A i \in 1..d : Expired(Append(history, t)[i])
  <2> TAKE i \in 1..d
  <2>1. i \in 1..Len(history)
    BY <1>1, <1>2
  <2>. QED BY <1>2, <1>3, <2>1
<1> HIDE DEF d
<1>. QED BY <1>2, <1>4, <1>5, <1>6 DEF Covers

(* What the deque of an address admits or refuses on. *)
LEMMA RecentCovers ==
    ASSUME NEW ip \in Ip, Faithful(hits, admitted), now \in Nat, admitted \in [Ip -> Seq(Nat)]
    PROVE  /\ Recent(ip) \in Seq(Nat)
           /\ Len(Recent(ip)) \in Nat
           /\ Len(Recent(ip)) <= MaxPerWindow
           /\ Covers(Recent(ip), admitted[ip])
<1> DEFINE deque == Retained(TableFor(ip), ip)
<1>1. Faithful(TableFor(ip), admitted)
  BY LookupFaithful
<1>2. deque \in Seq(Nat) /\ Len(deque) \in Nat /\ Len(deque) <= MaxPerWindow
      /\ Covers(deque, admitted[ip])
  BY <1>1, RetainedType, LenProperties DEF Faithful
<1>3. Recent(ip) = Prune(deque)
  BY DEF Recent
<1> HIDE DEF deque
<1>4. Prune(deque) \in Seq(Nat) /\ Len(deque) - Len(Prune(deque)) \in 0..Len(deque)
  BY <1>2, PruneDropsExpired
<1>5. Len(Prune(deque)) \in Nat
  BY <1>4, LenProperties
<1>6. Covers(Prune(deque), admitted[ip])
  BY <1>2, PruneCovers
<1>. QED BY <1>2, <1>3, <1>4, <1>5, <1>6, RateAssumption

-----------------------------------------------------------------------------
(* The invariant, as a bound on what each step may leave behind.           *)
RateBound ==
    /\ now \in Nat
    /\ lastSweep \in Nat
    /\ admitted \in [Ip -> Seq(Nat)]
    /\ verdict \in {None} \cup Ip
    /\ Faithful(hits, admitted)
    /\ WindowRespected

LEMMA InvariantAsBound == RateInv <=> RateBound /\ HistoryOrdered /\ RefusalJustified
<1>1. Len(<<>>) = 0 /\ MaxPerWindow \in Nat
  BY EmptySeq, RateAssumption
<1>2. (\A ip \in Tracked(hits) : Len(hits[ip]) <= MaxPerWindow)
        <=> \A ip \in Ip : Len(Retained(hits, ip)) <= MaxPerWindow
  BY <1>1 DEF Tracked, Retained
<1>. QED
  BY <1>2 DEF RateInv, RateTypeOK, TableComplete, TableBounded, Faithful, Table, RateBound

(* At one instant, what is faithful is so whenever it is asked. *)
LEMMA SameInstant ==
    ASSUME now' = now, Faithful(hits', admitted')
    PROVE  Faithful(hits, admitted)'
BY DEF Faithful, Table, Retained, Tracked, Covers, Expired

LEMMA RateInitHolds == RateInit => RateBound
<1> SUFFICES ASSUME RateInit PROVE RateBound
  OBVIOUS
<1>1. <<>> \in Seq(Nat) /\ Len(<<>>) = 0
  BY EmptySeq
<1>2. Tracked(hits) = {}
  BY DEF RateInit, Tracked
<1>3. Cardinality(Tracked(hits)) <= MaxTracked
  BY <1>2, FS_EmptySet, RateAssumption
<1>4. \A ip \in Ip : Retained(hits, ip) = <<>> /\ admitted[ip] = <<>>
  BY DEF RateInit, Retained
<1>5. Covers(<<>>, <<>>)
  BY <1>1 DEF Covers
<1>6. Faithful(hits, admitted)
  BY <1>1, <1>3, <1>4, <1>5, RateAssumption DEF Faithful, RateInit, Table
<1>7. WindowRespected
  BY <1>1, <1>4 DEF WindowRespected
<1>. QED BY <1>1, <1>6, <1>7 DEF RateInit, RateBound

(* Time only expires more. *)
LEMMA TickKeeps == RateBound /\ Tick => RateBound'
<1> SUFFICES ASSUME RateBound, Tick PROVE RateBound'
  OBVIOUS
<1>1. now \in Nat /\ now' = now + 1 /\ hits' = hits /\ admitted' = admitted
  BY DEF RateBound, Tick
<1>2. ASSUME NEW ip \in Ip PROVE Covers(Retained(hits, ip), admitted[ip])'
  <2> DEFINE deque == Retained(hits, ip)
             history == admitted[ip]
  <2>1. Covers(deque, history)
    BY DEF RateBound, Faithful
  <2>2. history \in Seq(Nat) /\ \A i \in 1..Len(history) : history[i] \in Nat
    BY ElementOfSeq DEF RateBound
  <2>3. deque \in Seq(Nat) /\ Len(deque) \in Nat /\ Len(history) \in Nat
    BY <2>2, RetainedType, LenProperties DEF RateBound, Faithful
  <2>4. deque' = deque /\ history' = history
    BY <1>1 DEF Retained
  <2> HIDE DEF deque, history
  <2>5. \A i \in 1..(Len(history) - Len(deque)) : history[i] \in Nat
    BY <2>2, <2>3
  <2>6. \A i \in 1..(Len(history) - Len(deque)) : now' - history[i] > Window
    BY <1>1, <2>1, <2>5, RateAssumption DEF Covers, Expired
  <2>7. Covers(deque, history)'
    BY <2>1, <2>4, <2>6 DEF Covers, Expired
  <2>. QED BY <2>7 DEF deque, history
<1>3. Faithful(hits, admitted)'
  BY <1>1, <1>2 DEF RateBound, Faithful, Table, Retained, Tracked
<1>. QED BY <1>1, <1>3 DEF RateBound, Tick, WindowRespected

LEMMA RefuseUntrackedKeeps ==
    ASSUME NEW ip \in Ip, RateBound, RefuseUntracked(ip)
    PROVE  RateBound'
<1>1. Faithful(TableFor(ip), admitted)
  BY LookupFaithful DEF RateBound
<1>2. hits' = TableFor(ip) /\ now' = now /\ admitted' = admitted
  BY DEF RefuseUntracked
<1>3. Faithful(hits, admitted)'
  BY <1>1, <1>2, SameInstant
<1>. QED BY <1>2, <1>3 DEF RateBound, RefuseUntracked, MarkSweep, WindowRespected

LEMMA RefuseOverRateKeeps ==
    ASSUME NEW ip \in Ip, RateBound, RefuseOverRate(ip)
    PROVE  RateBound'
<1>1. Faithful(TableFor(ip), admitted)
  BY LookupFaithful DEF RateBound
<1>2. /\ hits' = [TableFor(ip) EXCEPT ![ip] = Recent(ip)]
      /\ now' = now /\ admitted' = admitted
      /\ ~Full(TableFor(ip), ip)
  BY DEF RefuseOverRate
<1>3. /\ Recent(ip) \in Seq(Nat) /\ Len(Recent(ip)) <= MaxPerWindow
      /\ Covers(Recent(ip), admitted[ip])
  BY RecentCovers DEF RateBound
<1>4. Faithful(hits', admitted)
  BY <1>1, <1>2, <1>3, PutFaithful DEF RateBound, Faithful
<1>5. Faithful(hits, admitted)'
  BY <1>2, <1>4, SameInstant
<1>. QED BY <1>2, <1>5 DEF RateBound, RefuseOverRate, MarkSweep, WindowRespected

(* An admission of an address whose deque is below the limit. *)
LEMMA AdmitKeeps ==
    ASSUME NEW ip \in Ip, RateBound, Admit(ip)
    PROVE  RateBound'
<1> DEFINE history == admitted[ip]
           later == [admitted EXCEPT ![ip] = Append(@, now)]
<1>1. now \in Nat /\ admitted \in [Ip -> Seq(Nat)] /\ Faithful(hits, admitted)
      /\ WindowRespected
  BY DEF RateBound
<1>2. /\ hits' = [TableFor(ip) EXCEPT ![ip] = Append(Recent(ip), now)]
      /\ now' = now /\ admitted' = later /\ verdict' = None
      /\ ~Full(TableFor(ip), ip) /\ Len(Recent(ip)) < MaxPerWindow
  BY DEF Admit
<1>3. Faithful(TableFor(ip), admitted)
  BY <1>1, LookupFaithful
<1>4. /\ Recent(ip) \in Seq(Nat) /\ Len(Recent(ip)) \in Nat
      /\ Covers(Recent(ip), history)
  BY <1>1, RecentCovers
<1>5. history \in Seq(Nat) /\ Len(history) \in Nat
      /\ \A i \in 1..Len(history) : history[i] \in Nat
  BY <1>1, LenProperties, ElementOfSeq
<1>6. /\ later \in [Ip -> Seq(Nat)]
      /\ later[ip] = Append(history, now)
      /\ \A q \in Ip \ {ip} : later[q] = admitted[q]
  BY <1>1, <1>5, AppendProperties
<1>7. Covers(Append(Recent(ip), now), later[ip])
  BY <1>1, <1>4, <1>5, <1>6, AppendCovers
<1>8. Append(Recent(ip), now) \in Seq(Nat) /\ Len(Append(Recent(ip), now)) <= MaxPerWindow
  BY <1>1, <1>2, <1>4, AppendProperties, RateAssumption
<1>9. Faithful(hits', later)
  <2>1. \A q \in Ip \ {ip} : /\ Len(Retained(TableFor(ip), q)) <= MaxPerWindow
                             /\ Covers(Retained(TableFor(ip), q), later[q])
    BY <1>3, <1>6 DEF Faithful
  <2>2. TableFor(ip) \in Table /\ Cardinality(Tracked(TableFor(ip))) <= MaxTracked
    BY <1>3 DEF Faithful
  <2> HIDE DEF later
  <2>. QED BY <1>2, <1>6, <1>7, <1>8, <2>1, <2>2, PutFaithful
<1>10. Faithful(hits, admitted)'
  BY <1>2, <1>9, SameInstant
<1>11. ASSUME NEW i \in 1..(Len(history) + 1), i + MaxPerWindow <= Len(history) + 1
       PROVE  Append(history, now)[i + MaxPerWindow] - Append(history, now)[i] > Window
  <2>1. /\ \A j \in 1..Len(history) : Append(history, now)[j] = history[j]
        /\ Append(history, now)[Len(history) + 1] = now
    BY <1>1, <1>5, AppendProperties
  <2>2. MaxPerWindow \in Nat /\ MaxPerWindow > 0 /\ i \in 1..Len(history)
    BY <1>2, <1>4, <1>5, <1>11, RateAssumption
  <2>3. CASE i + MaxPerWindow <= Len(history)
    <3>1. i + MaxPerWindow \in 1..Len(history)
      BY <1>5, <2>2, <2>3
    <3>2. history[i + MaxPerWindow] - history[i] > Window
      BY <1>1, <2>2, <2>3 DEF WindowRespected
    <3>. QED BY <2>1, <2>2, <3>1, <3>2
  <2>4. CASE i + MaxPerWindow = Len(history) + 1
    <3>1. i \in 1..(Len(history) - Len(Recent(ip)))
      BY <1>2, <1>4, <1>5, <2>2, <2>4
    <3>2. now - history[i] > Window
      BY <1>4, <3>1 DEF Covers, Expired
    <3>. QED BY <2>1, <2>2, <2>4, <3>2
  <2>. QED BY <1>5, <1>11, <2>2, <2>3, <2>4
<1>12. WindowRespected'
  <2>1. Len(Append(history, now)) = Len(history) + 1
    BY <1>1, <1>5, AppendProperties
  <2> SUFFICES ASSUME NEW q \in Ip, NEW i \in 1..Len(later[q]), i + MaxPerWindow <= Len(later[q])
               PROVE  later[q][i + MaxPerWindow] - later[q][i] > Window
    BY <1>2 DEF WindowRespected
  <2>2. CASE q = ip
    BY <1>6, <1>11, <2>1, <2>2
  <2>3. CASE q # ip
    BY <1>1, <1>6, <2>3 DEF WindowRespected
  <2>. QED BY <2>2, <2>3
<1>. QED BY <1>1, <1>2, <1>6, <1>10, <1>12 DEF RateBound, Admit, MarkSweep

LEMMA StepKeeps == RateBound /\ [RateNext]_rateVars => RateBound'
<1> SUFFICES ASSUME RateBound, [RateNext]_rateVars PROVE RateBound'
  OBVIOUS
<1>1. CASE Tick
  BY <1>1, TickKeeps
<1>2. ASSUME NEW ip \in Ip, AllowExempt(ip) PROVE RateBound'
  <2>1. Faithful(hits', admitted') /\ now' = now
    BY <1>2 DEF RateBound, AllowExempt
  <2>2. Faithful(hits, admitted)'
    BY <2>1, SameInstant
  <2>. QED BY <1>2, <2>2 DEF RateBound, AllowExempt, WindowRespected
<1>3. ASSUME NEW ip \in Ip, RefuseUntracked(ip) PROVE RateBound'
  BY <1>3, RefuseUntrackedKeeps
<1>4. ASSUME NEW ip \in Ip, RefuseOverRate(ip) PROVE RateBound'
  BY <1>4, RefuseOverRateKeeps
<1>5. ASSUME NEW ip \in Ip, Admit(ip) PROVE RateBound'
  BY <1>5, AdmitKeeps
<1>6. CASE UNCHANGED rateVars
  <2>1. Faithful(hits', admitted') /\ now' = now
    BY <1>6 DEF RateBound, rateVars
  <2>2. Faithful(hits, admitted)'
    BY <2>1, SameInstant
  <2>. QED BY <1>6, <2>2 DEF RateBound, rateVars, WindowRespected
<1>. QED BY <1>1, <1>2, <1>3, <1>4, <1>5, <1>6 DEF RateNext

-----------------------------------------------------------------------------
(* The history and the refusals.                                           *)

(* Time advances, and an admission is recorded at the present. *)
LEMMA OrderKept ==
    ASSUME RateBound, HistoryOrdered, [RateNext]_rateVars
    PROVE  HistoryOrdered'
<1>1. now \in Nat /\ admitted \in [Ip -> Seq(Nat)]
  BY DEF RateBound
<1>2. \A ip \in Ip : /\ Len(admitted[ip]) \in Nat
                     /\ \A i \in 1..Len(admitted[ip]) : admitted[ip][i] \in Nat
  BY <1>1, LenProperties, ElementOfSeq
<1>3. CASE admitted' = admitted /\ now' \in {now, now + 1}
  BY <1>1, <1>2, <1>3 DEF HistoryOrdered
<1>4. ASSUME NEW ip \in Ip, Admit(ip) PROVE HistoryOrdered'
  <2> DEFINE history == admitted[ip]
             later == Append(history, now)
  <2>1. /\ Len(later) = Len(history) + 1
        /\ \A j \in 1..Len(history) : later[j] = history[j]
        /\ later[Len(history) + 1] = now
    BY <1>1, AppendProperties
  <2>2. /\ admitted'[ip] = later /\ now' = now
        /\ \A q \in Ip \ {ip} : admitted'[q] = admitted[q]
    BY <1>1, <1>4 DEF Admit
  <2> SUFFICES ASSUME NEW q \in Ip, NEW i \in 1..Len(admitted'[q]),
                      NEW j \in 1..Len(admitted'[q]), i <= j
               PROVE  admitted'[q][i] <= admitted'[q][j] /\ admitted'[q][j] <= now
    BY <2>2 DEF HistoryOrdered
  <2>3. CASE q # ip
    BY <2>2, <2>3 DEF HistoryOrdered
  <2>4. CASE q = ip /\ j \in 1..Len(history)
    <3>1. i \in 1..Len(history)
      BY <1>2, <2>4
    <3>. QED BY <2>1, <2>2, <2>4, <3>1 DEF HistoryOrdered
  <2>5. CASE q = ip /\ j = Len(history) + 1
    <3>1. later[j] = now /\ now <= now
      BY <1>1, <2>1, <2>5
    <3>2. i \in 1..Len(history) => later[i] <= now
      BY <1>2, <2>1 DEF HistoryOrdered
    <3>3. i \in 1..Len(history) \/ i = j
      BY <1>2, <2>1, <2>2, <2>5
    <3>. QED BY <2>2, <2>5, <3>1, <3>2, <3>3
  <2>6. q = ip => j \in 1..Len(history) \/ j = Len(history) + 1
    BY <1>2, <2>1, <2>2
  <2>. QED BY <2>3, <2>4, <2>5, <2>6
<1>5. (admitted' = admitted /\ now' \in {now, now + 1}) \/ \E ip \in Ip : Admit(ip)
  BY DEF RateNext, Tick, AllowExempt, RefuseUntracked, RefuseOverRate, rateVars
<1>. QED BY <1>3, <1>4, <1>5

(* What is left of a deque is all of it in the window. *)
LEMMA RecentCounts ==
    ASSUME NEW ip \in Ip, RateBound, HistoryOrdered
    PROVE  Cardinality(Counting(ip)) >= Len(Recent(ip))
<1> DEFINE history == admitted[ip]
           L == Len(history)
           n == Len(Recent(ip))
           kept == (L - n + 1)..L
<1>1. now \in Nat /\ admitted \in [Ip -> Seq(Nat)] /\ Faithful(hits, admitted)
  BY DEF RateBound
<1>2. L \in Nat /\ \A i \in 1..L : history[i] \in Nat
  BY <1>1, LenProperties, ElementOfSeq
<1>3. Recent(ip) \in Seq(Nat) /\ n \in Nat /\ Covers(Recent(ip), history)
  BY <1>1, RecentCovers
<1>4. L - n \in Nat /\ \A j \in 1..n : Recent(ip)[j] = history[(L - n) + j]
  BY <1>3 DEF Covers
<1>5. n > 0 => ~Expired(Recent(ip)[1])
  <2>1. Retained(TableFor(ip), ip) \in Seq(Nat)
    BY <1>1, LookupFaithful, RetainedType DEF Faithful
  <2>. QED BY <1>1, <2>1, PruneDropsExpired DEF Recent
<1> HIDE DEF n, L
<1>6. \A i \in kept : i \in Counting(ip)
  <2> SUFFICES ASSUME NEW i \in kept PROVE i \in Counting(ip)
    OBVIOUS
  <2>1. n > 0 /\ 1 \in 1..n /\ L - n + 1 \in 1..L /\ i \in 1..L /\ L - n + 1 <= i
    BY <1>2, <1>3, <1>4
  <2>2. ~Expired(history[L - n + 1])
    BY <1>4, <1>5, <2>1
  <2>3. history[L - n + 1] <= history[i]
    BY <2>1 DEF HistoryOrdered, L
  <2>4. ~Expired(history[i])
    BY <1>1, <1>2, <2>1, <2>2, <2>3, RateAssumption DEF Expired
  <2>. QED BY <2>1, <2>4 DEF Counting, L
<1>7. IsFiniteSet(Counting(ip))
  <2>1. IsFiniteSet(1..L) /\ Counting(ip) \subseteq 1..L
    BY <1>2, FS_Interval DEF Counting, L
  <2>. QED BY <2>1, FS_Subset
<1>8. Cardinality(kept) = n
  <2>1. L - n + 1 \in Int /\ L \in Int
    BY <1>2, <1>4
  <2>2. Cardinality(kept) = IF L - n + 1 > L THEN 0 ELSE L - (L - n + 1) + 1
    BY <2>1, FS_Interval
  <2>. QED BY <1>2, <1>3, <2>2
<1>9. Cardinality(kept) <= Cardinality(Counting(ip))
  BY <1>6, <1>7, FS_Subset
<1>10. Cardinality(Counting(ip)) \in Nat
  BY <1>7, FS_CardinalityType
<1>. QED BY <1>3, <1>8, <1>9, <1>10 DEF n

(* What a sweep leaves in the table has been admitted within the window.   *)
LEMMA SweptTableCounts ==
    ASSUME NEW table, Faithful(table, admitted), RateBound, NEW q \in Tracked(Swept(table))
    PROVE  Counting(q) # {}
<1>1. now \in Nat /\ admitted \in [Ip -> Seq(Nat)] /\ q \in Ip /\ table \in Table
  BY DEF RateBound, Tracked, Faithful
<1> DEFINE deque == table[q]
           rest == Prune(deque)
<1>2. deque # None /\ rest # <<>> /\ Retained(table, q) = deque
  BY <1>1 DEF Tracked, Swept, Retained
<1>3. deque \in Seq(Nat) /\ Covers(deque, admitted[q])
  BY <1>1, <1>2 DEF Faithful, Table
<1> HIDE DEF deque
<1>4. rest \in Seq(Nat) /\ (Len(rest) > 0 => ~Expired(rest[1]))
  BY <1>1, <1>3, PruneDropsExpired
<1>5. Len(rest) \in Nat /\ Len(rest) > 0
  BY <1>2, <1>4, LenProperties, EmptySeq
<1>6. Covers(rest, admitted[q])
  BY <1>1, <1>3, PruneCovers
<1> DEFINE place == Len(admitted[q]) - Len(rest) + 1
<1>7. place \in 1..Len(admitted[q]) /\ rest[1] = admitted[q][place]
  <2>1. Len(admitted[q]) \in Nat
    BY <1>1, LenProperties
  <2>. QED BY <1>5, <1>6, <2>1 DEF Covers
<1>8. place \in Counting(q)
  BY <1>4, <1>5, <1>7 DEF Counting
<1>. QED BY <1>8

(* A refusal is justified at its instant, and forgotten after it. *)
LEMMA RefusalKept ==
    ASSUME RateBound, HistoryOrdered, RefusalJustified, [RateNext]_rateVars
    PROVE  RefusalJustified'
<1> DEFINE others(ip) == {q \in Ip \ {ip} : Counting(q) # {}}
<1>1. CASE verdict' = None
  BY <1>1 DEF RefusalJustified
<1>2. CASE UNCHANGED rateVars
  BY <1>2 DEF RefusalJustified, Counting, Expired, rateVars
<1>3. ASSUME NEW ip \in Ip, RefuseOverRate(ip) PROVE RefusalJustified'
  <2>1. verdict' = ip /\ Counting(ip)' = Counting(ip) /\ Len(Recent(ip)) >= MaxPerWindow
    BY <1>3 DEF RefuseOverRate, Counting, Expired
  <2>2. Cardinality(Counting(ip)) >= Len(Recent(ip))
    BY RecentCounts
  <2>3. Len(Recent(ip)) \in Nat /\ Cardinality(Counting(ip)) \in Nat
    <3>1. IsFiniteSet(Counting(ip))
      <4>1. Len(admitted[ip]) \in Nat
        BY LenProperties DEF RateBound
      <4>2. IsFiniteSet(1..Len(admitted[ip])) /\ Counting(ip) \subseteq 1..Len(admitted[ip])
        BY <4>1, FS_Interval DEF Counting
      <4>. QED BY <4>2, FS_Subset
    <3>. QED BY <3>1, FS_CardinalityType, RecentCovers DEF RateBound
  <2>4. Cardinality(Counting(ip)) >= MaxPerWindow
    BY <2>1, <2>2, <2>3, RateAssumption
  <2>. QED BY <2>1, <2>4 DEF RefusalJustified
<1>4. ASSUME NEW ip \in Ip, RefuseUntracked(ip) PROVE RefusalJustified'
  <2>1. /\ verdict' = ip /\ \A q : Counting(q)' = Counting(q)
        /\ Full(TableFor(ip), ip)
    BY <1>4 DEF RefuseUntracked, Counting, Expired
  <2>2. TableFor(ip) = Swept(DueSweep)
    BY <2>1 DEF TableFor
  <2>3. Faithful(DueSweep, admitted)
    BY SweepFaithful DEF RateBound, DueSweep
  <2>4. \A q \in Tracked(TableFor(ip)) : q \in Ip \ {ip} /\ Counting(q) # {}
    BY <2>1, <2>2, <2>3, SweptTableCounts DEF Full, Tracked
  <2>5. Tracked(TableFor(ip)) \subseteq others(ip)
    BY <2>4
  <2>6. IsFiniteSet(others(ip)) /\ IsFiniteSet(Tracked(TableFor(ip)))
    BY FS_Subset, RateAssumption DEF Tracked
  <2>7. /\ Cardinality(Tracked(TableFor(ip))) <= Cardinality(others(ip))
        /\ Cardinality(Tracked(TableFor(ip))) \in Nat /\ Cardinality(others(ip)) \in Nat
    <3> HIDE DEF others
    <3>. QED BY <2>5, <2>6, FS_Subset, FS_CardinalityType
  <2>8. Cardinality(others(ip)) >= MaxTracked
    <3> HIDE DEF others
    <3>. QED BY <2>1, <2>7, RateAssumption DEF Full
  <2>. QED BY <2>1, <2>8 DEF RefusalJustified
<1>5. \/ verdict' = None \/ UNCHANGED rateVars
      \/ \E ip \in Ip : RefuseUntracked(ip) \/ RefuseOverRate(ip)
  BY DEF RateNext, Tick, AllowExempt, Admit
<1>. QED BY <1>1, <1>2, <1>3, <1>4, <1>5

-----------------------------------------------------------------------------
(* The inductive invariant of allow_at: table and history always agree on  *)
(* what still counts.                                                      *)
THEOREM RateInvariant == RateSpec => []RateInv
<1>1. RateInit => RateInv
  <2> SUFFICES ASSUME RateInit PROVE RateInv
    OBVIOUS
  <2>1. HistoryOrdered
    BY EmptySeq DEF RateInit, HistoryOrdered
  <2>2. RefusalJustified
    BY DEF RateInit, RefusalJustified
  <2>. QED BY <2>1, <2>2, RateInitHolds, InvariantAsBound
<1>2. RateInv /\ [RateNext]_rateVars => RateInv'
  <2> SUFFICES ASSUME RateInv, [RateNext]_rateVars PROVE RateInv'
    OBVIOUS
  <2>1. RateBound' /\ HistoryOrdered' /\ RefusalJustified'
    BY StepKeeps, OrderKept, RefusalKept, InvariantAsBound
  <2>2. (RateInv <=> RateBound /\ HistoryOrdered /\ RefusalJustified)'
    BY InvariantAsBound, PTL
  <2>. QED BY <2>1, <2>2
<1>. QED BY <1>1, <1>2, PTL DEF RateSpec

(* Whatever the sweeps and refusals in between, allow_at never admits more *)
(* than max_per_window connections of an IP within one window.             *)
THEOREM RateWindow == RateSpec => []WindowRespected
<1>1. RateInv => WindowRespected
  BY DEF RateInv
<1>. QED BY <1>1, RateInvariant, PTL

(* allow_at refuses an IP only if its own window is full, or the table is  *)
(* full of others that were admitted within theirs: refused attempts and   *)
(* inactive addresses keep nobody out.                                     *)
THEOREM RateRefusals == RateSpec => []RefusalJustified
<1>1. RateInv => RefusalJustified
  BY DEF RateInv
<1>. QED BY <1>1, RateInvariant, PTL

(* The table of allow_at never holds more than max_tracked_ips entries.    *)
THEOREM RateMemory == RateSpec => []TableBounded
<1>1. RateInv => TableBounded
  BY DEF RateInv
<1>. QED BY <1>1, RateInvariant, PTL

(* Every deque holds instants, at most max_per_window of them.             *)
THEOREM RateTypes == RateSpec => []RateTypeOK
<1>1. RateInv => RateTypeOK
  BY DEF RateInv
<1>. QED BY <1>1, RateInvariant, PTL

=============================================================================

---------------------------- MODULE RateLimiter ----------------------------
(***************************************************************************)
(* The limiter of inbound connections, one sliding window per IP address:  *)
(* RateLimiter of src/crates/nux-core/src/rate_limit.rs, consulted by      *)
(* Behaviour for each pending inbound connection before any handshake.     *)
(*                                                                         *)
(* A connection whose address carries no IP is let through without being   *)
(* counted, as one from an exempted IP is: "exempt" stands for both.       *)
(***************************************************************************)
EXTENDS Integers, Sequences, FiniteSets

CONSTANTS
    Ip,             \* source addresses
    Exempt,         \* addresses never counted and never refused
    MaxPerWindow,   \* max_per_window
    Window,         \* window, in ticks of the monotonic clock
    MaxTracked,     \* max_tracked_ips
    MaxTime,        \* bound: last tick of a behaviour
    None            \* no entry in the table

ASSUME RateAssumption ==
    /\ Exempt \subseteq Ip
    /\ IsFiniteSet(Ip)
    /\ MaxPerWindow \in Nat /\ Window \in Nat /\ MaxTracked \in Nat /\ MaxTime \in Nat
    /\ None \notin Seq(Nat)

VARIABLES
    now,        \* Instant::now()
    hits,       \* the table: retained admissions of each tracked IP, oldest first
    lastSweep,  \* last_sweep
    admitted,   \* history: every admission of each IP, oldest first
    verdict     \* history: the IP refused at this instant, if the last attempt was

rateVars == <<now, hits, lastSweep, admitted, verdict>>

Tracked(table) == {ip \in Ip : table[ip] # None}

RateInit ==
    /\ now = 0
    /\ hits = [ip \in Ip |-> None]
    /\ lastSweep = 0
    /\ admitted = [ip \in Ip |-> <<>>]
    /\ verdict = None

Tick ==
    /\ now < MaxTime
    /\ now' = now + 1
    /\ verdict' = None
    /\ UNCHANGED <<hits, lastSweep, admitted>>

-----------------------------------------------------------------------------
(* Variation: an admission a whole window old is already forgotten. *)
ExpiredAtWindow(t) == now - t >= Window

Expired(t) == now - t > Window

(* prune pops the front of the deque while it is expired. *)
Prefix(deque) == {n \in 1..Len(deque) : \A i \in 1..n : Expired(deque[i])}
Prune(deque) == SubSeq(deque, Cardinality(Prefix(deque)) + 1, Len(deque))

(* Variation: the sweep drops every entry below the limit. *)
SweptBelowLimit(table) ==
    [ip \in Ip |-> IF table[ip] # None /\ Len(Prune(table[ip])) >= MaxPerWindow
                   THEN Prune(table[ip]) ELSE None]

(* sweep prunes every entry and forgets those left empty. *)
Swept(table) ==
    [ip \in Ip |-> IF table[ip] # None /\ Prune(table[ip]) # <<>>
                   THEN Prune(table[ip]) ELSE None]

SweepDue == now - lastSweep >= Window

(* No room in the table for an IP it does not hold. *)
Full(table, ip) == table[ip] = None /\ Cardinality(Tracked(table)) >= MaxTracked

(* The table once the sweep that is due, and the one that makes room, are  *)
(* done.  Variation: no sweep to make room.                                *)
DueSweep == IF SweepDue THEN Swept(hits) ELSE hits
TableWithoutRoom(ip) == DueSweep
TableFor(ip) == IF Full(DueSweep, ip) THEN Swept(DueSweep) ELSE DueSweep

MarkSweep(ip) == lastSweep' = IF SweepDue \/ Full(DueSweep, ip) THEN now ELSE lastSweep

(* entry(ip).or_default(), pruned. *)
Retained(table, ip) == IF table[ip] = None THEN <<>> ELSE table[ip]
Recent(ip) == Prune(Retained(TableFor(ip), ip))

-----------------------------------------------------------------------------
(* allow_at, one action for each of its returns. *)

AllowExempt(ip) ==
    /\ ip \in Exempt
    /\ verdict' = None
    /\ UNCHANGED <<now, hits, lastSweep, admitted>>

RefuseUntracked(ip) ==
    /\ ip \notin Exempt
    /\ Full(TableFor(ip), ip)
    /\ hits' = TableFor(ip)
    /\ MarkSweep(ip)
    /\ verdict' = ip
    /\ UNCHANGED <<now, admitted>>

RefuseOverRate(ip) ==
    /\ ip \notin Exempt
    /\ ~Full(TableFor(ip), ip)
    /\ Len(Recent(ip)) >= MaxPerWindow
    /\ hits' = [TableFor(ip) EXCEPT ![ip] = Recent(ip)]
    /\ MarkSweep(ip)
    /\ verdict' = ip
    /\ UNCHANGED <<now, admitted>>

Admit(ip) ==
    /\ ip \notin Exempt
    /\ ~Full(TableFor(ip), ip)
    /\ Len(Recent(ip)) < MaxPerWindow
    /\ hits' = [TableFor(ip) EXCEPT ![ip] = Append(Recent(ip), now)]
    /\ MarkSweep(ip)
    /\ admitted' = [admitted EXCEPT ![ip] = Append(@, now)]
    /\ verdict' = None
    /\ UNCHANGED now

RateNext ==
    \/ Tick
    \/ \E ip \in Ip : AllowExempt(ip) \/ RefuseUntracked(ip) \/ RefuseOverRate(ip) \/ Admit(ip)

RateSpec == RateInit /\ [][RateNext]_rateVars

-----------------------------------------------------------------------------
(* The shape of the table: a deque never outgrows the limit. *)
RateTypeOK ==
    /\ now \in Nat
    /\ hits \in [Ip -> {None} \cup Seq(Nat)]
    /\ \A ip \in Tracked(hits) : Len(hits[ip]) <= MaxPerWindow
    /\ lastSweep \in Nat
    /\ admitted \in [Ip -> Seq(Nat)]
    /\ verdict \in {None} \cup Ip

(* "au plus max_per_window connexions acceptees par fenetre": of any       *)
(* MaxPerWindow + 1 admissions in a row of an IP, the last comes more than *)
(* a window after the first, whatever sweeps and refusals lie between.     *)
WindowRespected ==
    \A ip \in Ip : \A i \in 1..Len(admitted[ip]) :
        i + MaxPerWindow <= Len(admitted[ip]) =>
            admitted[ip][i + MaxPerWindow] - admitted[ip][i] > Window

(* The memory of the limiter is bounded (MAX_TRACKED_IPS). *)
TableBounded == Cardinality(Tracked(hits)) <= MaxTracked

(* Admissions of an IP that still count, by the history. *)
Counting(ip) == {i \in 1..Len(admitted[ip]) : ~Expired(admitted[ip][i])}

(* An IP is refused only when its window is full, or when it is unknown    *)
(* and the table is full of others that have been admitted within theirs:  *)
(* neither refused attempts nor inactive addresses keep anyone out.        *)
(* (A limit of 0 leaves an empty entry behind each refused address.)       *)
RefusalJustified ==
    verdict # None =>
        \/ Cardinality(Counting(verdict)) >= MaxPerWindow
        \/ Cardinality({ip \in Ip \ {verdict} : Counting(ip) # {}}) >= MaxTracked

(* A deque holds the end of a history, and what it lacks has expired. *)
Covers(deque, history) ==
    LET dropped == Len(history) - Len(deque) IN
    /\ dropped \in Nat
    /\ \A j \in 1..Len(deque) : deque[j] = history[dropped + j]
    /\ \A i \in 1..dropped : Expired(history[i])

(* The table forgets nothing that counts. *)
TableComplete == \A ip \in Ip : Covers(Retained(hits, ip), admitted[ip])

(* Admissions are recorded in the order of time, none after the present:   *)
(* of a deque whose front still counts, all of it counts.                  *)
HistoryOrdered ==
    \A ip \in Ip : \A i, j \in 1..Len(admitted[ip]) :
        i <= j => admitted[ip][i] <= admitted[ip][j] /\ admitted[ip][j] <= now

(* The inductive invariant of the limiter. *)
RateInv ==
    /\ RateTypeOK /\ TableComplete /\ HistoryOrdered
    /\ WindowRespected /\ TableBounded /\ RefusalJustified

=============================================================================

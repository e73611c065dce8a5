--------------------------- MODULE WindowLimiter ---------------------------
(***************************************************************************)
(* The gateway's fixed-window limiter (src/nux_gateway/src/rate_limit.rs), *)
(* one budget for the sensitive routes of both of its tunnel ports         *)
(* (main.rs, api/routes.rs).  Requests call allow at the same time; each   *)
(* access to one of its two atomics is a step.  All of them are Relaxed:   *)
(* the two stores of a reset become visible in either order, but a store   *)
(* of the count comes before the same thread's fetch_add on it.            *)
(***************************************************************************)
EXTENDS Integers, FiniteSetsExt

CONSTANTS
    Requests,       \* bound: requests at one time
    MaxPerWindow,   \* max_per_window
    Window,         \* window_secs
    MaxClock,       \* bound: the clock goes no further than this
    MaxCount        \* bound: calls counted in one window

VARIABLES
    clock,          \* the wall clock, in seconds
    windowStart, count,
    request,        \* each request: what it does in allow, what it has read
    admitted        \* history: requests admitted, by the second they were counted

vars == <<clock, windowStart, count, request, admitted>>

(* stores: those of a reset that are not visible yet. *)
Request == [pc : {"idle", "timed", "counting", "admitted", "refused"},
            now : 0 .. MaxClock, stores : SUBSET {"start", "count"}]

LimiterTypeOK ==
    /\ clock \in 0 .. MaxClock /\ windowStart \in 0 .. MaxClock
    /\ count \in 0 .. MaxCount /\ admitted \in [0 .. MaxClock -> Nat]
    /\ request \in [Requests -> Request]

LimiterInit ==
    /\ clock = 0 /\ windowStart = 0 /\ count = 0
    /\ admitted = [t \in 0 .. MaxClock |-> 0]
    /\ request = [r \in Requests |-> [pc |-> "idle", now |-> 0, stores |-> {}]]

(* saturating_sub: another thread may have stored a later start. *)
Elapsed(now) == IF now < windowStart THEN 0 ELSE now - windowStart

(* unix_now; the answer to the slot's previous request is out. *)
ReadsClock(r) ==
    /\ request[r].pc \in {"idle", "admitted", "refused"} /\ request[r].stores = {}
    /\ request' = [request EXCEPT ![r] = [pc |-> "timed", now |-> clock, stores |-> {}]]
    /\ UNCHANGED <<clock, windowStart, count, admitted>>

(* window_start is loaded: is the window over? *)
ReadsStart(r) ==
    /\ request[r].pc = "timed"
    /\ request' = [request EXCEPT ![r].pc = "counting",
                    ![r].stores = IF Elapsed(request[r].now) >= Window
                                  THEN {"start", "count"} ELSE {}]
    /\ UNCHANGED <<clock, windowStart, count, admitted>>

StoresStart(r) ==
    /\ "start" \in request[r].stores
    /\ request' = [request EXCEPT ![r].stores = @ \ {"start"}]
    /\ windowStart' = request[r].now
    /\ UNCHANGED <<clock, count, admitted>>

StoresCount(r) ==
    /\ "count" \in request[r].stores
    /\ request' = [request EXCEPT ![r].stores = @ \ {"count"}]
    /\ count' = 0
    /\ UNCHANGED <<clock, windowStart, admitted>>

(* fetch_add; enforce passes the request on, or answers 429. *)
Counts(r) ==
    /\ request[r].pc = "counting" /\ "count" \notin request[r].stores
    /\ count < MaxCount
    /\ count' = count + 1
    /\ IF count < MaxPerWindow
       THEN /\ request' = [request EXCEPT ![r].pc = "admitted"]
            /\ admitted' = [admitted EXCEPT ![clock] = @ + 1]
       ELSE /\ request' = [request EXCEPT ![r].pc = "refused"]
            /\ UNCHANGED admitted
    /\ UNCHANGED <<clock, windowStart>>

SecondPasses ==
    /\ clock < MaxClock
    /\ clock' = clock + 1
    /\ UNCHANGED <<windowStart, count, request, admitted>>

LimiterNext ==
    \/ SecondPasses
    \/ \E r \in Requests :
        ReadsClock(r) \/ ReadsStart(r) \/ StoresStart(r) \/ StoresCount(r) \/ Counts(r)

LimiterSpec == LimiterInit /\ [][LimiterNext]_vars

-----------------------------------------------------------------------------
(* Requests admitted less than a window before t, or since. *)
Recent(t) ==
    MapThenSumSet(LAMBDA s : admitted[s], {s \in 0 .. MaxClock : t - s < Window})

(* What its comment says: a race at the turn of a window lets some more    *)
(* requests through than the limit, never fewer (rate_limit.rs 56-58).  A  *)
(* request is refused only when as many were admitted in the last window.  *)
NeverFewer ==
    [][\A r \in Requests :
        request[r].pc # "refused" /\ request'[r].pc = "refused"
            => Recent(request[r].now) >= MaxPerWindow]_vars
=============================================================================

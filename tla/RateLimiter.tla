---------------------------- MODULE RateLimiter -----------------------------
(***************************************************************************)
(* middleware.RateLimiter: one fixed window per remote address, under a    *)
(* mutex.  A request reads the clock before it takes the mutex, so by the  *)
(* time it is counted its reading may be old, and older than those of      *)
(* requests counted before it.                                             *)
(*                                                                         *)
(* Addresses have nothing to do with one another, and the router passes    *)
(* POST /login and POST /register through one limiter.                     *)
(***************************************************************************)
EXTENDS Integers, FiniteSets

CONSTANTS
  Addresses,   \* values of RemoteAddr
  Requests,    \* requests in the limiter at the same time
  Limit,       \* admissions per window (10 in the code)
  Window,      \* length of a window in ticks (one minute in the code)
  MaxTime,     \* bound: the clock
  MaxDelay,    \* bound: ticks between reading the clock and the mutex
  MaxCalls     \* bound: requests in all

ASSUME LimiterConstants ==
  /\ Limit \in Nat \ {0}
  /\ Window \in Nat
  /\ MaxTime \in Nat
  /\ MaxDelay \in Nat
  /\ MaxCalls \in Nat

VARIABLES
  now,         \* the clock
  windows,     \* the window of each address; NoWindow while it is not in the map
  req,         \* the address and the clock reading of each request
  log          \* history: requests that were counted, in windows they opened or found

limiterVars == <<now, windows, req, log>>

Time == 0 .. MaxTime
NoWindow == [startAt |-> -1, count |-> 0]
NoRequest == [addr |-> "none", now |-> -1]

\* An entry of the log: who, the reading, the time of counting, the start of the
\* window, the count, and whether the request was let through.
Counted == [addr : Addresses, read : Time, at : Time, start : Time, count : Nat, ok : BOOLEAN]

LimiterTypeOK ==
  /\ now \in Time
  /\ windows \in [Addresses -> [startAt : Time, count : Nat \ {0}] \cup {NoWindow}]
  /\ req \in [Requests -> [addr : Addresses, now : Time] \cup {NoRequest}]
  /\ log \in SUBSET Counted

Init ==
  /\ now = 0
  /\ windows = [a \in Addresses |-> NoWindow]
  /\ req = [p \in Requests |-> NoRequest]
  /\ log = {}

\* The clock does not run away from a request for longer than MaxDelay.
Tick ==
  /\ now < MaxTime
  /\ \A p \in Requests : req[p] # NoRequest => now - req[p].now < MaxDelay
  /\ now' = now + 1
  /\ UNCHANGED <<windows, req, log>>

\* now := time.Now(), before the mutex.
ReadClock(p) ==
  /\ req[p] = NoRequest
  /\ Cardinality(log) + Cardinality({q \in Requests : req[q] # NoRequest}) < MaxCalls
  /\ \E a \in Addresses : req' = [req EXCEPT ![p] = [addr |-> a, now |-> now]]
  /\ UNCHANGED <<now, windows, log>>

\* Variant: a window is over a tick too early.
IsOverEarly(w, t) == w = NoWindow \/ t - w.startAt >= Window

\* No window yet, or one that began more than its length ago.  A reading older
\* than the window's start counts for that window.
IsOver(w, t) == w = NoWindow \/ t - w.startAt > Window

\* Variants: the request that opens a window is not counted; the count is carried
\* over to a new window; one request too many.
OpenedUncounted(w, t) ==
  IF IsOver(w, t) THEN [startAt |-> t, count |-> 0] ELSE [w EXCEPT !.count = @ + 1]

OpenedWithOldCount(w, t) ==
  IF IsOver(w, t) THEN [startAt |-> t, count |-> w.count + 1] ELSE [w EXCEPT !.count = @ + 1]

AdmitsOneMore(w) == w.count <= Limit + 1

\* The window a request is counted in, with the request.
CountedIn(w, t) ==
  IF IsOver(w, t) THEN [startAt |-> t, count |-> 1] ELSE [w EXCEPT !.count = @ + 1]

Admits(w) == w.count <= Limit

\* The section under the mutex; then 429 or the handler.
Count(p) ==
  LET a == req[p].addr
      t == req[p].now
      w == CountedIn(windows[a], t)
  IN  /\ req[p] # NoRequest
      /\ windows' = [windows EXCEPT ![a] = w]
      /\ log' = log \cup {[addr |-> a, read |-> t, at |-> now, start |-> w.startAt,
                           count |-> w.count, ok |-> Admits(w)]}
      /\ req' = [req EXCEPT ![p] = NoRequest]
      /\ UNCHANGED now

Next == Tick \/ \E p \in Requests : ReadClock(p) \/ Count(p)

Spec == Init /\ [][Next]_limiterVars
-----------------------------------------------------------------------------
Admitted(a) == {e \in log : e.addr = a /\ e.ok}
Readings(entries, t) == {e \in entries : e.read \in t .. t + Window}

\* Counted earlier, for one address.
Before(d, e) ==
  /\ d.addr = e.addr
  /\ d.start < e.start \/ (d.start = e.start /\ d.count < e.count)

\* Windows are fixed, so a burst at the end of one and another at the start of
\* the next both pass: in a window's length, up to twice the limit less the one that
\* opened the first.  Requests that waited for the mutex, though for no longer than
\* a window, can add to it: three windows, the first and the third of which were
\* opened outside of that length.
BurstsAreBounded ==
  \A a \in Addresses, t \in Time :
    /\ Cardinality(Readings({e \in Admitted(a) : e.at = e.read}, t)) <= 2 * Limit - 1
    /\ MaxDelay <= Window => Cardinality(Readings(Admitted(a), t)) <= 3 * Limit - 2

\* Nobody is refused before the limit: as many requests of the address as it
\* allows were let through in the refused request's window, which is not over.
RefusalsAreEarned ==
  \A e \in log : ~e.ok =>
    /\ Cardinality({d \in Admitted(e.addr) : d.start = e.start}) = Limit
    /\ e.read - e.start <= Window

\* An address that has been quiet for longer than a window is let through,
\* however many requests it was refused before.
WaitingIsEnough ==
  \A e \in log :
    (\A d \in log : Before(d, e) => e.read - d.read > Window) => e.ok

\* What the log says of the windows: an entry's window began no later than the
\* one there is, was not over for its reading, and counted before it as many
\* others as its number says; a new window begins after the end of the last.
EntryIsSound(e) ==
  LET w == windows[e.addr] IN
  /\ e.count > 0 /\ (e.ok <=> e.count <= Limit)
  /\ e.read - e.start <= Window /\ (e.count = 1 => e.read = e.start)
  /\ e.start <= e.at /\ e.read <= e.at /\ e.at - e.read <= MaxDelay
  /\ w # NoWindow /\ e.start <= w.startAt /\ (e.start = w.startAt => e.count <= w.count)
  /\ \A n \in 1 .. e.count :
       \E d \in log : d.addr = e.addr /\ d.start = e.start /\ d.count = n
  /\ \A d \in log : d.addr = e.addr =>
       /\ d.start = e.start /\ d.count = e.count => d = e
       /\ d.start < e.start => e.start > d.start + Window

WindowIsLogged(a) ==
  windows[a] # NoWindow =>
    /\ windows[a].startAt <= now
    /\ \E e \in log : e.addr = a /\ e.start = windows[a].startAt /\ e.count = windows[a].count

\* The inductive invariant of RateLimiter_proofs.
LimiterIInv ==
  /\ LimiterTypeOK
  /\ \A p \in Requests : req[p] # NoRequest =>
       req[p].now <= now /\ now - req[p].now <= MaxDelay
  /\ \A e \in log : EntryIsSound(e)
  /\ \A a \in Addresses : WindowIsLogged(a)
=============================================================================

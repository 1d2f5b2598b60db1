------------------------- MODULE RateLimiter_proofs -------------------------
(***************************************************************************)
(* Proofs about RateLimiter, for any limit, window and number of requests: *)
(* what its log says of the windows, that nobody is refused early, and how *)
(* much a burst can let through.                                           *)
(***************************************************************************)
EXTENDS RateLimiter, FiniteSetTheorems, FunctionTheorems, TLAPS

WindowRow == [startAt : Time, count : Nat \ {0}]

LEMMA LogFields ==
  ASSUME LimiterTypeOK, NEW e \in log
  PROVE  /\ e.addr \in Addresses /\ e.read \in Nat /\ e.at \in Nat /\ e.start \in Nat
         /\ e.count \in Nat /\ e.ok \in BOOLEAN
  <1>1. e \in Counted BY DEF LimiterTypeOK
  <1> QED BY <1>1, LimiterConstants DEF Counted, Time

\* A window that exists has numbers.
LEMMA WindowFields ==
  ASSUME LimiterTypeOK, NEW a \in Addresses, windows[a] # NoWindow
  PROVE  windows[a] \in WindowRow /\ windows[a].startAt \in Nat /\ windows[a].count \in Nat \ {0}
  <1>1. windows[a] \in WindowRow BY DEF LimiterTypeOK, WindowRow
  <1> QED BY <1>1, LimiterConstants DEF WindowRow, Time

LEMMA LimiterStart == Init => LimiterIInv
  <1> SUFFICES ASSUME Init PROVE LimiterIInv OBVIOUS
  <1>1. 0 \in Time BY LimiterConstants DEF Time
  <1>2. LimiterTypeOK BY <1>1 DEF Init, LimiterTypeOK
  <1> QED BY <1>2 DEF Init, LimiterIInv, WindowIsLogged

\* Neither the clock nor a new request touches windows and log.
LEMMA WaitingKeeps ==
  ASSUME LimiterIInv, Tick \/ \E p \in Requests : ReadClock(p)
  PROVE  LimiterIInv'
  <1>1. LimiterTypeOK /\ now \in Nat /\ MaxDelay \in Nat
    BY LimiterConstants DEF LimiterIInv, LimiterTypeOK, Time
  <1>2. UNCHANGED <<windows, log>> BY DEF Tick, ReadClock
  <1>3. now' \in Time /\ now <= now'
    <2>1. CASE Tick BY <1>1, <2>1, LimiterConstants DEF Tick, Time
    <2>2. CASE now' = now BY <1>1, <2>2 DEF LimiterTypeOK
    <2> QED BY <2>1, <2>2 DEF ReadClock
  <1>4. req' \in [Requests -> [addr : Addresses, now : Time] \cup {NoRequest}]
    <2>1. CASE Tick BY <1>1, <2>1 DEF Tick, LimiterTypeOK
    <2>2. ASSUME NEW q \in Requests, ReadClock(q)
          PROVE  req' \in [Requests -> [addr : Addresses, now : Time] \cup {NoRequest}]
      <3>1. PICK a \in Addresses : req' = [req EXCEPT ![q] = [addr |-> a, now |-> now]]
        BY <2>2 DEF ReadClock
      <3> QED BY <1>1, <3>1 DEF LimiterTypeOK
    <2> QED BY <2>1, <2>2
  <1>5. LimiterTypeOK' BY <1>1, <1>2, <1>3, <1>4 DEF LimiterTypeOK
  <1>6. \A p \in Requests : req'[p] # NoRequest => req'[p].now <= now' /\ now' - req'[p].now <= MaxDelay
    <2> TAKE p \in Requests
    <2>1. req[p] # NoRequest => req[p].now \in Nat /\ req[p].now <= now /\ now - req[p].now <= MaxDelay
      BY <1>1, LimiterConstants DEF LimiterIInv, LimiterTypeOK, Time
    <2>2. CASE Tick
      BY <1>1, <2>1, <2>2 DEF Tick
    <2>3. ASSUME NEW q \in Requests, ReadClock(q)
          PROVE  req'[p] # NoRequest => req'[p].now <= now' /\ now' - req'[p].now <= MaxDelay
      <3>1. PICK a \in Addresses : req' = [req EXCEPT ![q] = [addr |-> a, now |-> now]]
        BY <2>3 DEF ReadClock
      <3>2. now' = now BY <2>3 DEF ReadClock
      <3>3. CASE p = q
        <4>1. req'[p].now = now BY <1>1, <3>1, <3>3 DEF LimiterTypeOK
        <4> QED BY <1>1, <3>2, <4>1
      <3>4. CASE p # q
        <4>1. req'[p] = req[p] BY <1>1, <3>1, <3>4 DEF LimiterTypeOK
        <4> QED BY <2>1, <3>2, <4>1
      <3> QED BY <3>3, <3>4
    <2> QED BY <2>2, <2>3
  <1>7. \A e \in log' : EntryIsSound(e)' BY <1>2 DEF LimiterIInv, EntryIsSound
  <1>8. \A a \in Addresses : WindowIsLogged(a)'
    <2> TAKE a \in Addresses
    <2>1. WindowIsLogged(a) BY DEF LimiterIInv
    <2>2. windows[a] # NoWindow => windows[a].startAt <= now'
      BY <1>1, <1>3, <2>1, WindowFields, LimiterConstants DEF WindowIsLogged, Time
    <2> QED BY <1>2, <2>1, <2>2 DEF WindowIsLogged
  <1> QED BY <1>5, <1>6, <1>7, <1>8 DEF LimiterIInv

\* A request is counted in the window it finds, or in one that begins after it.
LEMMA CountKeeps ==
  ASSUME LimiterIInv, NEW p \in Requests, Count(p)
  PROVE  LimiterIInv'
  <1>1. /\ LimiterTypeOK /\ now \in Nat
        /\ Limit \in Nat \ {0} /\ Window \in Nat /\ MaxDelay \in Nat /\ Time \subseteq Nat
    BY LimiterConstants DEF LimiterIInv, LimiterTypeOK, Time
  <1>2. PICK a \in Addresses, t \in Time : req[p] = [addr |-> a, now |-> t]
    BY <1>1 DEF Count, LimiterTypeOK
  <1>3. t \in Nat /\ t <= now /\ now - t <= MaxDelay
    <2>1. req[p] # NoRequest /\ req[p].now = t BY <1>2 DEF Count
    <2> QED BY <1>1, <2>1 DEF LimiterIInv
  <1>4. PICK v : v = windows[a] OBVIOUS
  <1>5. PICK w : w = CountedIn(v, t) OBVIOUS
  <1>6. PICK new : new = [addr |-> a, read |-> t, at |-> now, start |-> w.startAt,
                          count |-> w.count, ok |-> Admits(w)]
    OBVIOUS
  <1>7. /\ windows' = [windows EXCEPT ![a] = w] /\ log' = log \cup {new}
        /\ req' = [req EXCEPT ![p] = NoRequest] /\ now' = now
    BY <1>2, <1>4, <1>5, <1>6 DEF Count
  <1>8. v # NoWindow => v.startAt \in Nat /\ v.count \in Nat \ {0} /\ v \in WindowRow
    BY <1>1, <1>4, WindowFields
  <1>9. \/ /\ (v = NoWindow \/ t - v.startAt > Window)
            /\ w = [startAt |-> t, count |-> 1]
         \/ /\ v # NoWindow /\ t - v.startAt <= Window
            /\ w.startAt = v.startAt /\ w.count = v.count + 1 /\ w \in WindowRow
    <2>1. CASE IsOver(v, t)
      BY <1>5, <2>1 DEF IsOver, CountedIn
    <2>2. CASE ~IsOver(v, t)
      <3>1. v # NoWindow /\ t - v.startAt <= Window BY <1>1, <1>3, <1>8, <2>2 DEF IsOver
      <3>2. w = [v EXCEPT !.count = @ + 1] BY <1>5, <2>2 DEF CountedIn
      <3> QED BY <1>8, <3>1, <3>2 DEF WindowRow
    <2> QED BY <2>1, <2>2
  <1>10. w \in WindowRow /\ w.startAt \in Nat /\ w.count \in Nat \ {0} /\ w.startAt \in Time
    BY <1>1, <1>2, <1>9 DEF WindowRow
  <1>11. w # NoWindow BY <1>10 DEF NoWindow
  <1>12. WindowIsLogged(a) BY DEF LimiterIInv
  <1>13. ASSUME NEW e \in log, e.addr = a
         PROVE  /\ e.start <= w.startAt /\ (e.start = w.startAt => e.count < w.count)
                /\ e.start < w.startAt => w.startAt > e.start + Window
    <2>1. /\ e.start \in Nat /\ e.count \in Nat BY <1>1, LogFields
    <2>2. /\ v # NoWindow /\ e.start <= v.startAt /\ (e.start = v.startAt => e.count <= v.count)
      BY <1>4, <1>13 DEF LimiterIInv, EntryIsSound
    <2>3. e.start < v.startAt => v.startAt > e.start + Window
      <3>1. PICK d \in log : d.addr = a /\ d.start = v.startAt
        BY <1>4, <1>12, <2>2 DEF WindowIsLogged
      <3> QED BY <1>13, <3>1 DEF LimiterIInv, EntryIsSound
    <2>4. CASE t - v.startAt > Window /\ w = [startAt |-> t, count |-> 1]
      BY <1>1, <1>3, <1>8, <2>1, <2>2, <2>4
    <2>5. CASE w.startAt = v.startAt /\ w.count = v.count + 1
      BY <1>8, <2>1, <2>2, <2>3, <2>5
    <2> QED BY <1>9, <2>2, <2>4, <2>5
  <1>14. /\ new.addr = a /\ new.read = t /\ new.at = now /\ new.start = w.startAt
         /\ new.count = w.count /\ (new.ok <=> w.count <= Limit) /\ new \in Counted
    <2>1. Admits(w) \in BOOLEAN BY DEF Admits
    <2>2. now \in Time BY <1>1 DEF LimiterTypeOK
    <2> QED BY <1>2, <1>6, <1>10, <2>1, <2>2 DEF Counted, Admits
  <1>15. LimiterTypeOK'
    <2>1. now' \in Time BY <1>1, <1>7 DEF LimiterTypeOK
    <2>2. windows' \in [Addresses -> [startAt : Time, count : Nat \ {0}] \cup {NoWindow}]
      BY <1>1, <1>7, <1>10 DEF LimiterTypeOK, WindowRow
    <2>3. req' \in [Requests -> [addr : Addresses, now : Time] \cup {NoRequest}]
      BY <1>1, <1>7 DEF LimiterTypeOK
    <2>4. log' \in SUBSET Counted BY <1>1, <1>7, <1>14 DEF LimiterTypeOK
    <2> QED BY <2>1, <2>2, <2>3, <2>4 DEF LimiterTypeOK
  <1>16. \A q \in Requests : req'[q] # NoRequest => req'[q].now <= now' /\ now' - req'[q].now <= MaxDelay
    BY <1>1, <1>7 DEF LimiterIInv, LimiterTypeOK
  <1>17. windows'[a] = w /\ \A x \in Addresses \ {a} : windows'[x] = windows[x]
    BY <1>1, <1>7 DEF LimiterTypeOK
  <1>18. ASSUME NEW e \in log PROVE EntryIsSound(e)'
    <2>1. EntryIsSound(e) /\ e.addr \in Addresses /\ e.start \in Nat /\ e.count \in Nat
      BY <1>1, LogFields DEF LimiterIInv
    <2>2. /\ windows'[e.addr] # NoWindow /\ e.start <= windows'[e.addr].startAt
          /\ e.start = windows'[e.addr].startAt => e.count <= windows'[e.addr].count
      <3>1. CASE e.addr = a BY <1>10, <1>11, <1>13, <1>17, <2>1, <3>1
      <3>2. CASE e.addr # a BY <1>17, <2>1, <3>2 DEF EntryIsSound
      <3> QED BY <3>1, <3>2
    <2>3. \A n \in 1 .. e.count : \E d \in log' : d.addr = e.addr /\ d.start = e.start /\ d.count = n
      BY <1>7, <2>1 DEF EntryIsSound
    <2>4. \A d \in log' : d.addr = e.addr =>
            /\ d.start = e.start /\ d.count = e.count => d = e
            /\ d.start < e.start => e.start > d.start + Window
      <3> SUFFICES ASSUME NEW d \in log', d.addr = e.addr
                   PROVE  /\ d.start = e.start /\ d.count = e.count => d = e
                          /\ d.start < e.start => e.start > d.start + Window
        OBVIOUS
      <3>1. CASE d \in log BY <2>1, <3>1 DEF EntryIsSound
      <3>2. CASE d = new BY <1>10, <1>13, <1>14, <2>1, <3>2
      <3> QED BY <1>7, <3>1, <3>2
    <2> QED BY <2>1, <2>2, <2>3, <2>4 DEF EntryIsSound
  <1>19. EntryIsSound(new)'
    <2>1. new.count > 0 /\ (new.ok <=> new.count <= Limit) BY <1>10, <1>14
    <2>2. new.read - new.start <= Window /\ (new.count = 1 => new.read = new.start)
      BY <1>1, <1>3, <1>8, <1>9, <1>14
    <2>3. new.start <= new.at /\ new.read <= new.at /\ new.at - new.read <= MaxDelay
      <3>1. v # NoWindow => v.startAt <= now BY <1>4, <1>12 DEF WindowIsLogged
      <3> QED BY <1>3, <1>9, <1>14, <3>1
    <2>4. /\ windows'[new.addr] = w /\ new.start = w.startAt /\ new.count = w.count
      BY <1>14, <1>17
    <2>5. \A n \in 1 .. new.count :
            \E d \in log' : d.addr = new.addr /\ d.start = new.start /\ d.count = n
      <3> TAKE n \in 1 .. new.count
      <3>1. CASE n = new.count BY <1>7, <3>1
      <3>2. CASE n # new.count
        <4>1. v # NoWindow /\ w.startAt = v.startAt /\ n \in 1 .. v.count
          BY <1>8, <1>9, <1>14, <3>2
        <4>2. PICK e \in log : e.addr = a /\ e.start = v.startAt /\ e.count = v.count
          BY <1>4, <1>12, <4>1 DEF WindowIsLogged
        <4>3. PICK d \in log : d.addr = a /\ d.start = v.startAt /\ d.count = n
          BY <4>1, <4>2 DEF LimiterIInv, EntryIsSound
        <4> QED BY <1>7, <1>14, <4>1, <4>3
      <3> QED BY <3>1, <3>2
    <2>6. \A d \in log' : d.addr = new.addr =>
            /\ d.start = new.start /\ d.count = new.count => d = new
            /\ d.start < new.start => new.start > d.start + Window
      <3> SUFFICES ASSUME NEW d \in log', d.addr = new.addr
                   PROVE  /\ d.start = new.start /\ d.count = new.count => d = new
                          /\ d.start < new.start => new.start > d.start + Window
        OBVIOUS
      <3>1. CASE d \in log
        <4>1. d.count \in Nat BY <1>1, <3>1, LogFields
        <4> QED BY <1>10, <1>13, <1>14, <3>1, <4>1
      <3>2. CASE d = new BY <1>10, <1>14, <3>2
      <3> QED BY <1>7, <3>1, <3>2
    <2> QED BY <1>10, <1>11, <2>1, <2>2, <2>3, <2>4, <2>5, <2>6 DEF EntryIsSound
  <1>20. \A x \in Addresses : WindowIsLogged(x)'
    <2> TAKE x \in Addresses
    <2>1. CASE x = a
      <3>1. w.startAt <= now
        <4>1. v # NoWindow => v.startAt <= now BY <1>4, <1>12 DEF WindowIsLogged
        <4> QED BY <1>3, <1>9, <4>1
      <3> QED BY <1>7, <1>14, <1>17, <2>1, <3>1 DEF WindowIsLogged
    <2>2. CASE x # a
      <3>1. WindowIsLogged(x) BY DEF LimiterIInv
      <3> QED BY <1>7, <1>17, <2>2, <3>1 DEF WindowIsLogged
    <2> QED BY <2>1, <2>2
  <1> QED BY <1>7, <1>15, <1>16, <1>18, <1>19, <1>20 DEF LimiterIInv

\* The invariant: what the log says of the windows.
THEOREM LimiterInvariant == Spec => []LimiterIInv
  <1>1. LimiterIInv /\ UNCHANGED limiterVars => LimiterIInv'
    BY DEF limiterVars, LimiterIInv, LimiterTypeOK, EntryIsSound, WindowIsLogged
  <1>2. LimiterIInv /\ [Next]_limiterVars => LimiterIInv'
    BY <1>1, WaitingKeeps, CountKeeps DEF Next
  <1> QED BY <1>2, LimiterStart, PTL DEF Spec
-----------------------------------------------------------------------------
\* Some of the requests that one window let through: as many as the limit, and
\* one less when the one that opened it is not among them.
LEMMA OneWindow ==
  ASSUME LimiterIInv, NEW a \in Addresses, NEW s, NEW S \in SUBSET Admitted(a),
         \A e \in S : e.start = s
  PROVE  /\ IsFiniteSet(S) /\ Cardinality(S) \in Nat /\ Cardinality(S) <= Limit
         /\ (\A e \in S : e.count # 1) => Cardinality(S) <= Limit - 1
         /\ Cardinality(S) = Limit <=> \A n \in 1 .. Limit : \E e \in S : e.count = n
  <1>1. LimiterTypeOK /\ Limit \in Nat \ {0} BY LimiterConstants DEF LimiterIInv
  <1>2. ASSUME NEW e \in S PROVE e \in log /\ e.addr = a /\ e.count \in 1 .. Limit
    <2>1. e \in log /\ e.addr = a /\ e.ok BY DEF Admitted
    <2>2. EntryIsSound(e) /\ e.count \in Nat BY <1>1, <2>1, LogFields DEF LimiterIInv
    <2> QED BY <1>1, <2>1, <2>2 DEF EntryIsSound
  <1>3. \A d, e \in S : d.count = e.count => d = e
    BY <1>2 DEF LimiterIInv, EntryIsSound
  <1> DEFINE f == [e \in S |-> e.count]
  <1>4. f \in Injection(S, 1 .. Limit) BY <1>2, <1>3, Fun_IsInj
  <1>5. IsFiniteSet(1 .. Limit) /\ Cardinality(1 .. Limit) = Limit BY <1>1, FS_Interval
  <1>6. /\ IsFiniteSet(S) /\ Cardinality(S) <= Limit
        /\ Cardinality(S) = Limit <=> f \in Surjection(S, 1 .. Limit)
    BY <1>4, <1>5, FS_Injection
  <1>7. f \in Surjection(S, 1 .. Limit) <=> \A n \in 1 .. Limit : \E e \in S : f[e] = n
    BY <1>2 DEF Surjection
  <1>8. Cardinality(S) = Limit <=> \A n \in 1 .. Limit : \E e \in S : e.count = n
    BY <1>6, <1>7
  <1>9. Cardinality(S) \in Nat BY <1>6, FS_CardinalityType
  <1>10. (\A e \in S : e.count # 1) => Cardinality(S) # Limit
    <2>1. 1 \in 1 .. Limit BY <1>1
    <2> QED BY <1>8, <2>1
  <1> QED BY <1>1, <1>6, <1>8, <1>9, <1>10

\* A window refuses nobody before it has let the limit through.
LEMMA Earned == LimiterIInv => RefusalsAreEarned
  <1> SUFFICES ASSUME LimiterIInv, NEW e \in log, ~e.ok
               PROVE  /\ Cardinality({d \in Admitted(e.addr) : d.start = e.start}) = Limit
                      /\ e.read - e.start <= Window
    BY DEF RefusalsAreEarned
  <1>1. EntryIsSound(e) /\ LimiterTypeOK /\ Limit \in Nat \ {0}
    BY LimiterConstants DEF LimiterIInv
  <1>2. e.addr \in Addresses /\ e.count \in Nat BY <1>1, LogFields
  <1> DEFINE S == {d \in Admitted(e.addr) : d.start = e.start}
  <1>3. S \in SUBSET Admitted(e.addr) /\ \A d \in S : d.start = e.start OBVIOUS
  <1>4. \A n \in 1 .. Limit : \E d \in S : d.count = n
    <2> TAKE n \in 1 .. Limit
    <2>1. n \in 1 .. e.count /\ n <= Limit BY <1>1, <1>2 DEF EntryIsSound
    <2>2. PICK d \in log : d.addr = e.addr /\ d.start = e.start /\ d.count = n
      BY <1>1, <2>1 DEF EntryIsSound
    <2>3. d.ok BY <2>1, <2>2 DEF LimiterIInv, EntryIsSound
    <2> QED BY <2>2, <2>3 DEF Admitted
  <1>5. Cardinality(S) = Limit
    <2>1. PICK a \in Addresses : a = e.addr BY <1>2
    <2>2. PICK s : s = e.start OBVIOUS
    <2>3. S \in SUBSET Admitted(a) /\ \A d \in S : d.start = s BY <2>1, <2>2
    <2> HIDE DEF S
    <2> QED BY <1>4, <2>3, OneWindow
  <1> QED BY <1>1, <1>5 DEF EntryIsSound

\* A refused request is in a window that another one opened, and that is not over.
LEMMA Waited == LimiterIInv => WaitingIsEnough
  <1> SUFFICES ASSUME LimiterIInv, NEW e \in log, ~e.ok,
                      \A d \in log : Before(d, e) => e.read - d.read > Window
               PROVE  FALSE
    BY DEF WaitingIsEnough
  <1>1. EntryIsSound(e) /\ LimiterTypeOK /\ Limit \in Nat \ {0} /\ Window \in Nat
    BY LimiterConstants DEF LimiterIInv
  <1>2. e.addr \in Addresses /\ e.count \in Nat /\ e.count > 1 /\ e.read \in Nat /\ e.start \in Nat
    BY <1>1, LogFields DEF EntryIsSound
  <1>3. PICK d \in log : d.addr = e.addr /\ d.start = e.start /\ d.count = 1
    <2>1. 1 \in 1 .. e.count BY <1>2
    <2> QED BY <1>1, <2>1 DEF EntryIsSound
  <1>4. d.read = e.start BY <1>3 DEF LimiterIInv, EntryIsSound
  <1>5. Before(d, e) BY <1>2, <1>3 DEF Before
  <1> QED BY <1>1, <1>2, <1>4, <1>5 DEF EntryIsSound
-----------------------------------------------------------------------------
\* No three of them are of three windows, one after the other.
NoThree(S) == ~ \E d, e, f \in S : d.start < e.start /\ e.start < f.start

LEMMA TwoSets ==
  ASSUME NEW D, NEW E, IsFiniteSet(D), IsFiniteSet(E)
  PROVE  /\ IsFiniteSet(D \cup E) /\ Cardinality(D \cup E) \in Nat
         /\ Cardinality(D \cup E) <= Cardinality(D) + Cardinality(E)
  <1>1. D \cap E \in SUBSET D OBVIOUS
  <1>2. IsFiniteSet(D \cap E) /\ IsFiniteSet(D \cup E) BY <1>1, FS_Subset, FS_Union
  <1>3. Cardinality(D \cup E) = Cardinality(D) + Cardinality(E) - Cardinality(D \cap E)
    BY FS_Union
  <1>4. /\ Cardinality(D \cap E) \in Nat /\ Cardinality(D \cup E) \in Nat
        /\ Cardinality(D) \in Nat /\ Cardinality(E) \in Nat
    BY <1>2, FS_CardinalityType
  <1> QED BY <1>2, <1>3, <1>4

\* The requests of two windows: those that opened them are not both among them.
LEMMA TwoWindows ==
  ASSUME LimiterIInv, NEW a \in Addresses, NEW t \in Nat,
         NEW S \in SUBSET Readings(Admitted(a), t), NoThree(S)
  PROVE  Cardinality(S) \in Nat /\ Cardinality(S) <= 2 * Limit - 1
  <1>1. LimiterTypeOK /\ Limit \in Nat \ {0} /\ Window \in Nat
    BY LimiterConstants DEF LimiterIInv
  <1>2. ASSUME NEW e \in S
        PROVE  /\ e \in log /\ e.addr = a /\ e \in Admitted(a)
               /\ e.start \in Nat /\ e.read \in Nat /\ e.read >= t /\ e.read <= t + Window
               /\ e.count = 1 => e.read = e.start
    <2>1. e \in Admitted(a) /\ e \in log /\ e.addr = a /\ e.read \in t .. t + Window
      BY DEF Readings, Admitted
    <2>2. e.start \in Nat /\ e.read \in Nat BY <1>1, <2>1, LogFields
    <2>3. e.count = 1 => e.read = e.start BY <2>1 DEF LimiterIInv, EntryIsSound
    <2> QED BY <1>1, <2>1, <2>2, <2>3
  <1>3. \A d, e \in S : d.start < e.start => ~(d.count = 1 /\ e.count = 1)
    <2> TAKE d \in S, e \in S
    <2>1. d.start < e.start => e.start > d.start + Window
      BY <1>2 DEF LimiterIInv, EntryIsSound
    <2> QED BY <1>1, <1>2, <2>1
  <1>4. PICK s1, s2 : \A e \in S : e.start = s1 \/ e.start = s2
    <2>1. CASE S = {} BY <2>1
    <2>2. CASE S # {}
      <3>1. PICK d \in S : TRUE BY <2>2
      <3>2. CASE \A e \in S : e.start = d.start BY <3>2
      <3>3. CASE \E e \in S : e.start # d.start
        <4>1. PICK e \in S : e.start # d.start BY <3>3
        <4>2. \A f \in S : f.start = d.start \/ f.start = e.start
          BY <1>2, <4>1 DEF NoThree
        <4> QED BY <4>2
      <3> QED BY <3>2, <3>3
    <2> QED BY <2>1, <2>2
  <1> DEFINE W(s) == {e \in S : e.start = s}
  <1>5. ASSUME NEW s
        PROVE  /\ IsFiniteSet(W(s)) /\ Cardinality(W(s)) \in Nat /\ Cardinality(W(s)) <= Limit
               /\ (\A e \in W(s) : e.count # 1) => Cardinality(W(s)) <= Limit - 1
    <2>1. W(s) \in SUBSET Admitted(a) /\ \A e \in W(s) : e.start = s BY <1>2
    <2> QED BY <2>1, OneWindow
  <1>6. S = W(s1) \cup W(s2) BY <1>4
  <1>7. CASE s1 = s2
    <2>1. S = W(s1) BY <1>6, <1>7
    <2> HIDE DEF W
    <2> QED BY <1>1, <1>5, <2>1
  <1>8. CASE s1 # s2
    <2>1. \/ \A e \in W(s1) : e.count # 1
          \/ \A e \in W(s2) : e.count # 1
      <3> SUFFICES ASSUME NEW d \in W(s1), NEW e \in W(s2), d.count = 1, e.count = 1
                   PROVE  FALSE
        OBVIOUS
      <3>1. d.start < e.start \/ e.start < d.start BY <1>2, <1>8
      <3> QED BY <1>3, <3>1
    <2> HIDE DEF W
    <2>2. /\ IsFiniteSet(W(s1)) /\ Cardinality(W(s1)) \in Nat
          /\ IsFiniteSet(W(s2)) /\ Cardinality(W(s2)) \in Nat
          /\ Cardinality(W(s1)) + Cardinality(W(s2)) <= 2 * Limit - 1
      BY <1>1, <1>5, <2>1
    <2> QED BY <1>1, <1>6, <2>2, TwoSets
  <1> QED BY <1>7, <1>8

\* Where three windows overlap a window's length, the first and the third were
\* opened outside of it.
LEMMA ThreeWindows ==
  ASSUME LimiterIInv, NEW a \in Addresses, NEW t \in Nat, MaxDelay <= Window,
         NEW S, S = Readings(Admitted(a), t), ~NoThree(S)
  PROVE  Cardinality(S) <= 3 * Limit - 2
  <1>1. LimiterTypeOK /\ Limit \in Nat \ {0} /\ Window \in Nat /\ MaxDelay \in Nat
    BY LimiterConstants DEF LimiterIInv
  <1>2. ASSUME NEW e \in S
        PROVE  /\ e \in log /\ e.addr = a /\ e.ok
               /\ e.start \in Nat /\ e.read \in Nat /\ e.at \in Nat /\ e.count \in Nat
               /\ e.read >= t /\ e.read <= t + Window
               /\ e.read - e.start <= Window /\ e.start <= e.at
               /\ e.at - e.read <= MaxDelay /\ e.count > 0
               /\ e.ok <=> e.count <= Limit
               /\ e.count = 1 => e.read = e.start
    <2>1. e \in log /\ e.addr = a /\ e.ok /\ e.read \in t .. t + Window
      BY DEF Readings, Admitted
    <2>2. EntryIsSound(e) BY <2>1 DEF LimiterIInv
    <2>3. /\ e.start \in Nat /\ e.read \in Nat /\ e.at \in Nat /\ e.count \in Nat
      BY <1>1, <2>1, LogFields
    <2> QED BY <1>1, <2>1, <2>2, <2>3 DEF EntryIsSound
  <1>3. \A d, e \in S : d.start < e.start => e.start > d.start + Window
    BY <1>2 DEF LimiterIInv, EntryIsSound
  <1>4. PICK x \in S, y \in S, z \in S : x.start < y.start /\ y.start < z.start
    BY DEF NoThree
  <1>5. \* a reading is no older than a window, so it is of the window before at most
        \A d, e \in S : d.start < e.start => e.read > d.start
    <2> TAKE d \in S, e \in S
    <2> HAVE d.start < e.start
    <2>1. e.start > d.start + Window BY <1>3
    <2>2. e.read >= e.start - Window BY <1>1, <1>2
    <2> QED BY <1>1, <1>2, <2>1, <2>2
  <1>6. \A e \in S : e.start = x.start \/ e.start = y.start \/ e.start = z.start
    <2> SUFFICES ASSUME NEW d \in S, NEW e \in S, NEW f \in S, NEW g \in S,
                        d.start < e.start, e.start < f.start, f.start < g.start
                 PROVE  FALSE
      BY <1>2, <1>4
    <2>1. g.read > f.start BY <1>5
    <2>2. f.start > e.start + Window /\ e.start > d.start + Window BY <1>3
    <2>3. d.read <= d.start + Window BY <1>1, <1>2
    <2>4. d.read >= t /\ g.read <= t + Window BY <1>2
    <2> QED BY <1>1, <1>2, <2>1, <2>2, <2>3, <2>4
  <1>7. x.start < t
    <2>1. z.read > y.start /\ y.start > x.start + Window BY <1>3, <1>4, <1>5
    <2>2. z.read <= t + Window BY <1>2
    <2> QED BY <1>1, <1>2, <2>1, <2>2
  <1>8. z.start > t + Window
    <2>1. z.start > y.start + Window /\ y.start > x.start + Window BY <1>3, <1>4
    <2>2. x.read >= t /\ x.read <= x.start + Window BY <1>1, <1>2
    <2> QED BY <1>1, <1>2, <2>1, <2>2
  <1> DEFINE W(s) == {e \in S : e.start = s}
  <1>9. ASSUME NEW s
        PROVE  /\ IsFiniteSet(W(s)) /\ Cardinality(W(s)) \in Nat /\ Cardinality(W(s)) <= Limit
               /\ (\A e \in W(s) : e.count # 1) => Cardinality(W(s)) <= Limit - 1
    <2>1. W(s) \in SUBSET Admitted(a) /\ \A e \in W(s) : e.start = s BY DEF Readings
    <2> QED BY <2>1, OneWindow
  <1>10. \A e \in W(x.start) : e.count # 1 BY <1>2, <1>7
  <1>11. \A e \in W(z.start) : e.count # 1 BY <1>1, <1>2, <1>8
  <1>13. PICK A, B, C : A = W(x.start) /\ B = W(y.start) /\ C = W(z.start) OBVIOUS
  <1>14. /\ IsFiniteSet(A) /\ Cardinality(A) \in Nat /\ Cardinality(A) <= Limit - 1
         /\ IsFiniteSet(B) /\ Cardinality(B) \in Nat /\ Cardinality(B) <= Limit
         /\ IsFiniteSet(C) /\ Cardinality(C) \in Nat /\ Cardinality(C) <= Limit - 1
    BY <1>9, <1>10, <1>11, <1>13
  <1>15. S = (A \cup B) \cup C BY <1>6, <1>13
  <1>17. /\ IsFiniteSet(A \cup B) /\ Cardinality(A \cup B) \in Nat
         /\ Cardinality(A \cup B) <= Cardinality(A) + Cardinality(B)
    BY <1>14, TwoSets
  <1>18. Cardinality(S) \in Nat /\ Cardinality(S) <= Cardinality(A \cup B) + Cardinality(C)
    BY <1>14, <1>15, <1>17, TwoSets
  <1> QED BY <1>1, <1>14, <1>17, <1>18

\* Requests that are counted when they read the clock are of two windows at most.
LEMMA PromptInTwo ==
  ASSUME LimiterIInv, NEW a \in Addresses, NEW t \in Nat
  PROVE  NoThree(Readings({e \in Admitted(a) : e.at = e.read}, t))
  <1> DEFINE S == Readings({e \in Admitted(a) : e.at = e.read}, t)
  <1>1. LimiterTypeOK /\ Window \in Nat BY LimiterConstants DEF LimiterIInv
  <1> SUFFICES ASSUME NEW d \in S, NEW e \in S, NEW f \in S,
                      d.start < e.start, e.start < f.start
               PROVE  FALSE
    BY DEF NoThree
  <1>2. ASSUME NEW g \in S
        PROVE  /\ g \in log /\ g.addr = a /\ g.read >= t /\ g.read <= t + Window
               /\ g.start \in Nat /\ g.read \in Nat /\ g.start <= g.read
               /\ g.read - g.start <= Window
    <2>1. g \in log /\ g.addr = a /\ g.at = g.read /\ g.read \in t .. t + Window
      BY DEF Readings, Admitted
    <2>2. EntryIsSound(g) BY <2>1 DEF LimiterIInv
    <2>3. g.start \in Nat /\ g.read \in Nat BY <1>1, <2>1, LogFields
    <2> QED BY <1>1, <2>1, <2>2, <2>3 DEF EntryIsSound
  <1>3. e.start > d.start + Window /\ f.start > e.start + Window
    BY <1>2 DEF LimiterIInv, EntryIsSound
  <1> HIDE DEF S
  <1> QED BY <1>1, <1>2, <1>3

LEMMA Bounded == LimiterIInv => BurstsAreBounded
  <1> SUFFICES ASSUME LimiterIInv, NEW a \in Addresses, NEW t \in Time
               PROVE  /\ Cardinality(Readings({e \in Admitted(a) : e.at = e.read}, t))
                           <= 2 * Limit - 1
                      /\ MaxDelay <= Window =>
                           Cardinality(Readings(Admitted(a), t)) <= 3 * Limit - 2
    BY DEF BurstsAreBounded
  <1>1. t \in Nat BY LimiterConstants DEF Time
  <1>2. Cardinality(Readings({e \in Admitted(a) : e.at = e.read}, t)) <= 2 * Limit - 1
    <2>1. Readings({e \in Admitted(a) : e.at = e.read}, t) \in SUBSET Readings(Admitted(a), t)
      BY DEF Readings
    <2> QED BY <1>1, <2>1, PromptInTwo, TwoWindows
  <1>3. ASSUME MaxDelay <= Window
        PROVE  Cardinality(Readings(Admitted(a), t)) <= 3 * Limit - 2
    <2>1. PICK S : S = Readings(Admitted(a), t) OBVIOUS
    <2>2. CASE NoThree(S)
      <3>1. Cardinality(S) \in Nat /\ Cardinality(S) <= 2 * Limit - 1
        BY <1>1, <2>1, <2>2, TwoWindows
      <3> QED BY <2>1, <3>1, LimiterConstants
    <2>3. CASE ~NoThree(S) BY <1>1, <1>3, <2>1, <2>3, ThreeWindows
    <2> QED BY <2>2, <2>3
  <1> QED BY <1>2, <1>3
-----------------------------------------------------------------------------
\* In any stretch of a window's length an address gets through at most twice the limit
\* less one, and with requests that waited for the mutex three times it less two.
THEOREM BurstsAlwaysBounded == Spec => []BurstsAreBounded
  BY LimiterInvariant, Bounded, PTL

\* Nobody is refused before the limit was let through in a window not yet over.
THEOREM RefusalsAlwaysEarned == Spec => []RefusalsAreEarned
  BY LimiterInvariant, Earned, PTL

\* Who has been quiet for longer than a window is let through.
THEOREM WaitingAlwaysEnough == Spec => []WaitingIsEnough
  BY LimiterInvariant, Waited, PTL
=============================================================================

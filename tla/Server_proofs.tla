--------------------------- MODULE Server_proofs ----------------------------
(***************************************************************************)
(* Proofs about Server: its types, its connections, the objects avatars    *)
(* name.                                                                   *)
(***************************************************************************)
EXTENDS Server, FiniteSetTheorems, TLAPS

Kinds == {"upload", "image", "change", "view", "stream"}

\* The kinds of requests and the places they go through.
LEMMA StepsTable ==
  /\ DOMAIN Steps = Kinds
  /\ \A kind \in Kinds : Len(Steps[kind]) \in 3 .. MaxSteps
  /\ \A kind \in Kinds : Steps[kind][1] = "user"
  /\ Len(Steps["upload"]) = 4 /\ Len(Steps["image"]) = 3 /\ Len(Steps["change"]) = 5
  /\ Len(Steps["view"]) = 4 /\ Len(Steps["stream"]) = 5
  /\ Steps["upload"][2] = "put" /\ Steps["upload"][3] = "save" /\ Steps["upload"][4] = "commit"
  /\ Steps["image"][2] = "get" /\ Steps["image"][3] = "commit"
  /\ Steps["change"][2] = "owner" /\ Steps["change"][3] = "write"
  /\ Steps["change"][4] = "notify" /\ Steps["change"][5] = "commit"
  /\ Steps["view"][2] = "columns" /\ Steps["view"][3] = "cards" /\ Steps["view"][4] = "commit"
  /\ Steps["stream"][2] = "owner" /\ Steps["stream"][3] = "commit"
  /\ Steps["stream"][4] = "stream" /\ Steps["stream"][5] = "render"
  BY DEF Steps, Kinds, MaxSteps

\* The requests that are at work, by their fields.
LEMMA WorkingFields ==
  ASSUME NEW kind \in Kinds, NEW step \in 1 .. Len(Steps[kind]), NEW u \in Users,
         NEW key \in Keys \cup {NoKey}
  PROVE  [kind |-> kind, step |-> step, user |-> u, key |-> key] \in Working
  <1> DEFINE r == [kind |-> kind, step |-> step, user |-> u, key |-> key]
             n == Len(Steps[kind])
  <1>1. n \in 3 .. MaxSteps BY StepsTable
  <1>2. step \in 1 .. n OBVIOUS
  <1>3. step \in 1 .. MaxSteps /\ step <= n
    <2> HIDE DEF n
    <2> QED BY <1>1, <1>2 DEF MaxSteps
  <1>4. r \in [kind : DOMAIN Steps, step : 1 .. MaxSteps, user : Users, key : Keys \cup {NoKey}]
    BY <1>3, StepsTable
  <1>5. r.step = step /\ r.kind = kind OBVIOUS
  <1>6. step <= Len(Steps[kind]) BY <1>3
  <1> HIDE DEF r, n
  <1>7. r.step <= Len(Steps[r.kind]) BY <1>5, <1>6
  <1>8. r \in Working BY <1>4, <1>7 DEF Working
  <1> QED BY <1>8 DEF r

\* The other way round.
LEMMA FieldsOf ==
  ASSUME NEW r \in Working
  PROVE  /\ r.kind \in Kinds /\ r.step \in 1 .. Len(Steps[r.kind]) /\ r.step \in 1 .. MaxSteps
         /\ r.user \in Users /\ r.key \in Keys \cup {NoKey}
         /\ r = [kind |-> r.kind, step |-> r.step, user |-> r.user, key |-> r.key]
         /\ r # Idle
  <1>1. /\ r \in [kind : DOMAIN Steps, step : 1 .. MaxSteps, user : Users, key : Keys \cup {NoKey}]
        /\ r.step <= Len(Steps[r.kind])
    BY DEF Working
  <1>2. r.kind \in Kinds BY <1>1, StepsTable
  <1>3. r.step \in 1 .. Len(Steps[r.kind])
    <2> DEFINE n == Len(Steps[r.kind])
    <2>1. n \in 3 .. MaxSteps BY <1>2, StepsTable
    <2>2. r.step \in 1 .. MaxSteps /\ r.step <= n BY <1>1
    <2> HIDE DEF n
    <2>3. r.step \in 1 .. n BY <2>1, <2>2 DEF MaxSteps
    <2> QED BY <2>3 DEF n
  <1>4. r # Idle BY <1>2 DEF Idle, Kinds
  <1> QED BY <1>1, <1>2, <1>3, <1>4
-----------------------------------------------------------------------------
\* Where a request is.
LEMMA PlaceOf ==
  ASSUME ServerTypeOK, NEW p \in Requests
  PROVE  /\ Busy(p) <=> req[p] \in Working
         /\ Busy(p) => Place(p) = Steps[req[p].kind][req[p].step]
         /\ Place(p) = "put" <=> Busy(p) /\ req[p].kind = "upload" /\ req[p].step = 2
         /\ Place(p) = "save" <=> Busy(p) /\ req[p].kind = "upload" /\ req[p].step = 3
         /\ Place(p) = "get" <=> Busy(p) /\ req[p].kind = "image" /\ req[p].step = 2
         /\ Place(p) = "stream" <=> Busy(p) /\ req[p].kind = "stream" /\ req[p].step = 4
         /\ Place(p) = "render" <=> Busy(p) /\ req[p].kind = "stream" /\ req[p].step = 5
         /\ Place(p) = "user" <=> Busy(p) /\ req[p].step = 1
  <1>1. req[p] \in Working \cup {Idle} BY DEF ServerTypeOK
  <1>2. Busy(p) <=> req[p] \in Working BY <1>1, FieldsOf DEF Busy
  <1>3. CASE ~Busy(p)
    BY <1>2, <1>3 DEF Place
  <1>4. CASE Busy(p)
    <2> DEFINE k == req[p].kind
               n == req[p].step
               place == Steps[k][n]
    <2>1. k \in Kinds /\ n \in 1 .. Len(Steps[k]) BY <1>2, <1>4, FieldsOf
    <2>2. Place(p) = place BY <1>4 DEF Place
    <2> HIDE DEF k, n
    <2>3. /\ place = "put" <=> k = "upload" /\ n = 2
          /\ place = "save" <=> k = "upload" /\ n = 3
          /\ place = "get" <=> k = "image" /\ n = 2
          /\ place = "stream" <=> k = "stream" /\ n = 4
          /\ place = "render" <=> k = "stream" /\ n = 5
          /\ place = "user" <=> n = 1
      <3>1. CASE k = "upload"
        <4>1. n = 1 \/ n = 2 \/ n = 3 \/ n = 4
          BY <2>1, <3>1, StepsTable
        <4> QED BY <2>1, <3>1, <4>1, StepsTable
      <3>2. CASE k = "image"
        <4>1. n = 1 \/ n = 2 \/ n = 3
          BY <2>1, <3>2, StepsTable
        <4> QED BY <2>1, <3>2, <4>1, StepsTable
      <3>3. CASE k = "change"
        <4>1. n = 1 \/ n = 2 \/ n = 3 \/ n = 4 \/ n = 5
          BY <2>1, <3>3, StepsTable
        <4> QED BY <2>1, <3>3, <4>1, StepsTable
      <3>4. CASE k = "view"
        <4>1. n = 1 \/ n = 2 \/ n = 3 \/ n = 4
          BY <2>1, <3>4, StepsTable
        <4> QED BY <2>1, <3>4, <4>1, StepsTable
      <3>5. CASE k = "stream"
        <4>1. n = 1 \/ n = 2 \/ n = 3 \/ n = 4 \/ n = 5
          BY <2>1, <3>5, StepsTable
        <4> QED BY <2>1, <3>5, <4>1, StepsTable
      <3> QED BY <2>1, <3>1, <3>2, <3>3, <3>4, <3>5 DEF Kinds
    <2> HIDE DEF place
    <2>4. /\ Place(p) = "put" <=> k = "upload" /\ n = 2
          /\ Place(p) = "save" <=> k = "upload" /\ n = 3
          /\ Place(p) = "get" <=> k = "image" /\ n = 2
          /\ Place(p) = "stream" <=> k = "stream" /\ n = 4
          /\ Place(p) = "render" <=> k = "stream" /\ n = 5
          /\ Place(p) = "user" <=> n = 1
      BY <2>2, <2>3
    <2>5. Place(p) = Steps[req[p].kind][req[p].step] BY <1>4 DEF Place
    <2> QED BY <1>2, <1>4, <2>4, <2>5 DEF k, n
  <1> QED BY <1>3, <1>4

\* A request that goes on is one step further, or at its end, or waits for an event.
LEMMA AdvancedIs ==
  ASSUME ServerTypeOK, NEW p \in Requests, Busy(p)
  PROVE  /\ Advanced(p) \in Working \cup {Idle}
         /\ Advanced(p) \in Working =>
              /\ Advanced(p).kind = req[p].kind /\ Advanced(p).key = req[p].key
              /\ Advanced(p).user = req[p].user
              /\ \/ Advanced(p).step = req[p].step + 1
                 \/ req[p].kind = "stream"
         /\ req[p].step \in {1, 2} => Advanced(p) \in Working
  <1> DEFINE r == req[p]
             n == Len(Steps[r.kind])
  <1>1. r \in Working BY PlaceOf
  <1>2. /\ r.kind \in Kinds /\ r.step \in 1 .. n /\ r.user \in Users /\ r.key \in Keys \cup {NoKey}
        /\ r = [kind |-> r.kind, step |-> r.step, user |-> r.user, key |-> r.key]
    BY <1>1, FieldsOf
  <1>3. n \in 3 .. MaxSteps BY <1>2, StepsTable
  <1>4. Place(p) = "render" => r.kind = "stream" /\ r.step = 5 BY PlaceOf
  <1> DEFINE at(k) == [kind |-> r.kind, step |-> k, user |-> r.user, key |-> r.key]
  <1>5. CASE Place(p) = "render"
    <2>1. Advanced(p) = [r EXCEPT !.step = 4] BY <1>5 DEF Advanced
    <2>2. Advanced(p) = at(4) BY <1>2, <2>1
    <2>3. 4 \in 1 .. Len(Steps[r.kind]) BY <1>4, <1>5, StepsTable
    <2>4. at(4) \in Working BY <1>2, <2>3, WorkingFields
    <2>5. at(4).kind = r.kind /\ at(4).user = r.user /\ at(4).key = r.key OBVIOUS
    <2>6. r.step \notin {1, 2} BY <1>4, <1>5
    <2> HIDE DEF at
    <2> QED BY <1>4, <1>5, <2>2, <2>4, <2>5, <2>6
  <1>6. CASE Place(p) # "render" /\ r.step = n
    <2>1. Advanced(p) = Idle BY <1>6 DEF Advanced
    <2>2. Idle \notin Working BY FieldsOf
    <2>3. r.step \notin {1, 2}
      <3> HIDE DEF n
      <3> QED BY <1>3, <1>6
    <2> QED BY <2>1, <2>2, <2>3
  <1>7. CASE Place(p) # "render" /\ r.step # n
    <2>1. Advanced(p) = [r EXCEPT !.step = @ + 1] BY <1>7 DEF Advanced
    <2>2. Advanced(p) = at(r.step + 1) BY <1>2, <2>1
    <2>3. r.step + 1 \in 1 .. n
      <3>1. r.step \in 1 .. n /\ r.step # n BY <1>2, <1>7
      <3> HIDE DEF n, r
      <3> QED BY <1>3, <3>1 DEF MaxSteps
    <2>4. at(r.step + 1) \in Working BY <1>2, <2>3, WorkingFields
    <2>5. /\ at(r.step + 1).kind = r.kind /\ at(r.step + 1).step = r.step + 1
          /\ at(r.step + 1).user = r.user /\ at(r.step + 1).key = r.key
      OBVIOUS
    <2> HIDE DEF at
    <2> QED BY <2>2, <2>4, <2>5
  <1> QED BY <1>5, <1>6, <1>7

-----------------------------------------------------------------------------
\* The requests that are about to use a key: they come from these steps.
NamesObject(r) ==
  \/ r.kind = "image" /\ r.step = 2
  \/ r.kind = "upload" /\ r.step = 3

\* AvatarsAreStored, without places.
KeysStored ==
  /\ \A u \in Users : avatar[u] \in objects \cup {NoKey}
  /\ \A p \in Requests : req[p] \in Working /\ NamesObject(req[p]) => req[p].key \in objects

\* ConnectionsInUse, without places.
ConnsUsed ==
  \A p \in Requests, n \in 1 .. MaxSteps : <<p, n>> \in conn =>
    req[p] \in Working /\ n = req[p].step /\ Steps[req[p].kind][req[p].step] \in OnPool

Inv == ServerTypeOK /\ ConnsUsed /\ KeysStored

LEMMA InvIsIInv == Inv <=> IInv
  <1>1. ASSUME ServerTypeOK PROVE KeysStored <=> AvatarsAreStored
    BY <1>1, PlaceOf DEF KeysStored, AvatarsAreStored, NamesObject
  <1>2. ASSUME ServerTypeOK PROVE ConnsUsed <=> ConnectionsInUse
    BY <1>2, PlaceOf DEF ConnsUsed, ConnectionsInUse
  <1> QED BY <1>1, <1>2 DEF Inv, IInv

\* What follows when one request goes on, ends or begins, gives its connection back
\* if it had one, and leaves the avatars alone.
LEMMA OneRequestMoves ==
  ASSUME Inv,
         NEW p \in Requests, NEW r \in Working \cup {Idle},
         req' = [req EXCEPT ![p] = r],
         conn' \subseteq conn, \A n : <<p, n>> \notin conn',
         objects \subseteq objects', objects' \subseteq Keys,
         r \in Working /\ NamesObject(r) => r.key \in objects',
         UNCHANGED <<process, avatar, listener, backoff>>
  PROVE  Inv'
  <1>1. /\ conn' \subseteq Requests \X (1 .. MaxSteps)
        /\ IsFiniteSet(conn') /\ Cardinality(conn') <= MaxConns
    <2>1. conn \subseteq Requests \X (1 .. MaxSteps) /\ IsFiniteSet(conn) /\ Cardinality(conn) <= MaxConns
      BY DEF Inv, ServerTypeOK
    <2>2. IsFiniteSet(conn') /\ Cardinality(conn') <= Cardinality(conn)
      BY <2>1, FS_Subset
    <2>3. Cardinality(conn) \in Nat /\ Cardinality(conn') \in Nat
      BY <2>1, <2>2, FS_CardinalityType
    <2> QED BY <2>1, <2>2, <2>3, ServerConstants
  <1>2. req' \in [Requests -> Working \cup {Idle}]
    BY DEF Inv, ServerTypeOK
  <1>3. ServerTypeOK'
    BY <1>1, <1>2 DEF Inv, ServerTypeOK
  <1>4. \A q \in Requests : req'[q] = IF q = p THEN r ELSE req[q]
    BY DEF Inv, ServerTypeOK
  <1>5. ConnsUsed'
    BY <1>4 DEF Inv, ConnsUsed
  <1>6. KeysStored'
    <2>1. \A u \in Users : avatar'[u] \in objects' \cup {NoKey} BY DEF Inv, KeysStored
    <2>2. ASSUME NEW q \in Requests, req'[q] \in Working, NamesObject(req'[q])
          PROVE  req'[q].key \in objects'
      BY <2>2, <1>4 DEF Inv, KeysStored
    <2> QED BY <2>1, <2>2 DEF KeysStored, NamesObject
  <1> QED BY <1>3, <1>5, <1>6 DEF Inv

\* What follows when no request does anything.
LEMMA NoRequestMoves ==
  ASSUME Inv, UNCHANGED <<req, conn, avatar, objects>>,
         process' \in {"starting", "up", "draining", "closing", "exited", "crashed"},
         listener' \in {"connecting", "listening", "waiting", "stopped"},
         backoff' \in 1 .. MaxBackoff
  PROVE  Inv'
  BY DEF Inv, ServerTypeOK, ConnsUsed, KeysStored, NamesObject, Working, Idle, Steps

\* What follows when the process ends.
LEMMA NobodyLeft ==
  ASSUME Inv, req' = Nobody, conn' = {}, UNCHANGED <<avatar, objects, backoff>>,
         process' \in {"exited", "crashed"}, listener' = "stopped"
  PROVE  Inv'
  <1>1. Idle \notin Working BY FieldsOf
  <1>2. \A p \in Requests : req'[p] = Idle BY DEF Nobody
  <1>3. req' \in [Requests -> Working \cup {Idle}] BY DEF Nobody
  <1>4. IsFiniteSet({}) /\ Cardinality({}) = 0 BY FS_EmptySet
  <1>5. ServerTypeOK'
    BY <1>3, <1>4, ServerConstants DEF Inv, ServerTypeOK
  <1>6. ConnsUsed' BY DEF ConnsUsed
  <1>7. KeysStored' BY <1>1, <1>2 DEF Inv, KeysStored
  <1> QED BY <1>5, <1>6, <1>7 DEF Inv
-----------------------------------------------------------------------------
\* A request that is not connected has no connection at all, and one that is has
\* only the one it gives back.
LEMMA OneConnectionEach ==
  ASSUME Inv, NEW p \in Requests, Busy(p)
  PROVE  /\ ~Connected(p) => \A n : <<p, n>> \notin conn
         /\ \A n : <<p, n>> \notin conn \ Released(p)
         /\ Connected(p) => Place(p) \in OnPool
  <1>1. \A n : <<p, n>> \in conn => n \in 1 .. MaxSteps BY DEF Inv, ServerTypeOK
  <1>2. \A n : <<p, n>> \in conn => n = req[p].step /\ Steps[req[p].kind][n] \in OnPool
    BY <1>1 DEF Inv, ConnsUsed
  <1>3. Place(p) = Steps[req[p].kind][req[p].step] BY DEF Place
  <1> QED BY <1>2, <1>3 DEF Connected, Released

LEMMA IdleHasNone ==
  ASSUME Inv, NEW p \in Requests, ~Busy(p)
  PROVE  \A n : <<p, n>> \notin conn
  <1>1. req[p] \notin Working BY FieldsOf DEF Busy
  <1>2. \A n : <<p, n>> \in conn => n \in 1 .. MaxSteps BY DEF Inv, ServerTypeOK
  <1> QED BY <1>1, <1>2 DEF Inv, ConnsUsed

\* A request that fails uses no key.
LEMMA FailedIs ==
  ASSUME Inv, NEW p \in Requests, Busy(p)
  PROVE  /\ Failed(p) \in Working \cup {Idle}
         /\ Failed(p) \in Working => ~NamesObject(Failed(p))
  <1>1. Idle \notin Working BY FieldsOf
  <1>2. CASE Place(p) = "render"
    <2>1. req[p].kind = "stream" BY <1>2, PlaceOf DEF Inv
    <2>2. Failed(p) = Advanced(p) BY <1>2 DEF Failed
    <2> QED BY <2>1, <2>2, AdvancedIs DEF Inv, NamesObject
  <1>3. CASE Place(p) # "render"
    BY <1>1, <1>3 DEF Failed
  <1> QED BY <1>2, <1>3

LEMMA AcceptKeeps == ASSUME Inv, NEW p \in Requests, Accept(p) PROVE Inv'
  <1>1. PICK kind \in DOMAIN Steps, u \in Users :
          req' = [req EXCEPT ![p] = [kind |-> kind, step |-> 1, user |-> u, key |-> NoKey]]
    BY DEF Accept
  <1> DEFINE r == [kind |-> kind, step |-> 1, user |-> u, key |-> NoKey]
  <1>2. kind \in Kinds BY StepsTable
  <1>3. r \in Working
    <2>1. Len(Steps[kind]) \in 3 .. MaxSteps BY <1>2, StepsTable
    <2>2. 1 \in 1 .. Len(Steps[kind]) BY <2>1 DEF MaxSteps
    <2> QED BY <1>2, <2>2, WorkingFields
  <1>4. ~NamesObject(r) BY DEF NamesObject
  <1> HIDE DEF r
  <1>5. \A n : <<p, n>> \notin conn BY IdleHasNone DEF Accept
  <1>6. UNCHANGED <<process, conn, avatar, objects, listener, backoff>> BY DEF Accept
  <1>7. req' = [req EXCEPT ![p] = r] BY <1>1 DEF r
  <1>8. objects \subseteq Keys BY DEF Inv, ServerTypeOK
  <1> QED BY <1>3, <1>4, <1>5, <1>6, <1>7, <1>8, OneRequestMoves

LEMMA AcquireKeeps == ASSUME Inv, NEW p \in Requests, Acquire(p) PROVE Inv'
  <1> USE DEF Acquire
  <1>1. Place(p) \in OnPool OBVIOUS
  <1>2. Busy(p) /\ req[p] \in Working /\ Place(p) = Steps[req[p].kind][req[p].step]
    BY PlaceOf DEF Inv, Place, OnPool
  <1>3. req[p].step \in 1 .. MaxSteps BY <1>2, FieldsOf
  <1>4. conn' = conn \cup {<<p, req[p].step>>} /\ Cardinality(conn) < MaxConns OBVIOUS
  <1>5. conn \subseteq Requests \X (1 .. MaxSteps) /\ IsFiniteSet(conn) BY DEF Inv, ServerTypeOK
  <1>6. IsFiniteSet(conn') /\ Cardinality(conn') \in {Cardinality(conn), Cardinality(conn) + 1}
    BY <1>4, <1>5, FS_AddElement
  <1>7. Cardinality(conn) \in Nat BY <1>5, FS_CardinalityType
  <1>8. Cardinality(conn') <= MaxConns BY <1>4, <1>6, <1>7, ServerConstants
  <1>9. conn' \subseteq Requests \X (1 .. MaxSteps) BY <1>3, <1>4, <1>5
  <1>10. ServerTypeOK' BY <1>6, <1>8, <1>9 DEF Inv, ServerTypeOK
  <1>11. ConnsUsed' BY <1>1, <1>2, <1>4 DEF Inv, ConnsUsed
  <1>12. KeysStored' BY DEF Inv, KeysStored
  <1> QED BY <1>10, <1>11, <1>12 DEF Inv

LEMMA RefusedKeeps == ASSUME Inv, NEW p \in Requests, Refused(p) PROVE Inv'
  <1>1. Busy(p) BY DEF Refused, Place, OnPool
  <1>2. objects \subseteq Keys BY DEF Inv, ServerTypeOK
  <1> QED BY <1>1, <1>2, OneConnectionEach, FailedIs, OneRequestMoves DEF Refused

LEMMA QueryFailsKeeps == ASSUME Inv, NEW p \in Requests, QueryFails(p) PROVE Inv'
  <1>1. Busy(p)
    <2>1. <<p, req[p].step>> \in conn BY DEF QueryFails, Connected
    <2> QED BY <2>1, IdleHasNone
  <1>2. objects \subseteq Keys BY DEF Inv, ServerTypeOK
  <1>3. conn' \subseteq conn BY DEF QueryFails
  <1> QED BY <1>1, <1>2, <1>3, OneConnectionEach, FailedIs, OneRequestMoves DEF QueryFails

LEMMA QueryKeeps == ASSUME Inv, NEW p \in Requests, Query(p) PROVE Inv'
  <1>1. Busy(p)
    <2>1. <<p, req[p].step>> \in conn BY DEF Query, Connected
    <2> QED BY <2>1, IdleHasNone
  <1>2. objects \subseteq Keys BY DEF Inv, ServerTypeOK
  <1>3. /\ conn' \subseteq conn /\ \A n : <<p, n>> \notin conn'
        /\ UNCHANGED <<process, avatar, objects, listener, backoff>>
    BY <1>1, OneConnectionEach DEF Query
  <1>4. Place(p) \in OnPool /\ Place(p) # "save"
    BY <1>1, OneConnectionEach DEF Query
  <1>5. req[p] \in Working /\ req[p].user \in Users /\ Idle \notin Working
    BY <1>1, PlaceOf, FieldsOf DEF Inv
  <1>6. CASE Place(p) = "user" /\ req[p].kind = "image" /\ avatar[req[p].user] = NoKey
    <2>1. req' = [req EXCEPT ![p] = Idle] BY <1>6 DEF Query
    <2> QED BY <1>2, <1>3, <1>5, <2>1, OneRequestMoves
  <1>7. CASE Place(p) = "user" /\ req[p].kind = "image" /\ avatar[req[p].user] # NoKey
    <2> DEFINE k == avatar[req[p].user]
               r == [Advanced(p) EXCEPT !.key = k]
    <2>1. req' = [req EXCEPT ![p] = r] BY <1>7 DEF Query
    <2>2. k \in objects BY <1>5, <1>7 DEF Inv, KeysStored
    <2>3. req[p].step = 1 BY <1>7, PlaceOf DEF Inv
    <2>4. Advanced(p) \in Working BY <1>1, <2>3, AdvancedIs DEF Inv
    <2>5. r = [kind |-> Advanced(p).kind, step |-> Advanced(p).step,
               user |-> Advanced(p).user, key |-> k]
      BY <2>4, FieldsOf
    <2>6. r \in Working
      <3>1. k \in Keys BY <1>2, <2>2
      <3> QED BY <2>4, <2>5, <3>1, FieldsOf, WorkingFields
    <2>7. r.key = k BY <2>5
    <2> HIDE DEF r
    <2> QED BY <1>2, <1>3, <2>1, <2>2, <2>6, <2>7, OneRequestMoves
  <1>8. CASE ~(Place(p) = "user" /\ req[p].kind = "image")
    <2>1. req' = [req EXCEPT ![p] = Advanced(p)] BY <1>8 DEF Query
    <2>2. Advanced(p) \in Working \cup {Idle} BY <1>1, AdvancedIs DEF Inv
    <2>3. Advanced(p) \in Working => ~NamesObject(Advanced(p))
      <3> SUFFICES ASSUME Advanced(p) \in Working, NamesObject(Advanced(p)) PROVE FALSE OBVIOUS
      <3>1. req[p].step \in 1 .. MaxSteps BY <1>5, FieldsOf
      <3>2. \/ req[p].kind = "image" /\ req[p].step = 1
            \/ req[p].kind = "upload" /\ req[p].step = 2
        BY <1>1, <3>1, AdvancedIs DEF Inv, NamesObject, MaxSteps
      <3>3. (Place(p) = "user" /\ req[p].kind = "image") \/ Place(p) = "put"
        BY <1>1, <3>2, PlaceOf DEF Inv
      <3> QED BY <1>4, <1>8, <3>3 DEF OnPool
    <2> QED BY <1>2, <1>3, <2>1, <2>2, <2>3, OneRequestMoves
  <1> QED BY <1>6, <1>7, <1>8

LEMMA PutKeeps == ASSUME Inv, NEW p \in Requests, Put(p) PROVE Inv'
  <1>1. /\ Busy(p) /\ req[p].kind = "upload" /\ req[p].step = 2 /\ ~(Place(p) \in OnPool)
    BY PlaceOf DEF Put, Inv, OnPool
  <1>2. \A n : <<p, n>> \notin conn BY <1>1, OneConnectionEach
  <1>3. PICK k \in Keys \ objects :
          /\ objects' = objects \cup {k}
          /\ req' = [req EXCEPT ![p] = [Advanced(p) EXCEPT !.key = k]]
    BY DEF Put
  <1> DEFINE r == [Advanced(p) EXCEPT !.key = k]
  <1>4. Advanced(p) \in Working BY <1>1, AdvancedIs DEF Inv
  <1>5. r = [kind |-> Advanced(p).kind, step |-> Advanced(p).step,
             user |-> Advanced(p).user, key |-> k]
    BY <1>4, FieldsOf
  <1>6. r \in Working BY <1>4, <1>5, FieldsOf, WorkingFields
  <1>7. r.key = k BY <1>5
  <1>8. req' = [req EXCEPT ![p] = r] BY <1>3
  <1>9. objects' \subseteq Keys BY <1>3 DEF Inv, ServerTypeOK
  <1>10. UNCHANGED <<process, conn, avatar, listener, backoff>> BY DEF Put
  <1> HIDE DEF r
  <1> QED BY <1>2, <1>3, <1>6, <1>7, <1>8, <1>9, <1>10, OneRequestMoves

LEMMA PutFailsKeeps == ASSUME Inv, NEW p \in Requests, PutFails(p) PROVE Inv'
  <1>1. Busy(p) /\ ~(Place(p) \in OnPool) BY PlaceOf DEF PutFails, Inv, OnPool
  <1>2. \A n : <<p, n>> \notin conn BY <1>1, OneConnectionEach
  <1>3. objects \subseteq objects' /\ objects' \subseteq Keys
    BY DEF PutFails, Inv, ServerTypeOK
  <1>4. Idle \notin Working BY FieldsOf
  <1> QED BY <1>2, <1>3, <1>4, OneRequestMoves DEF PutFails

LEMMA GetKeeps == ASSUME Inv, NEW p \in Requests, Get(p) PROVE Inv'
  <1>1. Busy(p) /\ req[p].kind = "image" /\ req[p].step = 2 /\ ~(Place(p) \in OnPool)
    BY PlaceOf DEF Get, Inv, OnPool
  <1>2. \A n : <<p, n>> \notin conn BY <1>1, OneConnectionEach
  <1>3. objects \subseteq Keys BY DEF Inv, ServerTypeOK
  <1>4. Advanced(p) \in Working \cup {Idle} BY <1>1, AdvancedIs DEF Inv
  <1>5. Advanced(p) \in Working => ~NamesObject(Advanced(p))
    BY <1>1, AdvancedIs DEF Inv, NamesObject
  <1> QED BY <1>2, <1>3, <1>4, <1>5, OneRequestMoves DEF Get

LEMMA LeaveKeeps == ASSUME Inv, NEW p \in Requests, Leave(p) PROVE Inv'
  <1>1. Busy(p) BY DEF Leave, Place, OnPool
  <1>2. \A n : <<p, n>> \notin conn BY <1>1, OneConnectionEach DEF Leave
  <1>3. objects \subseteq Keys /\ Idle \notin Working BY FieldsOf DEF Inv, ServerTypeOK
  <1> QED BY <1>2, <1>3, OneRequestMoves DEF Leave

LEMMA TakeEventKeeps == ASSUME Inv, NEW p \in Requests, TakeEvent(p) PROVE Inv'
  <1>1. Busy(p) /\ req[p].kind = "stream" /\ ~(Place(p) \in OnPool)
    BY PlaceOf DEF TakeEvent, Inv, OnPool
  <1>2. \A n : <<p, n>> \notin conn BY <1>1, OneConnectionEach
  <1>3. objects \subseteq Keys /\ req[p] \in Working BY <1>1, PlaceOf DEF Inv, ServerTypeOK
  <1> DEFINE r == [req[p] EXCEPT !.step = 5]
  <1>4. r = [kind |-> "stream", step |-> 5, user |-> req[p].user, key |-> req[p].key]
    BY <1>1, <1>3, FieldsOf
  <1>5. r \in Working
    <2>1. "stream" \in Kinds /\ 5 \in 1 .. Len(Steps["stream"]) BY StepsTable DEF Kinds
    <2>2. req[p].user \in Users /\ req[p].key \in Keys \cup {NoKey} BY <1>3, FieldsOf
    <2> QED BY <1>4, <2>1, <2>2, WorkingFields
  <1>6. ~NamesObject(r) BY <1>4 DEF NamesObject
  <1>7. req' = [req EXCEPT ![p] = r] BY DEF TakeEvent
  <1>8. UNCHANGED <<process, conn, avatar, objects, listener, backoff>> BY DEF TakeEvent
  <1> HIDE DEF r
  <1> QED BY <1>2, <1>3, <1>5, <1>6, <1>7, <1>8, OneRequestMoves

\* The one step that changes an avatar, after the object has been stored.
LEMMA SaveKeeps == ASSUME Inv, NEW p \in Requests, Save(p) PROVE Inv'
  <1>1. /\ Busy(p) /\ req[p].kind = "upload" /\ req[p].step = 3 /\ req[p] \in Working
    BY PlaceOf DEF Save, Inv
  <1>2. req[p].key \in objects BY <1>1 DEF Inv, KeysStored, NamesObject
  <1>3. objects \subseteq Keys BY DEF Inv, ServerTypeOK
  <1>4. conn' \subseteq conn /\ \A n : <<p, n>> \notin conn'
    BY <1>1, OneConnectionEach DEF Save
  <1>5. /\ conn' \subseteq Requests \X (1 .. MaxSteps)
        /\ IsFiniteSet(conn') /\ Cardinality(conn') <= MaxConns
    <2>1. conn \subseteq Requests \X (1 .. MaxSteps) /\ IsFiniteSet(conn) /\ Cardinality(conn) <= MaxConns
      BY DEF Inv, ServerTypeOK
    <2>2. IsFiniteSet(conn') /\ Cardinality(conn') <= Cardinality(conn)
      BY <1>4, <2>1, FS_Subset
    <2>3. Cardinality(conn) \in Nat /\ Cardinality(conn') \in Nat
      BY <2>1, <2>2, FS_CardinalityType
    <2> QED BY <1>4, <2>1, <2>2, <2>3, ServerConstants
  <1> DEFINE r == Advanced(p)
  <1>10. r \in Working \cup {Idle} BY <1>1, AdvancedIs DEF Inv
  <1>11. r \in Working => ~NamesObject(r) BY <1>1, AdvancedIs DEF Inv, NamesObject
  <1>12. /\ req' = [req EXCEPT ![p] = r]
         /\ avatar' = [avatar EXCEPT ![req[p].user] = req[p].key]
         /\ UNCHANGED <<process, objects, listener, backoff>>
    BY DEF Save
  <1> HIDE DEF r
  <1>6. ServerTypeOK' BY <1>2, <1>3, <1>5, <1>10, <1>12 DEF Inv, ServerTypeOK
  <1>7. \A q \in Requests : req'[q] = IF q = p THEN r ELSE req[q]
    BY <1>12 DEF Inv, ServerTypeOK
  <1>8. ConnsUsed' BY <1>4, <1>7 DEF Inv, ConnsUsed
  <1>9. KeysStored'
    <2>1. avatar \in [Users -> Keys \cup {NoKey}] BY DEF Inv, ServerTypeOK
    <2>2. \A u \in Users : avatar'[u] \in objects' \cup {NoKey}
      BY <1>2, <1>12, <2>1 DEF Inv, KeysStored
    <2>3. ASSUME NEW q \in Requests, req'[q] \in Working, NamesObject(req'[q])
          PROVE  req'[q].key \in objects'
      BY <1>7, <1>11, <1>12, <2>3 DEF Inv, KeysStored
    <2> QED BY <2>2, <2>3 DEF KeysStored, NamesObject
  <1> QED BY <1>6, <1>8, <1>9 DEF Inv
-----------------------------------------------------------------------------
LEMMA InitInv == Init => Inv
  <1> SUFFICES ASSUME Init PROVE Inv OBVIOUS
  <1>1. Idle \notin Working BY FieldsOf
  <1>2. IsFiniteSet({}) /\ Cardinality({}) = 0 BY FS_EmptySet
  <1>3. ServerTypeOK BY <1>2, ServerConstants DEF Init, ServerTypeOK, Nobody
  <1>4. ConnsUsed BY DEF Init, ConnsUsed
  <1>5. KeysStored BY <1>1 DEF Init, KeysStored, Nobody
  <1> QED BY <1>3, <1>4, <1>5 DEF Inv

\* The listener's and main's steps.
LEMMA ProcessKeeps ==
  ASSUME Inv,
         \/ Connect \/ Disconnect \/ Wait \/ ListenerStops
         \/ Serve \/ StartFails \/ Stop \/ ShutdownReturns \/ Exit \/ Crash \/ Restart
  PROVE  Inv'
  <1>1. /\ process \in {"starting", "up", "draining", "closing", "exited", "crashed"}
        /\ listener \in {"connecting", "listening", "waiting", "stopped"}
        /\ backoff \in 1 .. MaxBackoff
    BY DEF Inv, ServerTypeOK
  <1>2. CASE Connect BY <1>1, <1>2, NoRequestMoves DEF Connect
  <1>3. CASE Disconnect BY <1>1, <1>3, NoRequestMoves DEF Disconnect
  <1>4. CASE Wait
    <2>1. Doubled \in 1 .. MaxBackoff BY <1>1, ServerConstants DEF Doubled
    <2> QED BY <1>1, <1>4, <2>1, NoRequestMoves DEF Wait
  <1>5. CASE ListenerStops BY <1>1, <1>5, NoRequestMoves DEF ListenerStops
  <1>6. CASE Serve
    <2>1. 1 \in 1 .. MaxBackoff BY ServerConstants
    <2> QED BY <1>1, <1>6, <2>1, NoRequestMoves DEF Serve
  <1>7. CASE StartFails BY <1>1, <1>7, NoRequestMoves DEF StartFails
  <1>8. CASE Stop BY <1>1, <1>8, NoRequestMoves DEF Stop
  <1>9. CASE ShutdownReturns BY <1>1, <1>9, NoRequestMoves DEF ShutdownReturns
  <1>10. CASE Exit BY <1>10, NobodyLeft DEF Exit
  <1>11. CASE Crash BY <1>11, NobodyLeft DEF Crash
  <1>12. CASE Restart BY <1>1, <1>12, NoRequestMoves DEF Restart
  <1> QED BY <1>2, <1>3, <1>4, <1>5, <1>6, <1>7, <1>8, <1>9, <1>10, <1>11, <1>12

LEMMA NextKeeps == Inv /\ [Next]_serverVars => Inv'
  <1> SUFFICES ASSUME Inv, [Next]_serverVars PROVE Inv' OBVIOUS
  <1>1. CASE UNCHANGED serverVars
    BY <1>1, NoRequestMoves DEF serverVars, Inv, ServerTypeOK
  <1>2. ASSUME NEW p \in Requests, Accept(p) \/ Work(p) \/ TakeEvent(p) \/ Leave(p) PROVE Inv'
    BY <1>2, AcceptKeeps, AcquireKeeps, RefusedKeeps, QueryKeeps, QueryFailsKeeps, PutKeeps,
       PutFailsKeeps, SaveKeeps, GetKeeps, TakeEventKeeps, LeaveKeeps DEF Work
  <1> QED BY <1>1, <1>2, ProcessKeeps DEF Next

\* IInv, of which the other invariants are parts, holds for any number of users,
\* requests and connections.
THEOREM ServerInvariant == Spec => []IInv
  <1>1. Inv => IInv BY InvIsIInv
  <1> QED BY <1>1, InitInv, NextKeeps, PTL DEF Spec

\* No connection is ever lost to the pool, whichever way a request ends: a connection
\* in use is that of a request at a step that needs it.
THEOREM ConnectionsComeBack == Spec => []ConnectionsInUse
  <1>1. IInv => ConnectionsInUse BY DEF IInv
  <1> QED BY <1>1, ServerInvariant, PTL

\* Whatever fails between the object and the row, an avatar names a stored object,
\* and so does a key that was read before the avatar was replaced.
THEOREM AvatarsAlwaysStored == Spec => []AvatarsAreStored
  <1>1. IInv => AvatarsAreStored BY DEF IInv
  <1> QED BY <1>1, ServerInvariant, PTL
=============================================================================

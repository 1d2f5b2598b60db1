------------------------------- MODULE Server -------------------------------
(***************************************************************************)
(* The process: start-up, requests on a pool of connections that never     *)
(* grows past MaxConns, the listener's reconnections, and the shutdown of  *)
(* main: rootCtx is done, srv.Shutdown waits for requests or its timeout,  *)
(* pool.Close waits for connections, the process exits.  It may also crash *)
(* at any point; rows and objects stay.                                    *)
(*                                                                         *)
(* A request is a sequence of places.  In those of OnPool it asks the pool *)
(* for a connection, runs a statement or a transaction, and gives it back  *)
(* before it goes on.                                                      *)
(***************************************************************************)
EXTENDS Integers, FiniteSets, Sequences

CONSTANTS
  Users, Requests,
  Keys,         \* keys of objects (uuids); bound: objects ever stored
  NoKey,        \* the avatar_key of a user without one, and of other requests
  MaxConns,     \* connections of the pool (20 in the code)
  MaxBackoff    \* longest wait of the listener (30 s in the code)

ASSUME ServerConstants ==
  /\ NoKey \notin Keys
  /\ MaxConns \in Nat \ {0}
  /\ MaxBackoff \in Nat \ {0}

VARIABLES
  process,   \* starting, up, draining, closing, exited or crashed
  req,       \* the place, user and key of each request
  conn,      \* connections in use: <<request, step it was taken for>>
  avatar,    \* users.avatar_key
  objects,   \* keys in the bucket
  listener,  \* connecting, listening, waiting or stopped
  backoff    \* how long it waits next

serverVars == <<process, req, conn, avatar, objects, listener, backoff>>

\* What each kind of request does, in order.  "user" stands for the session's Find and
\* GetByID and "owner" for the lookups of the board and its owner, each with a
\* connection of its own; scs commits the session before the answer goes out.  That a
\* request which has failed commits its session too is left out.
Steps ==
  [upload |-> <<"user", "put", "save", "commit">>,               \* handleAvatarUpload
   image  |-> <<"user", "get", "commit">>,                       \* handleAvatarImage
   change |-> <<"user", "owner", "write", "notify", "commit">>,  \* e.g. handleCardMove
   view   |-> <<"user", "columns", "cards", "commit">>,          \* handleBoardView
   stream |-> <<"user", "owner", "commit", "stream", "render">>] \* handleBoardEvents

OnPool ==
  {"user", "owner", "save", "write", "notify", "columns", "cards", "render", "commit"}

MaxSteps == 5

Idle == [kind |-> "none", step |-> 0, user |-> "none", key |-> NoKey]
Busy(p) == req[p] # Idle
Place(p) == IF Busy(p) THEN Steps[req[p].kind][req[p].step] ELSE "idle"

Working ==
  {r \in [kind : DOMAIN Steps, step : 1 .. MaxSteps, user : Users, key : Keys \cup {NoKey}] :
     r.step <= Len(Steps[r.kind])}

Connected(p) == <<p, req[p].step>> \in conn

ServerTypeOK ==
  /\ process \in {"starting", "up", "draining", "closing", "exited", "crashed"}
  /\ req \in [Requests -> Working \cup {Idle}]
  /\ conn \subseteq Requests \X (1 .. MaxSteps)
  /\ IsFiniteSet(conn) /\ Cardinality(conn) <= MaxConns
  /\ avatar \in [Users -> Keys \cup {NoKey}]
  /\ objects \in SUBSET Keys
  /\ listener \in {"connecting", "listening", "waiting", "stopped"}
  /\ backoff \in 1 .. MaxBackoff

Nobody == [p \in Requests |-> Idle]

Init ==
  /\ process = "starting"
  /\ req = Nobody /\ conn = {}
  /\ avatar = [u \in Users |-> NoKey] /\ objects = {}
  /\ listener = "stopped" /\ backoff = 1

Running == process \in {"up", "draining", "closing"}
-----------------------------------------------------------------------------
(***************************************************************************)
(* Requests.                                                               *)
(***************************************************************************)
Uploads == {p \in Requests : Busy(p) /\ req[p].kind = "upload"}

\* The server accepts a request; no more uploads than there are keys left.
Accept(p) ==
  /\ process = "up" /\ ~Busy(p)
  /\ \E kind \in DOMAIN Steps, u \in Users :
       /\ kind = "upload" => Cardinality(objects) + Cardinality(Uploads) < Cardinality(Keys)
       /\ req' = [req EXCEPT ![p] = [kind |-> kind, step |-> 1, user |-> u, key |-> NoKey]]
  /\ UNCHANGED <<process, conn, avatar, objects, listener, backoff>>

\* A stream waits for its next event; another request goes on, or has ended.
Advanced(p) ==
  IF Place(p) = "render"
    THEN [req[p] EXCEPT !.step = 4]
    ELSE IF req[p].step = Len(Steps[req[p].kind])
           THEN Idle
           ELSE [req[p] EXCEPT !.step = @ + 1]

\* A failed read of a stream costs it a frame; any other failure ends the request.
Failed(p) == IF Place(p) = "render" THEN Advanced(p) ELSE Idle

\* The pool hands out a connection; once it is closing, it refuses to.
Acquire(p) ==
  /\ Place(p) \in OnPool /\ ~Connected(p)
  /\ process \in {"up", "draining"}
  /\ Cardinality(conn) < MaxConns
  /\ conn' = conn \cup {<<p, req[p].step>>}
  /\ UNCHANGED <<process, req, avatar, objects, listener, backoff>>

Refused(p) ==
  /\ Place(p) \in OnPool /\ ~Connected(p)
  /\ process = "closing"
  /\ req' = [req EXCEPT ![p] = Failed(p)]
  /\ UNCHANGED <<process, conn, avatar, objects, listener, backoff>>

\* Variant: the columns' rows stay open until GetBoard returns.
ReleasedLate(p) == IF Place(p) = "columns" THEN {} ELSE {p} \X (1 .. MaxSteps)

\* A row scanned, a loop over all rows and a closed transaction give the connection back.
Released(p) == {<<p, req[p].step>>}

\* Statements that leave users alone; GetByID also reads the avatar_key.
Query(p) ==
  /\ Connected(p)
  /\ Place(p) # "save"
  /\ req' = [req EXCEPT ![p] =
       IF Place(p) = "user" /\ req[p].kind = "image"
         THEN IF avatar[req[p].user] = NoKey THEN Idle
              ELSE [Advanced(p) EXCEPT !.key = avatar[req[p].user]]
         ELSE Advanced(p)]
  /\ conn' = conn \ Released(p)
  /\ UNCHANGED <<process, avatar, objects, listener, backoff>>

\* Variant: a statement that fails keeps its connection.
QueryFailsKeepingIt(p) ==
  /\ Connected(p)
  /\ req' = [req EXCEPT ![p] = Failed(p)]
  /\ UNCHANGED <<process, conn, avatar, objects, listener, backoff>>

\* The statement fails, or the client goes away while it runs.
QueryFails(p) ==
  /\ Connected(p)
  /\ req' = [req EXCEPT ![p] = Failed(p)]
  /\ conn' = conn \ Released(p)
  /\ UNCHANGED <<process, avatar, objects, listener, backoff>>

\* Variant: the object is taken for stored although the store failed.
PutUnchecked(p) ==
  /\ Place(p) = "put"
  /\ \E k \in Keys \ objects :
       /\ objects' \in {objects, objects \cup {k}}
       /\ req' = [req EXCEPT ![p] = [Advanced(p) EXCEPT !.key = k]]
  /\ UNCHANGED <<process, conn, avatar, listener, backoff>>

\* Uploader.Upload: the picture is stored under a new key.
Put(p) ==
  /\ Place(p) = "put"
  /\ \E k \in Keys \ objects :
       /\ objects' = objects \cup {k}
       /\ req' = [req EXCEPT ![p] = [Advanced(p) EXCEPT !.key = k]]
  /\ UNCHANGED <<process, conn, avatar, listener, backoff>>

\* No picture, too large, or the store fails, which may have stored it all the same.
PutFails(p) ==
  /\ Place(p) = "put"
  /\ objects' \in {objects} \cup {objects \cup {k} : k \in Keys \ objects}
  /\ req' = [req EXCEPT ![p] = Idle]
  /\ UNCHANGED <<process, conn, avatar, listener, backoff>>

\* SetAvatarKey.
Save(p) ==
  /\ Connected(p) /\ Place(p) = "save"
  /\ avatar' = [avatar EXCEPT ![req[p].user] = req[p].key]
  /\ req' = [req EXCEPT ![p] = Advanced(p)]
  /\ conn' = conn \ Released(p)
  /\ UNCHANGED <<process, objects, listener, backoff>>

\* The object is copied to the browser, or not found.
Get(p) ==
  /\ Place(p) = "get"
  /\ req' = [req EXCEPT ![p] = Advanced(p)]
  /\ UNCHANGED <<process, conn, avatar, objects, listener, backoff>>

\* An event for an open stream.
TakeEvent(p) ==
  /\ Place(p) = "stream"
  /\ req' = [req EXCEPT ![p] = [@ EXCEPT !.step = 5]]
  /\ UNCHANGED <<process, conn, avatar, objects, listener, backoff>>

\* The client goes away while the request waits for an event or a connection.
Leave(p) ==
  /\ Place(p) \in OnPool \cup {"stream"} /\ ~Connected(p)
  /\ req' = [req EXCEPT ![p] = Idle]
  /\ UNCHANGED <<process, conn, avatar, objects, listener, backoff>>
-----------------------------------------------------------------------------
(***************************************************************************)
(* Listener.Run.                                                           *)
(***************************************************************************)
Connect ==
  /\ listener = "connecting" /\ process = "up"
  /\ listener' = "listening"
  /\ UNCHANGED <<process, req, conn, avatar, objects, backoff>>

\* Connecting or LISTEN fails, or the connection breaks: runOnce returns an error.
Disconnect ==
  /\ listener \in {"connecting", "listening"} /\ process = "up"
  /\ listener' = "waiting"
  /\ UNCHANGED <<process, req, conn, avatar, objects, backoff>>

Doubled == IF 2 * backoff > MaxBackoff THEN MaxBackoff ELSE 2 * backoff

\* Variant: there is no next try.
WaitForEver ==
  /\ listener = "waiting" /\ process = "up" /\ backoff < MaxBackoff
  /\ listener' = "connecting"
  /\ backoff' = Doubled
  /\ UNCHANGED <<process, req, conn, avatar, objects>>

\* The wait is over.
Wait ==
  /\ listener = "waiting" /\ process = "up"
  /\ listener' = "connecting"
  /\ backoff' = Doubled
  /\ UNCHANGED <<process, req, conn, avatar, objects>>

\* rootCtx is done: Run returns from wherever it is.
ListenerStops ==
  /\ process \in {"draining", "closing"} /\ listener # "stopped"
  /\ listener' = "stopped"
  /\ UNCHANGED <<process, req, conn, avatar, objects, backoff>>
-----------------------------------------------------------------------------
(***************************************************************************)
(* main.                                                                   *)
(***************************************************************************)
\* Pool, migrations and store are there, the listener and the server are started.
Serve ==
  /\ process = "starting"
  /\ process' = "up"
  /\ listener' = "connecting" /\ backoff' = 1
  /\ UNCHANGED <<req, conn, avatar, objects>>

\* One of them fails, or the signal comes before: os.Exit(1).
StartFails ==
  /\ process = "starting"
  /\ process' = "crashed"
  /\ UNCHANGED <<req, conn, avatar, objects, listener, backoff>>

\* SIGINT, SIGTERM or a failed ListenAndServe.
Stop ==
  /\ process = "up"
  /\ process' = "draining"
  /\ UNCHANGED <<req, conn, avatar, objects, listener, backoff>>

\* Variant: Shutdown without a timeout.
ShutdownWaits ==
  /\ process = "draining"
  /\ \A p \in Requests : ~Busy(p)
  /\ process' = "closing"
  /\ UNCHANGED <<req, conn, avatar, objects, listener, backoff>>

\* srv.Shutdown returns: no request is left, or its ten seconds are over.
ShutdownReturns ==
  /\ process = "draining"
  /\ process' = "closing"
  /\ UNCHANGED <<req, conn, avatar, objects, listener, backoff>>

\* The deferred pool.Close has got every connection back; main returns, and
\* whatever request is still running ends with it.
Exit ==
  /\ process = "closing" /\ conn = {}
  /\ process' = "exited"
  /\ req' = Nobody
  /\ listener' = "stopped"
  /\ UNCHANGED <<conn, avatar, objects, backoff>>

\* The process is killed; Postgres rolls back what its connections had open.
Crash ==
  /\ Running
  /\ process' = "crashed"
  /\ req' = Nobody /\ conn' = {}
  /\ listener' = "stopped"
  /\ UNCHANGED <<avatar, objects, backoff>>

Restart ==
  /\ process \in {"exited", "crashed"}
  /\ process' = "starting"
  /\ UNCHANGED <<req, conn, avatar, objects, listener, backoff>>
-----------------------------------------------------------------------------
Work(p) ==
  \/ Acquire(p) \/ Refused(p) \/ Query(p) \/ QueryFails(p)
  \/ Put(p) \/ PutFails(p) \/ Save(p) \/ Get(p)

Next ==
  \/ \E p \in Requests : Accept(p) \/ Work(p) \/ TakeEvent(p) \/ Leave(p)
  \/ Connect \/ Disconnect \/ Wait \/ ListenerStops
  \/ Serve \/ StartFails \/ Stop \/ ShutdownReturns \/ Exit \/ Crash \/ Restart

\* A request goes on, and is given a connection in its turn; timers fire, main
\* goes on; Postgres accepts a connection now and then.  No client has to
\* leave, and nothing has to stop or fail.
Fairness ==
  /\ \A p \in Requests : SF_serverVars(Work(p))
  /\ SF_serverVars(Connect) /\ WF_serverVars(Wait) /\ WF_serverVars(ListenerStops)
  /\ WF_serverVars(ShutdownReturns) /\ WF_serverVars(Exit)

Spec == Init /\ [][Next]_serverVars /\ Fairness
-----------------------------------------------------------------------------
\* A connection in use is that of a request at a step on the pool: none is lost by
\* a request that failed, was given up, or went on without giving it back.
ConnectionsInUse ==
  \A p \in Requests, n \in 1 .. MaxSteps : <<p, n>> \in conn =>
    Busy(p) /\ n = req[p].step /\ Place(p) \in OnPool

\* The avatar_key of a user names an object that is in the bucket, and so does a
\* key that was read and may have been replaced since: through failures, crashes
\* between the two writes, and uploads that overlap.
AvatarsAreStored ==
  /\ \A u \in Users : avatar[u] \in objects \cup {NoKey}
  /\ \A p \in Requests : Place(p) \in {"get", "save"} => req[p].key \in objects

\* The inductive invariant of Server_proofs.
IInv == ServerTypeOK /\ ConnectionsInUse /\ AvatarsAreStored

\* Every request but an open stream ends: the pool may be empty, but nobody who
\* holds a connection waits for another one.
RequestsEnd ==
  \A p \in Requests : Busy(p) ~> (~Busy(p) \/ Place(p) = "stream")

\* A process that is told to stop exits, open streams and busy connections
\* notwithstanding, unless it is killed first.
StopsWhenTold == process = "draining" ~> process \in {"exited", "crashed"}

\* As long as the process is up, the listener comes back from every outage.
ListensAgain == <>[](process = "up") => []<>(listener = "listening")

\* An outage of a connection that was up is waited out from a second on, however
\* many there were before: what Run's reset of backoff after a nil error is for.
OutagesStartOver ==
  [][listener = "listening" /\ listener' = "waiting" => backoff = 1]_serverVars
=============================================================================

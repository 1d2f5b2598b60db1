------------------------------ MODULE Sessions ------------------------------
(***************************************************************************)
(* Sessions: rows of the sessions table, the requests that load, change    *)
(* and store them, and the cookie of each browser.                         *)
(*                                                                         *)
(* scs.LoadAndSave runs around every request.  It reads the session's row  *)
(* before the handler and writes the whole of it back before the answer,   *)
(* without a transaction: the last of several requests wins.  Because an   *)
(* idle timeout is set, a request writes back a session it did not change. *)
(* A handler signs in and out between the read and the write.              *)
(***************************************************************************)
EXTENDS Naturals, FiniteSets

CONSTANTS
  Browsers,
  Requests,     \* requests that can be under way at the same time
  Tokens,       \* session tokens
  Csrf,         \* form tokens
  Users,
  NoBrowser, NoToken, NoCsrf, NoUser,
  Keep,         \* an answer without a session cookie
  Unknown

ASSUME SessionConstants ==
  /\ NoBrowser \notin Browsers
  /\ NoToken \notin Tokens
  /\ NoCsrf \notin Csrf
  /\ {NoUser, Unknown} \cap Users = {}
  /\ NoUser # Unknown
  /\ Keep \notin Tokens \cup {NoToken}

VARIABLES
  rows,      \* the rows that Find finds, by token
  accounts,  \* users in the users table
  req,
  jar,       \* the session cookie of each browser
  last       \* history: whom the last answered sign-in or sign-out made of it

vars == <<rows, accounts, req, jar, last>>

NoRow == [user |-> NoUser, csrf |-> NoCsrf]
Row == [user : Users \cup {NoUser}, csrf : Csrf \cup {NoCsrf}]

Kinds == {"form", "page", "login", "register", "logout"}
Turning == {"login", "register", "logout"}

\* A request: its place in the code, the browser waiting for it, its form, the
\* session it works on (token, row, status), and its answer: the cookie it sets,
\* the form token of its page, and whether it signed in or out.
Request ==
  [at : {"idle", "sent", "running", "vouched", "closing", "done"}, kind : Kinds,
   by : Browsers \cup {NoBrowser}, form : Csrf \cup {NoCsrf}, who : Users \cup {NoUser},
   token : Tokens \cup {NoToken}, row : Row, status : {"clean", "modified", "destroyed"},
   set : Tokens \cup {NoToken, Keep}, shown : Csrf \cup {NoCsrf}, turned : BOOLEAN]

NoRequest ==
  [at |-> "idle", kind |-> "page", by |-> NoBrowser, form |-> NoCsrf, who |-> NoUser,
   token |-> NoToken, row |-> NoRow, status |-> "clean",
   set |-> Keep, shown |-> NoCsrf, turned |-> FALSE]

TypeOK ==
  /\ rows \in [Tokens -> Row]
  /\ accounts \in SUBSET Users
  /\ req \in [Requests -> Request]
  /\ jar \in [Browsers -> Tokens \cup {NoToken}]
  /\ last \in [Browsers -> Users \cup {NoUser, Unknown}]

Init ==
  /\ rows = [t \in Tokens |-> NoRow]
  /\ accounts \in SUBSET Users
  /\ req = [r \in Requests |-> NoRequest]
  /\ jar = [b \in Browsers |-> NoToken]
  /\ last = [b \in Browsers |-> NoUser]

InFlight(b) == {r \in Requests : req[r].by = b}

\* Random tokens are never made twice: a token of the model stands for a new one
\* once nothing refers to the old one.
FreshToken(t) ==
  /\ rows[t] = NoRow
  /\ \A b \in Browsers : jar[b] # t
  /\ \A r \in Requests : req[r].token # t /\ req[r].set # t

FreshCsrf(f) ==
  /\ \A t \in Tokens : rows[t].csrf # f
  /\ \A r \in Requests : f \notin {req[r].form, req[r].row.csrf, req[r].shown}
-----------------------------------------------------------------------------
\* A browser asks.  A form may come from a tab opened at any time before.  Whom a
\* sign-in amid other requests makes of the browser depends on their order.
Send(r, b, kind, form, who) ==
  /\ req[r].at = "idle"
  /\ kind \notin Turning => form = NoCsrf
  /\ who = NoUser <=> kind \notin {"login", "register"}
  /\ req' = [req EXCEPT ![r] = [NoRequest EXCEPT
       !.at = "sent", !.kind = kind, !.by = b, !.form = form, !.who = who, !.token = jar[b]]]
  /\ last' = IF \E q \in InFlight(b) : {kind, req[q].kind} \cap Turning # {}
       THEN [last EXCEPT ![b] = Unknown] ELSE last
  /\ UNCHANGED <<rows, accounts, jar>>

\* PostgresStore.Find: a session that is missing or expired is a new one.
Load(r) ==
  LET t == req[r].token
      found == t # NoToken /\ rows[t] # NoRow
  IN  /\ req[r].at = "sent"
      /\ req' = [req EXCEPT
           ![r].at = "running",
           ![r].token = IF found THEN t ELSE NoToken,
           ![r].row = IF found THEN rows[t] ELSE NoRow,
           ![r].status = IF found THEN "modified" ELSE "clean"]
      /\ UNCHANGED <<rows, accounts, jar, last>>

\* Variant: every form gets a token of its own.
ShowFormAnew(r) ==
  /\ req[r].at = "running" /\ req[r].kind = "form"
  /\ \E f \in Csrf :
       /\ FreshCsrf(f)
       /\ req' = [req EXCEPT ![r].at = "closing", ![r].shown = f, ![r].row.csrf = f,
                             ![r].status = "modified"]
  /\ UNCHANGED <<rows, accounts, jar, last>>

\* The sign-in and registration forms: GetOrCreateCSRF.
ShowForm(r) ==
  /\ req[r].at = "running" /\ req[r].kind = "form"
  /\ \E f \in Csrf :
       /\ IF req[r].row.csrf = NoCsrf THEN FreshCsrf(f) ELSE f = req[r].row.csrf
       /\ req' = [req EXCEPT ![r].at = "closing", ![r].shown = f, ![r].row.csrf = f,
                             ![r].status = "modified"]
  /\ UNCHANGED <<rows, accounts, jar, last>>

\* Any other page: with a user it carries the session's form token, without one it
\* is the home page or a redirection.
ShowPage(r) ==
  /\ req[r].at = "running" /\ req[r].kind = "page"
  /\ req' = [req EXCEPT ![r].at = "closing",
       ![r].shown = IF req[r].row.user = NoUser THEN NoCsrf ELSE req[r].row.csrf]
  /\ UNCHANGED <<rows, accounts, jar, last>>

FormAccepted(r) == req[r].row.csrf # NoCsrf /\ req[r].form = req[r].row.csrf

\* The session stays as it is: the form token is not the session's, there have been
\* too many attempts, the password is wrong or too weak, the e-mail is taken, or the
\* row of the session cannot be deleted.  Where the form was accepted it can be shown
\* again; the fields of the form are not needed any more.
Refuse(r) ==
  /\ req[r].kind \in Turning
  /\ req[r].at \in {"running", "vouched"}
  /\ \E f \in {NoCsrf} \cup (IF req[r].kind # "logout" /\ FormAccepted(r)
                             THEN {req[r].row.csrf} ELSE {}) :
       req' = [req EXCEPT ![r].at = "closing", ![r].form = NoCsrf, ![r].who = NoUser,
                             ![r].shown = f]
  /\ UNCHANGED <<rows, accounts, jar, last>>

\* Variant: the password of a missing account is not looked at.
AuthenticateAnyone(r) ==
  /\ req[r].at = "running" /\ req[r].kind = "login" /\ FormAccepted(r)
  /\ req' = [req EXCEPT ![r].at = "vouched", ![r].form = NoCsrf]
  /\ UNCHANGED <<rows, accounts, jar, last>>

Authenticate(r) ==
  /\ req[r].at = "running" /\ req[r].kind = "login" /\ FormAccepted(r)
  /\ req[r].who \in accounts
  /\ req' = [req EXCEPT ![r].at = "vouched", ![r].form = NoCsrf]
  /\ UNCHANGED <<rows, accounts, jar, last>>

\* INSERT INTO users; the unique index lets one of several registrations through.
Register(r) ==
  /\ req[r].at = "running" /\ req[r].kind = "register" /\ FormAccepted(r)
  /\ req[r].who \notin accounts
  /\ accounts' = accounts \cup {req[r].who}
  /\ req' = [req EXCEPT ![r].at = "vouched", ![r].form = NoCsrf]
  /\ UNCHANGED <<rows, jar, last>>

\* Variant: the user is put into the session at hand.
SignInWithoutRenewal(r) ==
  /\ req[r].at = "vouched"
  /\ \E f \in Csrf :
       /\ FreshCsrf(f)
       /\ req' = [req EXCEPT ![r].at = "closing", ![r].turned = TRUE,
                             ![r].row = [user |-> req[r].who, csrf |-> f]]
  /\ UNCHANGED <<rows, accounts, jar, last>>

\* RenewToken deletes the row and makes a new token; SetUserID and SetCSRF fill the
\* new session.  It is stored by Commit.
SignIn(r) ==
  /\ req[r].at = "vouched"
  /\ \E t \in Tokens, f \in Csrf :
       LET new == [user |-> req[r].who, csrf |-> f]
       IN  /\ FreshToken(t) /\ FreshCsrf(f)
           /\ rows' = [rows EXCEPT ![req[r].token] = NoRow]
           /\ req' = [req EXCEPT ![r].at = "closing", ![r].turned = TRUE,
                                 ![r].token = t, ![r].row = new]
  /\ UNCHANGED <<accounts, jar, last>>

\* Destroy: the row is deleted, and the answer will clear the cookie.
SignOut(r) ==
  /\ req[r].at = "running" /\ req[r].kind = "logout" /\ FormAccepted(r)
  /\ rows' = [rows EXCEPT ![req[r].token] = NoRow]
  /\ req' = [req EXCEPT ![r].at = "closing", ![r].turned = TRUE, ![r].token = NoToken,
                        ![r].row = NoRow, ![r].status = "destroyed"]
  /\ UNCHANGED <<accounts, jar, last>>
-----------------------------------------------------------------------------
\* What is left of request q when it is answered; nothing if nobody waits.
Answer(q, set, shown, turned) ==
  IF q.by = NoBrowser THEN NoRequest
  ELSE [NoRequest EXCEPT !.at = "done", !.kind = q.kind, !.by = q.by,
          !.who = IF turned THEN q.who ELSE NoUser,
          !.set = set, !.shown = shown, !.turned = turned]

\* PostgresStore.Commit: the upsert, under a new token if the session has none.
Store(r) ==
  /\ req[r].at = "closing" /\ req[r].status = "modified"
  /\ \E t \in Tokens :
       /\ IF req[r].token = NoToken THEN FreshToken(t) ELSE t = req[r].token
       /\ rows' = [rows EXCEPT ![t] = req[r].row]
       /\ req' = [req EXCEPT ![r] = Answer(req[r], t, req[r].shown, req[r].turned)]
  /\ UNCHANGED <<accounts, jar, last>>

\* Nothing to store: a new session nobody wrote to, or a destroyed one.
Close(r) ==
  /\ req[r].at = "closing" /\ req[r].status # "modified"
  /\ req' = [req EXCEPT ![r] =
       Answer(@, IF @.status = "destroyed" THEN NoToken ELSE Keep, @.shown, @.turned)]
  /\ UNCHANGED <<rows, accounts, jar, last>>

\* A statement of the store fails, the handler panics or the server is restarted:
\* nothing more is stored and the browser gets an error, or nothing.
Fail(r) ==
  LET b == req[r].by
  IN  /\ req[r].at \in {"sent", "running", "vouched", "closing"}
      /\ req' = [req EXCEPT ![r] = Answer(@, Keep, NoCsrf, FALSE)]
      /\ last' = IF req[r].turned /\ b # NoBrowser
           THEN [last EXCEPT ![b] = Unknown] ELSE last
      /\ UNCHANGED <<rows, accounts, jar>>

\* Variant: only a session that is new sets its cookie.
ArriveOldCookie(r) ==
  LET b == req[r].by
  IN  /\ req[r].at = "done"
      /\ jar' = IF req[r].set = Keep \/ jar[b] # NoToken
           THEN jar ELSE [jar EXCEPT ![b] = req[r].set]
      /\ last' = IF req[r].turned /\ InFlight(b) = {r}
           THEN [last EXCEPT ![b] = req[r].who] ELSE last
      /\ req' = [req EXCEPT ![r] = NoRequest]
      /\ UNCHANGED <<rows, accounts>>

\* The answer arrives; answers arrive in any order.
Arrive(r) ==
  LET b == req[r].by
  IN  /\ req[r].at = "done"
      /\ jar' = IF req[r].set = Keep THEN jar ELSE [jar EXCEPT ![b] = req[r].set]
      /\ last' = IF req[r].turned /\ InFlight(b) = {r}
           THEN [last EXCEPT ![b] = req[r].who] ELSE last
      /\ req' = [req EXCEPT ![r] = NoRequest]
      /\ UNCHANGED <<rows, accounts>>

\* The browser gives up or the answer is lost; the server goes on.
Abandon(r) ==
  LET b == req[r].by
  IN  /\ req[r].at # "idle" /\ b # NoBrowser
      /\ req' = [req EXCEPT ![r] =
           IF @.at = "done" THEN NoRequest ELSE [@ EXCEPT !.by = NoBrowser]]
      /\ last' = IF req[r].kind \in Turning THEN [last EXCEPT ![b] = Unknown] ELSE last
      /\ UNCHANGED <<rows, accounts, jar>>

\* The idle timeout or the lifetime of a session ends; an hour is longer than an
\* answer takes.
Expire(t) ==
  /\ rows[t] # NoRow
  /\ \A r \in Requests : req[r].set # t
  /\ rows' = [rows EXCEPT ![t] = NoRow]
  /\ last' = [b \in Browsers |->
       IF jar[b] = t /\ last[b] \in Users THEN Unknown ELSE last[b]]
  /\ UNCHANGED <<accounts, req, jar>>

Asking(r) ==
  \E b \in Browsers, kind \in Kinds, form \in Csrf \cup {NoCsrf}, who \in Users \cup {NoUser} :
    Send(r, b, kind, form, who)

Handling(r) ==
  \/ Load(r)
  \/ ShowForm(r)
  \/ ShowPage(r)
  \/ Refuse(r)
  \/ Authenticate(r)
  \/ Register(r)
  \/ SignIn(r)
  \/ SignOut(r)
  \/ Store(r)
  \/ Close(r)
  \/ Fail(r)

Answering(r) == Arrive(r) \/ Abandon(r)

Next ==
  \/ \E r \in Requests : Asking(r) \/ Handling(r) \/ Answering(r)
  \/ \E t \in Tokens : Expire(t)

Spec == Init /\ [][Next]_vars
-----------------------------------------------------------------------------
AtWork(r) == req[r].at \in {"running", "vouched", "closing"}

\* Every copy of a session says the same: the row, and what requests that loaded or
\* made it are to write back.  So whichever writes last, before or after the row is
\* deleted or has expired, nothing that another one put into the session is lost.
SessionCopiesAgree ==
  \A r \in Requests : AtWork(r) /\ req[r].token # NoToken =>
    /\ rows[req[r].token] \in {NoRow, req[r].row}
    /\ \A q \in Requests : AtWork(q) /\ req[q].token = req[r].token => req[q].row = req[r].row

\* The form token of a page is that of the session whose cookie comes with it, in
\* every copy of that session, however the request interleaved with others.
PagesMatchSessions ==
  \A r \in Requests : req[r].shown # NoCsrf /\ req[r].at = "done" =>
    /\ req[r].set \in Tokens
    /\ rows[req[r].set] # NoRow => rows[req[r].set].csrf = req[r].shown
    /\ \A q \in Requests : AtWork(q) /\ req[q].token = req[r].set =>
         req[q].row.csrf = req[r].shown

UserOf(t) == IF t = NoToken THEN NoUser ELSE rows[t].user

\* A browser is signed in as, or out by, what its last answered sign-in or sign-out
\* says, unless other requests overlapped it, its answer was lost or the session
\* expired: requests given up earlier, which the server may still finish, do not
\* bring an old session back.
SignInsLast ==
  \A b \in Browsers :
    last[b] # Unknown /\ (\A r \in InFlight(b) : req[r].kind \notin Turning) =>
      UserOf(jar[b]) = last[b]

\* What carries the first two: what request r knows of its session at each place
\* in the code, and that stored sessions have a form token and a user with an account.
Formed(r) ==
  LET q == req[r]
  IN  /\ q.at \in {"idle", "sent", "running", "vouched"} => q.shown = NoCsrf
      /\ q.at = "running" /\ q.token = NoToken => q.row = NoRow /\ q.status = "clean"
      /\ q.at = "vouched" => q.token # NoToken /\ q.who \in accounts
      /\ AtWork(r) /\ q.token # NoToken => q.status = "modified" /\ q.row.csrf # NoCsrf
      /\ q.at = "closing" /\ q.status = "modified" => q.row.csrf # NoCsrf
      /\ q.at = "closing" /\ q.shown # NoCsrf => q.status = "modified" /\ q.shown = q.row.csrf
      /\ AtWork(r) => q.row.user \in accounts \cup {NoUser}

RequestsAreFormed == \A r \in Requests : Formed(r)

StoredSessionsAreFormed ==
  \A t \in Tokens : rows[t] # NoRow =>
    rows[t].csrf # NoCsrf /\ rows[t].user \in accounts \cup {NoUser}

IInv ==
  /\ TypeOK
  /\ SessionCopiesAgree
  /\ PagesMatchSessions
  /\ RequestsAreFormed
  /\ StoredSessionsAreFormed

\* What carries the third.  The session tokens that can come to be b's: in its jar,
\* in its requests and in the answers to them.
Known(b) ==
  {t \in Tokens : t = jar[b] \/ \E r \in InFlight(b) : t \in {req[r].token, req[r].set}}

\* What request r has made of its browser, and what its answer will say of it.
TurnFormed(r) ==
  LET q == req[r]
  IN  /\ q.at = "idle" => q = NoRequest
      /\ q.at = "done" => q.by # NoBrowser /\ q.token = NoToken
      /\ q.at # "done" => q.set = Keep
      /\ q.kind = "logout" => q.who = NoUser
      /\ q.status = "destroyed" => q.turned
      /\ AtWork(r) /\ q.token = NoToken => q.row.user = NoUser
      /\ q.at = "vouched" \/ q.turned => q.kind \in Turning
      /\ q.turned => q.at \in {"closing", "done"}
      /\ q.at = "closing" /\ q.turned =>
           IF q.token = NoToken THEN q.status = "destroyed" /\ q.who = NoUser
                                ELSE q.row.user = q.who
      /\ q.at = "done" /\ q.turned =>
           q.set # Keep /\ (q.set = NoToken => q.who = NoUser)
             /\ (q.set # NoToken => rows[q.set].user = q.who)
      /\ q.at = "done" /\ ~q.turned => q.set # NoToken

TurnsAreFormed == \A r \in Requests : TurnFormed(r)

\* Until its answer arrives, nobody else has the token of a session signed in to.
NewSessionsAreUnknown ==
  \A r \in Requests : req[r].turned =>
    \A t \in {req[r].token, req[r].set} \cap Tokens :
      /\ \A b \in Browsers : jar[b] # t
      /\ \A q \in Requests \ {r} : t \notin {req[q].token, req[q].set}

TokensAreOwned == \A b, c \in Browsers : b # c => Known(b) \cap Known(c) = {}

\* Where whom a browser is signed in as is known, a sign-in or sign-out of it runs
\* alone, and one it gave up works on a session it does not have any more.
TurnsRunAlone ==
  \A b \in Browsers : last[b] # Unknown =>
    /\ \A r \in InFlight(b) : req[r].kind \in Turning => InFlight(b) = {r}
    /\ \A p \in Requests :
         req[p].by = NoBrowser /\ req[p].kind \in Turning /\ ~req[p].turned
           => req[p].token \notin Known(b)

\* A browser no request has signed in or out since its last answer.
Settled(b) == last[b] # Unknown /\ \A r \in InFlight(b) : ~req[r].turned

\* Every session it can have is one of the same user, in every copy.
SettledSessionsAgree ==
  \A b \in Browsers : Settled(b) =>
    /\ UserOf(jar[b]) = last[b]
    /\ \A t \in Known(b) :
         /\ rows[t].user = last[b]
         /\ \A p \in Requests : AtWork(p) /\ req[p].token = t => req[p].row.user = last[b]
    /\ \A r \in InFlight(b) : req[r].at # "done" /\ req[r].token = NoToken => last[b] = NoUser
    /\ last[b] # NoUser => Known(b) \subseteq {jar[b]}

SignIInv ==
  /\ TurnsAreFormed
  /\ NewSessionsAreUnknown
  /\ TokensAreOwned
  /\ TurnsRunAlone
  /\ SettledSessionsAgree

SessionsIInv == IInv /\ SignIInv
=============================================================================

--------------------------- MODULE Sessions_proofs ---------------------------
(***************************************************************************)
(* Copies of a session agree and pages match their sessions, for any       *)
(* number of browsers, concurrent requests, tokens and users.              *)
(***************************************************************************)
EXTENDS Sessions, TLAPS

LEMMA NoRequestTyped == NoRequest \in Request
  BY SessionConstants DEF NoRequest, Request, NoRow, Row, Kinds

LEMMA InitInv == Init => IInv
  <1> SUFFICES ASSUME Init PROVE IInv
    OBVIOUS
  <1>1. TypeOK
    BY NoRequestTyped DEF Init, TypeOK, NoRow, Row
  <1>2. \A r \in Requests : req[r] = NoRequest
    BY DEF Init
  <1>3. SessionCopiesAgree /\ PagesMatchSessions /\ RequestsAreFormed
    BY <1>2 DEF SessionCopiesAgree, PagesMatchSessions, RequestsAreFormed, Formed, AtWork, NoRequest
  <1>4. StoredSessionsAreFormed
    BY DEF Init, StoredSessionsAreFormed
  <1> QED
    BY <1>1, <1>3, <1>4 DEF IInv

\* A step that makes no copy of a session: request r keeps the session it works on or
\* lets go of it, it is not answered with a form, and rows are at most deleted.
LEMMA NoNewCopy ==
  ASSUME IInv, TypeOK', NEW r \in Requests,
         \A q \in Requests \ {r} : req'[q] = req[q],
         \A t \in Tokens : rows'[t] \in {NoRow, rows[t]},
         accounts \subseteq accounts',
         Formed(r)',
         req'[r].at = "done" => req'[r].shown = NoCsrf,
         AtWork(r)' /\ req'[r].token # NoToken =>
           AtWork(r) /\ req'[r].token = req[r].token /\ req'[r].row = req[r].row
  PROVE  IInv'
  <1> USE DEF IInv
  <1>1. \A q \in Requests : AtWork(q)' /\ req'[q].token # NoToken =>
          AtWork(q) /\ req'[q].token = req[q].token /\ req'[q].row = req[q].row
    BY DEF AtWork
  <1>2. SessionCopiesAgree'
    <2> SUFFICES ASSUME NEW q \in Requests, AtWork(q)', req'[q].token # NoToken
                 PROVE  /\ rows'[req'[q].token] \in {NoRow, req'[q].row}
                        /\ \A p \in Requests : AtWork(p)' /\ req'[p].token = req'[q].token =>
                             req'[p].row = req'[q].row
      BY DEF SessionCopiesAgree, AtWork
    <2>1. req'[q].token \in Tokens
      BY DEF TypeOK, Request
    <2> QED
      BY <1>1, <2>1 DEF SessionCopiesAgree
  <1>3. PagesMatchSessions'
    <2> SUFFICES ASSUME NEW q \in Requests, req'[q].at = "done", req'[q].shown # NoCsrf
                 PROVE  /\ req'[q].set \in Tokens
                        /\ rows'[req'[q].set] # NoRow => rows'[req'[q].set].csrf = req'[q].shown
                        /\ \A p \in Requests : AtWork(p)' /\ req'[p].token = req'[q].set =>
                             req'[p].row.csrf = req'[q].shown
      BY DEF PagesMatchSessions, AtWork
    <2>1. req'[q] = req[q]
      OBVIOUS
    <2>2. req[q].set \in Tokens
      BY <2>1 DEF PagesMatchSessions
    <2>3. req[q].set # NoToken
      BY <2>2, SessionConstants
    <2> QED
      BY <1>1, <2>1, <2>2, <2>3 DEF PagesMatchSessions
  <1>4. RequestsAreFormed'
    <2> SUFFICES ASSUME NEW q \in Requests PROVE Formed(q)'
      BY DEF RequestsAreFormed
    <2>1. CASE q = r
      BY <2>1
    <2>2. CASE q # r
      <3>1. req'[q] = req[q] /\ Formed(q)
        BY <2>2 DEF RequestsAreFormed
      <3> QED
        BY <3>1 DEF Formed, AtWork
    <2> QED
      BY <2>1, <2>2
  <1>5. StoredSessionsAreFormed'
    BY DEF StoredSessionsAreFormed
  <1> QED
    BY <1>2, <1>3, <1>4, <1>5

\* An answer is a request, and says no more than it is given.
LEMMA AnswerTyped ==
  ASSUME NEW q \in Request, NEW set \in Tokens \cup {NoToken, Keep},
         NEW shown \in Csrf \cup {NoCsrf}, NEW turned \in BOOLEAN
  PROVE  /\ Answer(q, set, shown, turned) \in Request
         /\ Answer(q, set, shown, turned).at \in {"idle", "done"}
         /\ Answer(q, set, shown, turned).shown \in {NoCsrf, shown}
         /\ Answer(q, set, shown, turned).at = "idle" => Answer(q, set, shown, turned).shown = NoCsrf
         /\ Answer(q, set, shown, turned).at = "done" => Answer(q, set, shown, turned).set = set
  <1>1. CASE q.by = NoBrowser
    BY <1>1, NoRequestTyped DEF Answer, NoRequest
  <1>2. CASE q.by # NoBrowser
    <2>1. q.kind \in Kinds /\ q.by \in Browsers \cup {NoBrowser} /\ q.who \in Users \cup {NoUser}
      BY DEF Request
    <2> DEFINE a == [at |-> "done", kind |-> q.kind, by |-> q.by, form |-> NoCsrf,
                     who |-> IF turned THEN q.who ELSE NoUser, token |-> NoToken, row |-> NoRow,
                     status |-> "clean", set |-> set, shown |-> shown, turned |-> turned]
    <2>2. Answer(q, set, shown, turned) = a
      BY <1>2 DEF Answer, NoRequest
    <2>3. a \in Request
      BY <2>1 DEF Request, Row, NoRow
    <2> QED
      BY <2>2, <2>3
  <1> QED
    BY <1>1, <1>2

\* A request that is sent has no session yet.
LEMMA SendInv ==
  ASSUME IInv, NEW r \in Requests, NEW b \in Browsers, NEW kind \in Kinds,
         NEW form \in Csrf \cup {NoCsrf}, NEW who \in Users \cup {NoUser},
         Send(r, b, kind, form, who)
  PROVE  IInv'
  <1> USE DEF IInv
  <1>1. TypeOK /\ req[r] \in Request /\ Formed(r)
    BY DEF TypeOK, RequestsAreFormed
  <1>2. TypeOK'
    <2>1. req' = [req EXCEPT ![r] = req'[r]]
      BY <1>1 DEF Send, NoRequest, InFlight, TypeOK
    <2>2. req'[r] \in Request
      <3>1. req'[r] = [at |-> "sent", kind |-> kind, by |-> b, form |-> form, who |-> who,
                       token |-> jar[b], row |-> NoRow, status |-> "clean",
                       set |-> Keep, shown |-> NoCsrf, turned |-> FALSE]
        BY DEF Send, NoRequest, TypeOK
      <3>2. jar[b] \in Tokens \cup {NoToken}
        BY DEF TypeOK
      <3> QED
        BY <3>1, <3>2 DEF Request, Row, NoRow
    <2> QED
      BY <1>1, <2>1, <2>2, SessionConstants
      DEF Send, NoRequest, InFlight, TypeOK, Request, Row, NoRow, Turning
  <1>3. \A q \in Requests \ {r} : req'[q] = req[q]
    BY <1>1 DEF Send, NoRequest, InFlight, TypeOK
  <1>4. \A t \in Tokens : rows'[t] \in {NoRow, rows[t]}
    BY <1>1 DEF Send, NoRequest, InFlight, TypeOK
  <1>5. accounts \subseteq accounts'
    BY DEF Send, NoRequest, InFlight
  <1>6. Formed(r)' /\ (req'[r].at = "done" => req'[r].shown = NoCsrf)
    BY <1>1, SessionConstants
    DEF Send, NoRequest, InFlight, TypeOK, Request, Row, NoRow, Formed, AtWork, Kinds, Turning
  <1>7. AtWork(r)' /\ req'[r].token # NoToken =>
          AtWork(r) /\ req'[r].token = req[r].token /\ req'[r].row = req[r].row
    BY <1>1, SessionConstants DEF Send, NoRequest, InFlight, TypeOK, Request, Row, NoRow, Formed, AtWork
  <1> QED
    BY <1>2, <1>3, <1>4, <1>5, <1>6, <1>7, NoNewCopy

\* A session that has a form token keeps it.
LEMMA ShowFormInv ==
  ASSUME IInv, NEW r \in Requests, ShowForm(r)
  PROVE  IInv'
  <1> USE DEF IInv
  <1>1. TypeOK /\ req[r] \in Request /\ Formed(r)
    BY DEF TypeOK, RequestsAreFormed
  <1>2. TypeOK'
    <2>1. req' = [req EXCEPT ![r] = req'[r]]
      BY <1>1 DEF ShowForm, TypeOK
    <2>2. req'[r] \in Request
      <3>1. PICK f \in Csrf :
              req' = [req EXCEPT ![r].at = "closing", ![r].shown = f, ![r].row.csrf = f,
                                 ![r].status = "modified"]
        BY DEF ShowForm
      <3>2. req'[r] = [req[r] EXCEPT !.at = "closing", !.shown = f, !.row = [@ EXCEPT !.csrf = f],
                                     !.status = "modified"]
        BY <3>1 DEF TypeOK
      <3>3. [req[r].row EXCEPT !.csrf = f] \in Row
        BY <1>1 DEF Request, Row
      <3> QED
        BY <1>1, <3>2, <3>3 DEF Request
    <2> QED
      BY <1>1, <2>1, <2>2, SessionConstants
      DEF ShowForm, TypeOK, Request, Row, NoRow, Turning
  <1>3. \A q \in Requests \ {r} : req'[q] = req[q]
    BY <1>1 DEF ShowForm, TypeOK
  <1>4. \A t \in Tokens : rows'[t] \in {NoRow, rows[t]}
    BY <1>1 DEF ShowForm, TypeOK
  <1>5. accounts \subseteq accounts'
    BY DEF ShowForm
  <1>6. Formed(r)' /\ (req'[r].at = "done" => req'[r].shown = NoCsrf)
    <2>1. /\ req'[r].at = "closing" /\ req'[r].token = req[r].token
          /\ req'[r].status \in {req[r].status, "modified"}
      BY <1>1 DEF ShowForm, TypeOK, Request
    <2>2. \/ req'[r].shown = NoCsrf
          \/ req'[r].shown = req'[r].row.csrf /\ req'[r].status = "modified"
      BY <1>1 DEF ShowForm, TypeOK, Request, Row, NoRow, Formed, AtWork
    <2>3. /\ req'[r].row.user = req[r].row.user /\ accounts' = accounts
          /\ req'[r].status = "modified" => req'[r].row.csrf # NoCsrf
          /\ req'[r].token # NoToken => req'[r].status = "modified"
      BY <1>1, SessionConstants
      DEF ShowForm, TypeOK, Request, Row, NoRow, Formed, AtWork
    <2>4. AtWork(r) /\ AtWork(r)'
      BY <2>1 DEF ShowForm, AtWork
    <2> QED
      BY <1>1, <2>1, <2>2, <2>3, <2>4 DEF Formed
  <1>7. AtWork(r)' /\ req'[r].token # NoToken =>
          AtWork(r) /\ req'[r].token = req[r].token /\ req'[r].row = req[r].row
    BY <1>1, SessionConstants DEF ShowForm, TypeOK, Request, Row, NoRow, Formed, AtWork
  <1> QED
    BY <1>2, <1>3, <1>4, <1>5, <1>6, <1>7, NoNewCopy

\* The page carries the form token of the session at hand.
LEMMA ShowPageInv ==
  ASSUME IInv, NEW r \in Requests, ShowPage(r)
  PROVE  IInv'
  <1> USE DEF IInv
  <1>1. TypeOK /\ req[r] \in Request /\ Formed(r)
    BY DEF TypeOK, RequestsAreFormed
  <1>2. TypeOK'
    <2>1. req' = [req EXCEPT ![r] = req'[r]]
      BY <1>1 DEF ShowPage, TypeOK
    <2>2. req'[r] \in Request
      BY <1>1, SessionConstants DEF ShowPage, TypeOK, Request, Row, NoRow, Kinds, Turning
    <2> QED
      BY <1>1, <2>1, <2>2, SessionConstants
      DEF ShowPage, TypeOK, Request, Row, NoRow, Turning
  <1>3. \A q \in Requests \ {r} : req'[q] = req[q]
    BY <1>1 DEF ShowPage, TypeOK
  <1>4. \A t \in Tokens : rows'[t] \in {NoRow, rows[t]}
    BY <1>1 DEF ShowPage, TypeOK
  <1>5. accounts \subseteq accounts'
    BY DEF ShowPage
  <1>a. /\ req[r].at = "running"
        /\ req'[r] = [req[r] EXCEPT !.at = "closing",
             !.shown = IF req[r].row.user = NoUser THEN NoCsrf ELSE req[r].row.csrf]
    BY DEF ShowPage, TypeOK
  <1>b. req[r].row.user # NoUser => req[r].token # NoToken /\ req[r].status = "modified"
    BY <1>1, <1>a DEF Formed, AtWork, NoRow
  <1>6. Formed(r)' /\ (req'[r].at = "done" => req'[r].shown = NoCsrf)
    <2>1. /\ req'[r].at = "closing" /\ req'[r].token = req[r].token
          /\ req'[r].status \in {req[r].status, "modified"}
      BY <1>1 DEF ShowPage, TypeOK, Request
    <2>2. \/ req'[r].shown = NoCsrf
          \/ req'[r].shown = req'[r].row.csrf /\ req'[r].status = "modified"
      BY <1>1, <1>a, <1>b DEF Request
    <2>3. /\ req'[r].row.user = req[r].row.user /\ accounts' = accounts
          /\ req'[r].status = "modified" => req'[r].row.csrf # NoCsrf
          /\ req'[r].token # NoToken => req'[r].status = "modified"
      <3>1. req'[r].row = req[r].row /\ req'[r].token = req[r].token /\ req'[r].status = req[r].status
        BY <1>1, <1>a DEF Request
      <3>2. req[r].status = "modified" => req[r].token # NoToken
        BY <1>1, <1>a DEF Formed
      <3> QED
        BY <1>1, <1>a, <3>1, <3>2 DEF ShowPage, Formed, AtWork
    <2>4. AtWork(r) /\ AtWork(r)'
      BY <2>1 DEF ShowPage, AtWork
    <2> QED
      BY <1>1, <2>1, <2>2, <2>3, <2>4 DEF Formed
  <1>7. AtWork(r)' /\ req'[r].token # NoToken =>
          AtWork(r) /\ req'[r].token = req[r].token /\ req'[r].row = req[r].row
    BY <1>1, SessionConstants DEF ShowPage, TypeOK, Request, Row, NoRow, Formed, AtWork
  <1> QED
    BY <1>2, <1>3, <1>4, <1>5, <1>6, <1>7, NoNewCopy

\* A form shown again carries the token of the session at hand.
LEMMA RefuseInv ==
  ASSUME IInv, NEW r \in Requests, Refuse(r)
  PROVE  IInv'
  <1> USE DEF IInv
  <1>1. TypeOK /\ req[r] \in Request /\ Formed(r)
    BY DEF TypeOK, RequestsAreFormed
  <1>2. TypeOK'
    <2>1. req' = [req EXCEPT ![r] = req'[r]]
      BY <1>1 DEF Refuse, FormAccepted, TypeOK
    <2>2. req'[r] \in Request
      <3>1. PICK f \in {NoCsrf} \cup (IF req[r].kind # "logout" /\ FormAccepted(r)
                                      THEN {req[r].row.csrf} ELSE {}) :
              req' = [req EXCEPT ![r].at = "closing", ![r].form = NoCsrf, ![r].who = NoUser,
                             ![r].shown = f]
        BY DEF Refuse
      <3>2. req'[r] = [req[r] EXCEPT !.at = "closing", !.form = NoCsrf, !.who = NoUser, !.shown = f]
        BY <3>1 DEF TypeOK
      <3>3. f \in Csrf \cup {NoCsrf}
        BY <1>1, <3>1 DEF Request, Row
      <3> QED
        BY <1>1, <3>2, <3>3 DEF Request
    <2> QED
      BY <1>1, <2>1, <2>2, SessionConstants
      DEF Refuse, FormAccepted, TypeOK, Request, Row, NoRow, Turning
  <1>3. \A q \in Requests \ {r} : req'[q] = req[q]
    BY <1>1 DEF Refuse, FormAccepted, TypeOK
  <1>4. \A t \in Tokens : rows'[t] \in {NoRow, rows[t]}
    BY <1>1 DEF Refuse, FormAccepted, TypeOK
  <1>5. accounts \subseteq accounts'
    BY DEF Refuse, FormAccepted
  <1>a. PICK f \in {NoCsrf} \cup (IF req[r].kind # "logout" /\ FormAccepted(r)
                                  THEN {req[r].row.csrf} ELSE {}) :
          req' = [req EXCEPT ![r].at = "closing", ![r].form = NoCsrf, ![r].who = NoUser,
                             ![r].shown = f]
    BY DEF Refuse
  <1>b. /\ req[r].at \in {"running", "vouched"}
        /\ req'[r] = [req[r] EXCEPT !.at = "closing", !.form = NoCsrf, !.who = NoUser, !.shown = f]
    BY <1>a DEF Refuse, TypeOK
  <1>c. FormAccepted(r) => req[r].token # NoToken /\ req[r].status = "modified"
    BY <1>1, <1>b DEF Formed, AtWork, NoRow, FormAccepted
  <1>6. Formed(r)' /\ (req'[r].at = "done" => req'[r].shown = NoCsrf)
    <2>1. /\ req'[r].at = "closing" /\ req'[r].token = req[r].token
          /\ req'[r].status \in {req[r].status, "modified"}
      BY <1>1 DEF Refuse, FormAccepted, TypeOK, Request
    <2>0. f = NoCsrf \/ (f = req[r].row.csrf /\ req[r].status = "modified")
      BY <1>a, <1>c
    <2>2. \/ req'[r].shown = NoCsrf
          \/ req'[r].shown = req'[r].row.csrf /\ req'[r].status = "modified"
      BY <1>1, <1>b, <2>0 DEF Request
    <2>3. /\ req'[r].row.user = req[r].row.user /\ accounts' = accounts
          /\ req'[r].status = "modified" => req'[r].row.csrf # NoCsrf
          /\ req'[r].token # NoToken => req'[r].status = "modified"
      <3>1. req'[r].row = req[r].row /\ req'[r].token = req[r].token /\ req'[r].status = req[r].status
        BY <1>1, <1>b DEF Request
      <3>2. req[r].status = "modified" => req[r].token # NoToken
        BY <1>1, <1>b DEF Formed
      <3>3. accounts' = accounts
        BY DEF Refuse
      <3> QED
        BY <1>1, <1>b, <3>1, <3>2, <3>3 DEF Formed, AtWork
    <2>4. AtWork(r) /\ AtWork(r)'
      BY <2>1 DEF Refuse, FormAccepted, AtWork
    <2> QED
      BY <1>1, <2>1, <2>2, <2>3, <2>4 DEF Formed
  <1>7. AtWork(r)' /\ req'[r].token # NoToken =>
          AtWork(r) /\ req'[r].token = req[r].token /\ req'[r].row = req[r].row
    BY <1>1, SessionConstants DEF Refuse, FormAccepted, TypeOK, Request, Row, NoRow, Formed, AtWork
  <1> QED
    BY <1>2, <1>3, <1>4, <1>5, <1>6, <1>7, NoNewCopy

\* The user has an account, and the session a token.
LEMMA AuthenticateInv ==
  ASSUME IInv, NEW r \in Requests, Authenticate(r)
  PROVE  IInv'
  <1> USE DEF IInv
  <1>1. TypeOK /\ req[r] \in Request /\ Formed(r)
    BY DEF TypeOK, RequestsAreFormed
  <1>2. TypeOK'
    <2>1. req' = [req EXCEPT ![r] = req'[r]]
      BY <1>1 DEF Authenticate, FormAccepted, TypeOK
    <2>2. req'[r] \in Request
      BY <1>1, SessionConstants DEF Authenticate, FormAccepted, TypeOK, Request, Row, NoRow, Kinds, Turning
    <2> QED
      BY <1>1, <2>1, <2>2, SessionConstants
      DEF Authenticate, FormAccepted, TypeOK, Request, Row, NoRow, Turning
  <1>3. \A q \in Requests \ {r} : req'[q] = req[q]
    BY <1>1 DEF Authenticate, FormAccepted, TypeOK
  <1>4. \A t \in Tokens : rows'[t] \in {NoRow, rows[t]}
    BY <1>1 DEF Authenticate, FormAccepted, TypeOK
  <1>5. accounts \subseteq accounts'
    BY DEF Authenticate, FormAccepted
  <1>6. Formed(r)' /\ (req'[r].at = "done" => req'[r].shown = NoCsrf)
    BY <1>1, SessionConstants
    DEF Authenticate, FormAccepted, TypeOK, Request, Row, NoRow, Formed, AtWork, Kinds, Turning
  <1>7. AtWork(r)' /\ req'[r].token # NoToken =>
          AtWork(r) /\ req'[r].token = req[r].token /\ req'[r].row = req[r].row
    BY <1>1, SessionConstants DEF Authenticate, FormAccepted, TypeOK, Request, Row, NoRow, Formed, AtWork
  <1> QED
    BY <1>2, <1>3, <1>4, <1>5, <1>6, <1>7, NoNewCopy

\* The account is there before the session names its user.
LEMMA RegisterInv ==
  ASSUME IInv, NEW r \in Requests, Register(r)
  PROVE  IInv'
  <1> USE DEF IInv
  <1>1. TypeOK /\ req[r] \in Request /\ Formed(r)
    BY DEF TypeOK, RequestsAreFormed
  <1>2. TypeOK'
    <2>1. req' = [req EXCEPT ![r] = req'[r]]
      BY <1>1 DEF Register, FormAccepted, TypeOK
    <2>2. req'[r] \in Request
      BY <1>1, SessionConstants DEF Register, FormAccepted, TypeOK, Request, Row, NoRow, Kinds, Turning
    <2> QED
      BY <1>1, <2>1, <2>2, SessionConstants
      DEF Register, FormAccepted, TypeOK, Request, Row, NoRow, Turning
  <1>3. \A q \in Requests \ {r} : req'[q] = req[q]
    BY <1>1 DEF Register, FormAccepted, TypeOK
  <1>4. \A t \in Tokens : rows'[t] \in {NoRow, rows[t]}
    BY <1>1 DEF Register, FormAccepted, TypeOK
  <1>5. accounts \subseteq accounts'
    BY DEF Register, FormAccepted
  <1>6. Formed(r)' /\ (req'[r].at = "done" => req'[r].shown = NoCsrf)
    BY <1>1, SessionConstants
    DEF Register, FormAccepted, TypeOK, Request, Row, NoRow, Formed, AtWork, Kinds, Turning
  <1>7. AtWork(r)' /\ req'[r].token # NoToken =>
          AtWork(r) /\ req'[r].token = req[r].token /\ req'[r].row = req[r].row
    BY <1>1, SessionConstants DEF Register, FormAccepted, TypeOK, Request, Row, NoRow, Formed, AtWork
  <1> QED
    BY <1>2, <1>3, <1>4, <1>5, <1>6, <1>7, NoNewCopy

\* The row goes, and the request keeps nothing of it.
LEMMA SignOutInv ==
  ASSUME IInv, NEW r \in Requests, SignOut(r)
  PROVE  IInv'
  <1> USE DEF IInv
  <1>1. TypeOK /\ req[r] \in Request /\ Formed(r)
    BY DEF TypeOK, RequestsAreFormed
  <1>2. TypeOK'
    <2>1. req' = [req EXCEPT ![r] = req'[r]]
      BY <1>1 DEF SignOut, FormAccepted, TypeOK
    <2>2. req'[r] \in Request
      BY <1>1, SessionConstants DEF SignOut, FormAccepted, TypeOK, Request, Row, NoRow, Kinds, Turning
    <2> QED
      BY <1>1, <2>1, <2>2, SessionConstants
      DEF SignOut, FormAccepted, TypeOK, Request, Row, NoRow, Turning
  <1>3. \A q \in Requests \ {r} : req'[q] = req[q]
    BY <1>1 DEF SignOut, FormAccepted, TypeOK
  <1>4. \A t \in Tokens : rows'[t] \in {NoRow, rows[t]}
    BY <1>1 DEF SignOut, FormAccepted, TypeOK
  <1>5. accounts \subseteq accounts'
    BY DEF SignOut, FormAccepted
  <1>6. Formed(r)' /\ (req'[r].at = "done" => req'[r].shown = NoCsrf)
    BY <1>1, SessionConstants
    DEF SignOut, FormAccepted, TypeOK, Request, Row, NoRow, Formed, AtWork, Kinds, Turning
  <1>7. AtWork(r)' /\ req'[r].token # NoToken =>
          AtWork(r) /\ req'[r].token = req[r].token /\ req'[r].row = req[r].row
    BY <1>1, SessionConstants DEF SignOut, FormAccepted, TypeOK, Request, Row, NoRow, Formed, AtWork
  <1> QED
    BY <1>2, <1>3, <1>4, <1>5, <1>6, <1>7, NoNewCopy

\* A request that stores nothing has shown no form.
LEMMA CloseInv ==
  ASSUME IInv, NEW r \in Requests, Close(r)
  PROVE  IInv'
  <1> USE DEF IInv
  <1>1. TypeOK /\ req[r] \in Request /\ Formed(r)
    BY DEF TypeOK, RequestsAreFormed
  <1>2. TypeOK'
    <2>1. req' = [req EXCEPT ![r] = req'[r]]
      BY <1>1 DEF Close, Answer, NoRequest, TypeOK
    <2>2. req'[r] \in Request
      <3>1. req'[r] = Answer(req[r], IF req[r].status = "destroyed" THEN NoToken ELSE Keep,
                             req[r].shown, req[r].turned)
        BY DEF Close, TypeOK
      <3> QED
        BY <1>1, <3>1, AnswerTyped DEF Request
    <2> QED
      BY <1>1, <2>1, <2>2, SessionConstants
      DEF Close, Answer, NoRequest, TypeOK, Request, Row, NoRow, Turning
  <1>3. \A q \in Requests \ {r} : req'[q] = req[q]
    BY <1>1 DEF Close, Answer, NoRequest, TypeOK
  <1>4. \A t \in Tokens : rows'[t] \in {NoRow, rows[t]}
    BY <1>1 DEF Close, Answer, NoRequest, TypeOK
  <1>5. accounts \subseteq accounts'
    BY DEF Close, Answer, NoRequest
  <1>6. Formed(r)' /\ (req'[r].at = "done" => req'[r].shown = NoCsrf)
    BY <1>1, SessionConstants
    DEF Close, Answer, NoRequest, TypeOK, Request, Row, NoRow, Formed, AtWork, Kinds, Turning
  <1>7. AtWork(r)' /\ req'[r].token # NoToken =>
          AtWork(r) /\ req'[r].token = req[r].token /\ req'[r].row = req[r].row
    BY <1>1, SessionConstants DEF Close, Answer, NoRequest, TypeOK, Request, Row, NoRow, Formed, AtWork
  <1> QED
    BY <1>2, <1>3, <1>4, <1>5, <1>6, <1>7, NoNewCopy

\* A failed request shows no form.
LEMMA FailInv ==
  ASSUME IInv, NEW r \in Requests, Fail(r)
  PROVE  IInv'
  <1> USE DEF IInv
  <1>1. TypeOK /\ req[r] \in Request /\ Formed(r)
    BY DEF TypeOK, RequestsAreFormed
  <1>2. TypeOK'
    <2>1. req' = [req EXCEPT ![r] = req'[r]]
      BY <1>1 DEF Fail, Answer, NoRequest, TypeOK
    <2>2. req'[r] \in Request
      <3>1. req'[r] = Answer(req[r], Keep, NoCsrf, FALSE)
        BY DEF Fail, TypeOK
      <3>2. FALSE \in BOOLEAN /\ Keep \in Tokens \cup {NoToken, Keep} /\ NoCsrf \in Csrf \cup {NoCsrf}
        OBVIOUS
      <3>3. Answer(req[r], Keep, NoCsrf, FALSE) \in Request
        BY <1>1, <3>2, AnswerTyped
      <3> QED
        BY <3>1, <3>3
    <2> QED
      BY <1>1, <2>1, <2>2, SessionConstants
      DEF Fail, Answer, NoRequest, TypeOK, Request, Row, NoRow, Turning
  <1>3. \A q \in Requests \ {r} : req'[q] = req[q]
    BY <1>1 DEF Fail, Answer, NoRequest, TypeOK
  <1>4. \A t \in Tokens : rows'[t] \in {NoRow, rows[t]}
    BY <1>1 DEF Fail, Answer, NoRequest, TypeOK
  <1>5. accounts \subseteq accounts'
    BY DEF Fail, Answer, NoRequest
  <1>6. Formed(r)' /\ (req'[r].at = "done" => req'[r].shown = NoCsrf)
    BY <1>1, SessionConstants
    DEF Fail, Answer, NoRequest, TypeOK, Request, Row, NoRow, Formed, AtWork, Kinds, Turning
  <1>7. AtWork(r)' /\ req'[r].token # NoToken =>
          AtWork(r) /\ req'[r].token = req[r].token /\ req'[r].row = req[r].row
    BY <1>1, SessionConstants DEF Fail, Answer, NoRequest, TypeOK, Request, Row, NoRow, Formed, AtWork
  <1> QED
    BY <1>2, <1>3, <1>4, <1>5, <1>6, <1>7, NoNewCopy

\* An answer that has arrived is no copy of a session.
LEMMA ArriveInv ==
  ASSUME IInv, NEW r \in Requests, Arrive(r)
  PROVE  IInv'
  <1> USE DEF IInv
  <1>1. TypeOK /\ req[r] \in Request /\ Formed(r)
    BY DEF TypeOK, RequestsAreFormed
  <1>2. TypeOK'
    <2>1. req' = [req EXCEPT ![r] = req'[r]]
      BY <1>1 DEF Arrive, NoRequest, InFlight, TypeOK
    <2>2. req'[r] \in Request
      BY <1>1, SessionConstants DEF Arrive, NoRequest, InFlight, TypeOK, Request, Row, NoRow, Kinds, Turning
    <2> QED
      BY <1>1, <2>1, <2>2, SessionConstants
      DEF Arrive, NoRequest, InFlight, TypeOK, Request, Row, NoRow, Turning
  <1>3. \A q \in Requests \ {r} : req'[q] = req[q]
    BY <1>1 DEF Arrive, NoRequest, InFlight, TypeOK
  <1>4. \A t \in Tokens : rows'[t] \in {NoRow, rows[t]}
    BY <1>1 DEF Arrive, NoRequest, InFlight, TypeOK
  <1>5. accounts \subseteq accounts'
    BY DEF Arrive, NoRequest, InFlight
  <1>6. Formed(r)' /\ (req'[r].at = "done" => req'[r].shown = NoCsrf)
    BY <1>1, SessionConstants
    DEF Arrive, NoRequest, InFlight, TypeOK, Request, Row, NoRow, Formed, AtWork, Kinds, Turning
  <1>7. AtWork(r)' /\ req'[r].token # NoToken =>
          AtWork(r) /\ req'[r].token = req[r].token /\ req'[r].row = req[r].row
    BY <1>1, SessionConstants DEF Arrive, NoRequest, InFlight, TypeOK, Request, Row, NoRow, Formed, AtWork
  <1> QED
    BY <1>2, <1>3, <1>4, <1>5, <1>6, <1>7, NoNewCopy

\* Nobody waits, and the request keeps its session.
LEMMA AbandonInv ==
  ASSUME IInv, NEW r \in Requests, Abandon(r)
  PROVE  IInv'
  <1> USE DEF IInv
  <1>1. TypeOK /\ req[r] \in Request /\ Formed(r)
    BY DEF TypeOK, RequestsAreFormed
  <1>2. TypeOK'
    <2>1. req' = [req EXCEPT ![r] = req'[r]]
      BY <1>1 DEF Abandon, NoRequest, TypeOK
    <2>2. req'[r] \in Request
      BY <1>1, SessionConstants DEF Abandon, NoRequest, TypeOK, Request, Row, NoRow, Kinds, Turning
    <2> QED
      BY <1>1, <2>1, <2>2, SessionConstants
      DEF Abandon, NoRequest, TypeOK, Request, Row, NoRow, Turning
  <1>3. \A q \in Requests \ {r} : req'[q] = req[q]
    BY <1>1 DEF Abandon, NoRequest, TypeOK
  <1>4. \A t \in Tokens : rows'[t] \in {NoRow, rows[t]}
    BY <1>1 DEF Abandon, NoRequest, TypeOK
  <1>5. accounts \subseteq accounts'
    BY DEF Abandon, NoRequest
  <1>6. Formed(r)' /\ (req'[r].at = "done" => req'[r].shown = NoCsrf)
    BY <1>1, SessionConstants
    DEF Abandon, NoRequest, TypeOK, Request, Row, NoRow, Formed, AtWork, Kinds, Turning
  <1>7. AtWork(r)' /\ req'[r].token # NoToken =>
          AtWork(r) /\ req'[r].token = req[r].token /\ req'[r].row = req[r].row
    BY <1>1, SessionConstants DEF Abandon, NoRequest, TypeOK, Request, Row, NoRow, Formed, AtWork
  <1> QED
    BY <1>2, <1>3, <1>4, <1>5, <1>6, <1>7, NoNewCopy

\* The session a request loads is a copy of the row, and so agrees with every other.
LEMMA LoadInv ==
  ASSUME IInv, NEW r \in Requests, Load(r)
  PROVE  IInv'
  <1> USE DEF IInv
  <1> DEFINE t == req[r].token
             found == t # NoToken /\ rows[t] # NoRow
  <1>1. /\ req[r] \in Request /\ Formed(r) /\ t \in Tokens \cup {NoToken}
        /\ UNCHANGED <<rows, accounts, jar, last>>
        /\ \A q \in Requests \ {r} : req'[q] = req[q]
    BY DEF TypeOK, RequestsAreFormed, Request, Load
  <1>2. /\ req[r].at = "sent"
        /\ req' = [req EXCEPT ![r] = req'[r]]
        /\ req'[r] = [req[r] EXCEPT
             !.at = "running",
             !.token = IF found THEN t ELSE NoToken,
             !.row = IF found THEN rows[t] ELSE NoRow,
             !.status = IF found THEN "modified" ELSE "clean"]
    BY DEF Load, TypeOK
  <1>3. found => t \in Tokens /\ rows[t] \in Row
    BY <1>1 DEF TypeOK
  <1>4. /\ req'[r].at = "running" /\ req'[r].shown = NoCsrf
        /\ req'[r].token = (IF found THEN t ELSE NoToken)
        /\ req'[r].row = (IF found THEN rows[t] ELSE NoRow)
        /\ req'[r].status = (IF found THEN "modified" ELSE "clean")
    BY <1>1, <1>2 DEF Request, Formed
  <1>5. TypeOK'
    <2>1. req'[r] \in Request
      <3> DEFINE row == IF found THEN rows[t] ELSE NoRow
                 tok == IF found THEN t ELSE NoToken
                 st == IF found THEN "modified" ELSE "clean"
      <3>1. row \in Row /\ tok \in Tokens \cup {NoToken} /\ st \in {"clean", "modified", "destroyed"}
        BY <1>3 DEF Row, NoRow
      <3>2. req'[r] = [req[r] EXCEPT !.at = "running", !.token = tok, !.row = row, !.status = st]
        BY <1>2
      <3> HIDE DEF row, tok, st
      <3> QED
        BY <1>1, <3>1, <3>2 DEF Request
    <2> QED
      BY <1>1, <1>2, <2>1 DEF TypeOK
  <1>6. Formed(r)'
    BY <1>1, <1>3, <1>4, SessionConstants
    DEF Formed, AtWork, StoredSessionsAreFormed, NoRow
  <1>7. SessionCopiesAgree'
    <2>1. req'[r].token # NoToken =>
            /\ req'[r].row = rows[req'[r].token]
            /\ \A q \in Requests \ {r} : AtWork(q) /\ req[q].token = req'[r].token =>
                 req[q].row = req'[r].row
      BY <1>3, <1>4 DEF SessionCopiesAgree
    <2>2. \A q \in Requests \ {r} : AtWork(q)' <=> AtWork(q)
      BY <1>1 DEF AtWork
    <2> SUFFICES ASSUME NEW q \in Requests, AtWork(q)', req'[q].token # NoToken
                 PROVE  /\ rows'[req'[q].token] \in {NoRow, req'[q].row}
                        /\ \A p \in Requests : AtWork(p)' /\ req'[p].token = req'[q].token =>
                             req'[p].row = req'[q].row
      BY DEF SessionCopiesAgree, AtWork
    <2>3. CASE q = r
      BY <1>1, <2>1, <2>2, <2>3
    <2>4. CASE q # r
      <3>1. req'[q] = req[q] /\ AtWork(q)
        BY <1>1, <2>2, <2>4
      <3>2. rows'[req'[q].token] \in {NoRow, req'[q].row}
        BY <1>1, <3>1 DEF SessionCopiesAgree
      <3>3. ASSUME NEW p \in Requests, AtWork(p)', req'[p].token = req'[q].token
            PROVE  req'[p].row = req'[q].row
        BY <1>1, <2>1, <2>2, <3>1, <3>3 DEF SessionCopiesAgree
      <3> QED
        BY <3>2, <3>3
    <2> QED
      BY <2>3, <2>4
  <1>8. PagesMatchSessions'
    <2> SUFFICES ASSUME NEW q \in Requests, req'[q].at = "done", req'[q].shown # NoCsrf
                 PROVE  /\ req'[q].set \in Tokens
                        /\ rows'[req'[q].set] # NoRow => rows'[req'[q].set].csrf = req'[q].shown
                        /\ \A p \in Requests : AtWork(p)' /\ req'[p].token = req'[q].set =>
                             req'[p].row.csrf = req'[q].shown
      BY DEF PagesMatchSessions, AtWork
    <2>1. req'[q] = req[q]
      BY <1>1, <1>4
    <2>2. /\ req[q].set \in Tokens
          /\ rows[req[q].set] # NoRow => rows[req[q].set].csrf = req[q].shown
          /\ \A p \in Requests : AtWork(p) /\ req[p].token = req[q].set =>
               req[p].row.csrf = req[q].shown
      BY <2>1 DEF PagesMatchSessions
    <2>3. req[q].set # NoToken
      BY <2>2, SessionConstants
    <2>4. ASSUME NEW p \in Requests, AtWork(p)', req'[p].token = req'[q].set
          PROVE  req'[p].row.csrf = req'[q].shown
      <3>1. CASE p = r
        BY <1>3, <1>4, <2>1, <2>2, <2>3, <2>4, <3>1
      <3>2. CASE p # r
        BY <1>1, <2>1, <2>2, <2>4, <3>2 DEF AtWork
      <3> QED
        BY <3>1, <3>2
    <2> QED
      BY <1>1, <2>1, <2>2, <2>4
  <1>9. RequestsAreFormed'
    BY <1>1, <1>6 DEF RequestsAreFormed, Formed, AtWork
  <1> QED
    BY <1>1, <1>5, <1>7, <1>8, <1>9 DEF StoredSessionsAreFormed

\* A new session: no row, request or answer has its token yet.
LEMMA SignInInv ==
  ASSUME IInv, NEW r \in Requests, SignIn(r)
  PROVE  IInv'
  <1> USE DEF IInv
  <1>1. PICK t \in Tokens, f \in Csrf :
          /\ FreshToken(t)
          /\ rows' = [rows EXCEPT ![req[r].token] = NoRow]
          /\ req' = [req EXCEPT ![r].at = "closing", ![r].turned = TRUE,
               ![r].token = t, ![r].row = [user |-> req[r].who, csrf |-> f]]
    BY DEF SignIn
  <1> DEFINE new == [user |-> req[r].who, csrf |-> f]
  <1>2. req[r].at = "vouched" /\ UNCHANGED <<accounts, jar, last>>
    BY DEF SignIn
  <1>3. req[r] \in Request /\ Formed(r)
    BY DEF TypeOK, RequestsAreFormed
  <1>4. /\ req[r].token \in Tokens /\ req[r].who \in accounts /\ req[r].shown = NoCsrf
        /\ req[r].status = "modified"
    BY <1>2, <1>3 DEF Formed, AtWork, Request
  <1>5. req'[r] = [req[r] EXCEPT !.at = "closing", !.turned = TRUE, !.token = t, !.row = new]
    BY <1>1 DEF TypeOK
  <1>6. /\ req'[r].at = "closing" /\ req'[r].token = t /\ req'[r].row = new
        /\ req'[r].shown = NoCsrf /\ req'[r].status = "modified" /\ req'[r] \in Request
    <2>1. new \in Row
      BY <1>4 DEF TypeOK, Row
    <2> HIDE DEF new
    <2> QED
      BY <1>3, <1>4, <1>5, <2>1 DEF Request
  <1>7. \A q \in Requests \ {r} : req'[q] = req[q]
    BY <1>1 DEF TypeOK
  <1>8. \A x \in Tokens : rows'[x] \in {NoRow, rows[x]}
    BY <1>1 DEF TypeOK
  <1>9. TypeOK'
    <2>1. req' = [req EXCEPT ![r] = req'[r]]
      BY <1>1 DEF TypeOK
    <2>2. rows' \in [Tokens -> Row]
      BY <1>1 DEF TypeOK, Row, NoRow
    <2> QED
      BY <1>2, <1>6, <2>1, <2>2 DEF TypeOK
  <1>10. rows[t] = NoRow /\ \A q \in Requests : req[q].token # t /\ req[q].set # t
    BY <1>1 DEF FreshToken
  <1>11. SessionCopiesAgree'
    <2> SUFFICES ASSUME NEW q \in Requests, AtWork(q)', req'[q].token # NoToken
                 PROVE  /\ rows'[req'[q].token] \in {NoRow, req'[q].row}
                        /\ \A p \in Requests : AtWork(p)' /\ req'[p].token = req'[q].token =>
                             req'[p].row = req'[q].row
      BY DEF SessionCopiesAgree, AtWork
    <2>1. CASE q = r
      BY <1>6, <1>7, <1>8, <1>10, <2>1
    <2>2. CASE q # r
      <3>1. req'[q] = req[q] /\ AtWork(q) /\ req[q].token \in Tokens /\ req[q].token # t
        BY <1>7, <1>10, <2>2 DEF AtWork, TypeOK, Request
      <3>2. rows'[req'[q].token] \in {NoRow, req'[q].row}
        BY <1>8, <3>1 DEF SessionCopiesAgree
      <3>3. ASSUME NEW p \in Requests, AtWork(p)', req'[p].token = req'[q].token
            PROVE  req'[p].row = req'[q].row
        <4>1. p # r
          BY <1>6, <3>1, <3>3
        <4> QED
          BY <1>7, <3>1, <3>3, <4>1 DEF SessionCopiesAgree, AtWork
      <3> QED
        BY <3>2, <3>3
    <2> QED
      BY <2>1, <2>2
  <1>12. PagesMatchSessions'
    <2> SUFFICES ASSUME NEW q \in Requests, req'[q].at = "done", req'[q].shown # NoCsrf
                 PROVE  /\ req'[q].set \in Tokens
                        /\ rows'[req'[q].set] # NoRow => rows'[req'[q].set].csrf = req'[q].shown
                        /\ \A p \in Requests : AtWork(p)' /\ req'[p].token = req'[q].set =>
                             req'[p].row.csrf = req'[q].shown
      BY DEF PagesMatchSessions, AtWork
    <2>1. req'[q] = req[q] /\ req[q].set # t
      BY <1>6, <1>7, <1>10
    <2>2. /\ req[q].set \in Tokens
          /\ rows[req[q].set] # NoRow => rows[req[q].set].csrf = req[q].shown
          /\ \A p \in Requests : AtWork(p) /\ req[p].token = req[q].set =>
               req[p].row.csrf = req[q].shown
      BY <2>1 DEF PagesMatchSessions
    <2>3. \A p \in Requests : AtWork(p)' /\ req'[p].token = req'[q].set =>
            req'[p].row.csrf = req'[q].shown
      BY <1>6, <1>7, <2>1, <2>2 DEF AtWork
    <2> QED
      BY <1>8, <2>1, <2>2, <2>3
  <1>13. RequestsAreFormed'
    <2> SUFFICES ASSUME NEW q \in Requests PROVE Formed(q)'
      BY DEF RequestsAreFormed
    <2>1. CASE q = r
      BY <1>2, <1>4, <1>6, <2>1, SessionConstants DEF Formed, AtWork
    <2>2. CASE q # r
      BY <1>2, <1>7, <2>2 DEF RequestsAreFormed, Formed, AtWork
    <2> QED
      BY <2>1, <2>2
  <1>14. StoredSessionsAreFormed'
    BY <1>2, <1>8 DEF StoredSessionsAreFormed
  <1> QED
    BY <1>9, <1>11, <1>12, <1>13, <1>14

\* The upsert writes what every other copy of the session says already, or a session
\* that is new.
LEMMA StoreInv ==
  ASSUME IInv, NEW r \in Requests, Store(r)
  PROVE  IInv'
  <1> USE DEF IInv
  <1>1. PICK t \in Tokens :
          /\ IF req[r].token = NoToken THEN FreshToken(t) ELSE t = req[r].token
          /\ rows' = [rows EXCEPT ![t] = req[r].row]
          /\ req' = [req EXCEPT ![r] = Answer(req[r], t, req[r].shown, req[r].turned)]
    BY DEF Store
  <1>2. /\ req[r].at = "closing" /\ req[r].status = "modified"
        /\ UNCHANGED <<accounts, jar, last>>
    BY DEF Store
  <1>3. req[r] \in Request /\ Formed(r) /\ AtWork(r)
    BY <1>2 DEF TypeOK, RequestsAreFormed, AtWork
  <1>4. /\ req[r].row \in Row /\ req[r].row.csrf # NoCsrf
        /\ req[r].row.user \in accounts \cup {NoUser}
        /\ req[r].shown # NoCsrf => req[r].shown = req[r].row.csrf
    BY <1>2, <1>3 DEF Formed, Request
  <1>5. /\ req'[r] \in Request /\ req'[r].at \in {"idle", "done"}
        /\ req'[r].shown \in {NoCsrf, req[r].shown}
        /\ req'[r].at = "idle" => req'[r].shown = NoCsrf
        /\ req'[r].at = "done" => req'[r].set = t
    <2>1. req'[r] = Answer(req[r], t, req[r].shown, req[r].turned)
      BY <1>1 DEF TypeOK
    <2>2. req[r].shown \in Csrf \cup {NoCsrf} /\ req[r].turned \in BOOLEAN
      BY <1>3 DEF Request
    <2> QED
      BY <1>3, <2>1, <2>2, AnswerTyped
  <1>6. \A q \in Requests \ {r} : req'[q] = req[q]
    BY <1>1 DEF TypeOK
  <1>7. rows'[t] = req[r].row /\ \A x \in Tokens \ {t} : rows'[x] = rows[x]
    BY <1>1 DEF TypeOK
  <1>8. TypeOK'
    <2>1. req' = [req EXCEPT ![r] = req'[r]]
      BY <1>1 DEF TypeOK
    <2> QED
      BY <1>1, <1>2, <1>4, <1>5, <2>1 DEF TypeOK
  \* Whoever else has a copy of the session has the same one.
  <1>9. \A q \in Requests : AtWork(q) /\ req[q].token = t => req[q].row = req[r].row
    <2>1. CASE req[r].token = NoToken
      BY <1>1, <2>1 DEF FreshToken
    <2>2. CASE req[r].token # NoToken
      BY <1>1, <1>3, <2>2 DEF SessionCopiesAgree
    <2> QED
      BY <2>1, <2>2
  \* So have the pages that came with it.
  <1>10. \A q \in Requests : req[q].at = "done" /\ req[q].shown # NoCsrf /\ req[q].set = t =>
           req[q].shown = req[r].row.csrf
    <2>1. CASE req[r].token = NoToken
      BY <1>1, <2>1 DEF FreshToken
    <2>2. CASE req[r].token # NoToken
      BY <1>1, <1>3, <2>2 DEF PagesMatchSessions
    <2> QED
      BY <2>1, <2>2
  <1>11. \A q \in Requests : AtWork(q)' => q # r /\ AtWork(q) /\ req'[q] = req[q]
    BY <1>5, <1>6 DEF AtWork
  <1>12. SessionCopiesAgree'
    <2> SUFFICES ASSUME NEW q \in Requests, AtWork(q)', req'[q].token # NoToken
                 PROVE  /\ rows'[req'[q].token] \in {NoRow, req'[q].row}
                        /\ \A p \in Requests : AtWork(p)' /\ req'[p].token = req'[q].token =>
                             req'[p].row = req'[q].row
      BY DEF SessionCopiesAgree, AtWork
    <2>1. AtWork(q) /\ req'[q] = req[q] /\ req[q].token \in Tokens
      BY <1>11 DEF TypeOK, Request
    <2>2. rows'[req[q].token] \in {NoRow, req[q].row}
      BY <1>7, <1>9, <2>1 DEF SessionCopiesAgree
    <2> QED
      BY <1>11, <2>1, <2>2 DEF SessionCopiesAgree
  <1>13. PagesMatchSessions'
    <2> SUFFICES ASSUME NEW q \in Requests, req'[q].at = "done", req'[q].shown # NoCsrf
                 PROVE  /\ req'[q].set \in Tokens
                        /\ rows'[req'[q].set] # NoRow => rows'[req'[q].set].csrf = req'[q].shown
                        /\ \A p \in Requests : AtWork(p)' /\ req'[p].token = req'[q].set =>
                             req'[p].row.csrf = req'[q].shown
      BY DEF PagesMatchSessions, AtWork
    <2>1. CASE q = r
      <3>1. req'[q].set = t /\ req'[q].shown = req[r].row.csrf
        BY <1>4, <1>5, <2>1
      <3> QED
        BY <1>7, <1>9, <1>11, <3>1
    <2>2. CASE q # r
      <3>1. req'[q] = req[q]
        BY <1>6, <2>2
      <3>2. /\ req[q].set \in Tokens
            /\ rows[req[q].set] # NoRow => rows[req[q].set].csrf = req[q].shown
            /\ \A p \in Requests : AtWork(p) /\ req[p].token = req[q].set =>
                 req[p].row.csrf = req[q].shown
        BY <3>1 DEF PagesMatchSessions
      <3>3. rows'[req[q].set] # NoRow => rows'[req[q].set].csrf = req[q].shown
        BY <1>7, <1>10, <3>1, <3>2
      <3> QED
        BY <1>11, <3>1, <3>2, <3>3
    <2> QED
      BY <2>1, <2>2
  <1>14. RequestsAreFormed'
    <2> SUFFICES ASSUME NEW q \in Requests PROVE Formed(q)'
      BY DEF RequestsAreFormed
    <2>1. CASE q = r
      BY <1>5, <2>1 DEF Formed, AtWork
    <2>2. CASE q # r
      BY <1>2, <1>6, <2>2 DEF RequestsAreFormed, Formed, AtWork
    <2> QED
      BY <2>1, <2>2
  <1>15. StoredSessionsAreFormed'
    BY <1>2, <1>4, <1>7 DEF StoredSessionsAreFormed
  <1> QED
    BY <1>8, <1>12, <1>13, <1>14, <1>15

\* A row that is gone is no copy any more.
LEMMA ExpireInv ==
  ASSUME IInv, NEW t \in Tokens, Expire(t)
  PROVE  IInv'
  <1> USE DEF IInv
  <1>1. /\ rows' = [rows EXCEPT ![t] = NoRow] /\ UNCHANGED <<accounts, req, jar>>
        /\ last' = [b \in Browsers |->
             IF jar[b] = t /\ last[b] \in Users THEN Unknown ELSE last[b]]
    BY DEF Expire
  <1>2. \A x \in Tokens : rows'[x] \in {NoRow, rows[x]}
    BY <1>1 DEF TypeOK
  <1>3. TypeOK'
    BY <1>1 DEF TypeOK, Row, NoRow
  <1>4. SessionCopiesAgree'
    BY <1>1, <1>2 DEF SessionCopiesAgree, AtWork, TypeOK, Request
  <1>5. PagesMatchSessions'
    BY <1>1, <1>2 DEF PagesMatchSessions, AtWork
  <1>6. RequestsAreFormed' /\ StoredSessionsAreFormed'
    BY <1>1, <1>2 DEF RequestsAreFormed, Formed, AtWork, StoredSessionsAreFormed
  <1> QED
    BY <1>3, <1>4, <1>5, <1>6

LEMMA NextInv == IInv /\ [Next]_vars => IInv'
  <1> SUFFICES ASSUME IInv, [Next]_vars PROVE IInv'
    OBVIOUS
  <1>1. ASSUME NEW r \in Requests, Asking(r) PROVE IInv'
    BY <1>1, SendInv DEF Asking
  <1>2. ASSUME NEW r \in Requests, Handling(r) PROVE IInv'
    BY <1>2, LoadInv, ShowFormInv, ShowPageInv, RefuseInv, AuthenticateInv, RegisterInv,
       SignInInv, SignOutInv, StoreInv, CloseInv, FailInv DEF Handling
  <1>3. ASSUME NEW r \in Requests, Answering(r) PROVE IInv'
    BY <1>3, ArriveInv, AbandonInv DEF Answering
  <1>4. ASSUME NEW t \in Tokens, Expire(t) PROVE IInv'
    BY <1>4, ExpireInv
  <1>5. CASE UNCHANGED vars
    BY <1>5 DEF vars, IInv, TypeOK, SessionCopiesAgree, PagesMatchSessions, RequestsAreFormed,
       Formed, AtWork, StoredSessionsAreFormed
  <1> QED
    BY <1>1, <1>2, <1>3, <1>4, <1>5 DEF Next
-----------------------------------------------------------------------------
(***************************************************************************)
(* SignInsLast                                                             *)
(***************************************************************************)
LEMMA SignInit == Init => SignIInv
  <1> SUFFICES ASSUME Init PROVE SignIInv
    OBVIOUS
  <1>1. /\ \A r \in Requests : req[r] = NoRequest
        /\ \A b \in Browsers : jar[b] = NoToken /\ last[b] = NoUser
    BY DEF Init
  <1>2. \A b \in Browsers : InFlight(b) = {} /\ Known(b) = {}
    <2> SUFFICES ASSUME NEW b \in Browsers PROVE InFlight(b) = {} /\ Known(b) = {}
      OBVIOUS
    <2>1. b # NoBrowser /\ NoToken \notin Tokens
      BY SessionConstants
    <2>2. InFlight(b) = {}
      BY <1>1, <2>1 DEF InFlight, NoRequest
    <2> QED
      BY <1>1, <2>1, <2>2 DEF Known
  <1>3. TurnsAreFormed
    <2>1. /\ NoRequest.at = "idle" /\ NoRequest.set = Keep /\ NoRequest.kind = "page"
          /\ NoRequest.status = "clean" /\ ~NoRequest.turned
      BY DEF NoRequest
    <2> QED
      BY <1>1, <2>1 DEF TurnsAreFormed, TurnFormed, AtWork
  <1>4. NewSessionsAreUnknown
    BY <1>1 DEF NewSessionsAreUnknown, NoRequest
  <1>5. TokensAreOwned /\ TurnsRunAlone
    BY <1>2 DEF TokensAreOwned, TurnsRunAlone
  <1>6. SettledSessionsAgree
    BY <1>1, <1>2 DEF SettledSessionsAgree, Settled, UserOf
  <1> QED
    BY <1>3, <1>4, <1>5, <1>6 DEF SignIInv

\* A step of request r that neither signs in or out nor makes a token: r keeps what it
\* knows or forgets it, whom it signed in included, unless the browser forgets too, and
\* writes no row but that of its session.
LEMMA QuietStep ==
  ASSUME IInv, TypeOK', SignIInv, NEW r \in Requests,
         \A q \in Requests \ {r} : req'[q] = req[q],
         UNCHANGED jar,
         \A b \in Browsers : last'[b] \in {last[b], Unknown},
         \A t \in Tokens : rows'[t] # rows[t] =>
           AtWork(r) /\ t = req[r].token /\ rows'[t].user = req[r].row.user,
         TurnFormed(r)',
         req'[r].by \in {req[r].by, NoBrowser},
         {req'[r].token, req'[r].set} \cap Tokens \subseteq {req[r].token, req[r].set},
         req'[r].turned => req[r].turned,
         req[r].turned /\ req[r].by # NoBrowser =>
           (req'[r].turned /\ req'[r].by = req[r].by) \/ last'[req[r].by] = Unknown,
         req'[r].by # NoBrowser => req'[r].kind = req[r].kind,
         req'[r].by = NoBrowser /\ req'[r].kind \in Turning /\ ~req'[r].turned =>
           /\ req[r].kind \in Turning /\ ~req[r].turned
           /\ req'[r].token \in {req[r].token, NoToken}
           /\ req[r].by = NoBrowser \/ last'[req[r].by] = Unknown,
         AtWork(r)' /\ req'[r].token # NoToken =>
           /\ req'[r].token = req[r].token
           /\ req'[r].row.user = IF AtWork(r) THEN req[r].row.user ELSE rows[req[r].token].user,
         req'[r].by # NoBrowser /\ req'[r].at # "done" /\ req'[r].token = NoToken =>
           req[r].at # "done" /\ (req[r].token # NoToken => rows[req[r].token].user = NoUser)
  PROVE  SignIInv'
  <1> USE DEF SignIInv
  <1>1. \A b \in Browsers : last'[b] # Unknown => last[b] # Unknown /\ last'[b] = last[b]
    OBVIOUS
  <1>2. \A b \in Browsers : b # NoBrowser /\ InFlight(b)' \subseteq InFlight(b)
    BY SessionConstants DEF InFlight
  <1>3. \A b \in Browsers : Known(b)' \subseteq Known(b)
    <2> SUFFICES ASSUME NEW b \in Browsers, NEW t \in Tokens, t # jar[b],
                        NEW q \in InFlight(b)', t \in {req'[q].token, req'[q].set}
                 PROVE  \E p \in InFlight(b) : t \in {req[p].token, req[p].set}
      BY DEF Known
    <2>1. q \in InFlight(b) /\ q \in Requests
      BY <1>2 DEF InFlight
    <2>2. t \in {req[q].token, req[q].set}
      BY <2>1
    <2> QED
      BY <2>1, <2>2
  <1>4. TurnsAreFormed'
    <2> SUFFICES ASSUME NEW q \in Requests \ {r} PROVE TurnFormed(q)'
      BY DEF TurnsAreFormed
    <2>1. req'[q] = req[q] /\ TurnFormed(q) /\ (AtWork(q)' <=> AtWork(q))
      BY DEF TurnsAreFormed, AtWork
    <2>2. req[q].turned /\ req[q].set \in Tokens => rows'[req[q].set] = rows[req[q].set]
      BY DEF NewSessionsAreUnknown
    <2>3. req[q].set \in Tokens \cup {NoToken, Keep}
      BY DEF IInv, TypeOK, Request
    <2> QED
      BY <2>1, <2>2, <2>3 DEF TurnFormed, AtWork
  <1>5. NewSessionsAreUnknown'
    <2> SUFFICES ASSUME NEW q \in Requests, req'[q].turned,
                        NEW t \in Tokens, t \in {req'[q].token, req'[q].set}
                 PROVE  /\ \A b \in Browsers : jar'[b] # t
                        /\ \A p \in Requests \ {q} : t \notin {req'[p].token, req'[p].set}
      BY DEF NewSessionsAreUnknown
    <2>1. req[q].turned /\ t \in {req[q].token, req[q].set}
      OBVIOUS
    <2>2. /\ \A b \in Browsers : jar[b] # t
          /\ \A p \in Requests \ {q} : t \notin {req[p].token, req[p].set}
      BY <2>1 DEF NewSessionsAreUnknown
    <2> QED
      BY <2>2
  <1>6. TokensAreOwned'
    BY <1>3 DEF TokensAreOwned
  <1>7. TurnsRunAlone'
    <2> SUFFICES ASSUME NEW b \in Browsers, last'[b] # Unknown
                 PROVE  /\ \A q \in InFlight(b)' : req'[q].kind \in Turning => InFlight(b)' = {q}
                        /\ \A p \in Requests :
                             req'[p].by = NoBrowser /\ req'[p].kind \in Turning /\ ~req'[p].turned
                               => req'[p].token \notin Known(b)'
      BY DEF TurnsRunAlone
    <2>1. ASSUME NEW q \in InFlight(b)', req'[q].kind \in Turning PROVE InFlight(b)' = {q}
      <3>1. q \in InFlight(b) /\ q \in Requests /\ req'[q].by = b
        BY <1>2, <2>1 DEF InFlight
      <3>2. req[q].kind \in Turning
        BY <1>2, <2>1, <3>1
      <3>3. InFlight(b) = {q}
        BY <1>1, <3>1, <3>2 DEF TurnsRunAlone
      <3> QED
        BY <1>2, <2>1, <3>3
    <2>2. ASSUME NEW p \in Requests,
                 req'[p].by = NoBrowser, req'[p].kind \in Turning, ~req'[p].turned,
                 req'[p].token \in Known(b)'
          PROVE  FALSE
      <3>1. req'[p].token \in Known(b) /\ req'[p].token \in Tokens /\ req'[p].token # NoToken
        BY <1>3, <2>2, SessionConstants DEF Known
      <3>2. req[p].kind \in Turning /\ ~req[p].turned /\ req'[p].token = req[p].token
        BY <2>2, <3>1
      <3>3. CASE req[p].by = NoBrowser
        BY <1>1, <3>1, <3>2, <3>3 DEF TurnsRunAlone
      <3>4. CASE req[p].by # NoBrowser
        <4> DEFINE c == req[p].by
        <4>1. p = r /\ last'[c] = Unknown
          BY <2>2, <3>4
        <4>2. c \in Browsers /\ p \in InFlight(c)
          BY <3>4 DEF IInv, TypeOK, Request, InFlight
        <4>3. c # b /\ req[p].token \in Known(c)
          BY <3>1, <3>2, <4>1, <4>2 DEF Known
        <4> QED
          BY <3>1, <3>2, <4>2, <4>3 DEF TokensAreOwned
      <3> QED
        BY <3>3, <3>4
    <2> QED
      BY <2>1, <2>2
  <1>8. SettledSessionsAgree'
    <2> SUFFICES ASSUME NEW b \in Browsers, Settled(b)'
                 PROVE  /\ UserOf(jar[b])' = last'[b]
                        /\ \A t \in Known(b)' :
                             /\ rows'[t].user = last'[b]
                             /\ \A p \in Requests : AtWork(p)' /\ req'[p].token = t
                                  => req'[p].row.user = last'[b]
                        /\ \A q \in InFlight(b)' : req'[q].at # "done" /\ req'[q].token = NoToken
                             => last'[b] = NoUser
                        /\ last'[b] # NoUser => Known(b)' \subseteq {jar'[b]}
      BY DEF SettledSessionsAgree, AtWork
    <2>1. last'[b] = last[b] /\ last[b] # Unknown
      BY DEF Settled
    <2>2. Settled(b)
      <3> SUFFICES ASSUME NEW q \in InFlight(b), req[q].turned PROVE FALSE
        BY <2>1 DEF Settled
      <3>1. q \in Requests /\ req[q].by = b /\ b # NoBrowser
        BY <1>2 DEF InFlight
      <3>2. req'[q].turned /\ req'[q].by = b
        BY <2>1, <3>1 DEF Settled
      <3> QED
        BY <3>1, <3>2 DEF Settled, InFlight
    <2>3. /\ UserOf(jar[b]) = last[b]
          /\ \A t \in Known(b) :
               /\ rows[t].user = last[b]
               /\ \A p \in Requests : AtWork(p) /\ req[p].token = t => req[p].row.user = last[b]
          /\ \A q \in InFlight(b) : req[q].at # "done" /\ req[q].token = NoToken => last[b] = NoUser
          /\ last[b] # NoUser => Known(b) \subseteq {jar[b]}
      BY <2>2 DEF SettledSessionsAgree
    <2>4. ASSUME NEW t \in Known(b) PROVE rows'[t].user = last[b]
      <3>1. t \in Tokens /\ rows[t].user = last[b]
        BY <2>3 DEF Known
      <3> QED
        BY <2>3, <3>1
    <2>5. UserOf(jar[b])' = last'[b]
      <3>1. CASE jar[b] = NoToken
        BY <2>1, <2>3, <3>1 DEF UserOf
      <3>2. CASE jar[b] # NoToken
        <4>1. jar[b] \in Known(b)
          BY <3>2 DEF IInv, TypeOK, Known
        <4> QED
          BY <2>1, <2>4, <3>2, <4>1 DEF UserOf
      <3> QED
        BY <3>1, <3>2
    <2>6. ASSUME NEW t \in Known(b)', NEW p \in Requests, AtWork(p)', req'[p].token = t
          PROVE  req'[p].row.user = last[b]
      <3>1. t \in Known(b) /\ t \in Tokens /\ t # NoToken
        BY <1>3, SessionConstants DEF Known
      <3>2. CASE p = r
        BY <2>3, <2>6, <3>1, <3>2
      <3>3. CASE p # r
        BY <2>3, <2>6, <3>1, <3>3 DEF AtWork
      <3> QED
        BY <3>2, <3>3
    <2>7. ASSUME NEW q \in InFlight(b)', req'[q].at # "done", req'[q].token = NoToken
          PROVE  last[b] = NoUser
      <3>1. q \in InFlight(b) /\ q \in Requests /\ req'[q].by = b /\ b # NoBrowser
        BY <1>2 DEF InFlight
      <3>2. CASE q # r
        BY <2>3, <2>7, <3>1, <3>2
      <3>3. CASE q = r /\ req[r].token = NoToken
        BY <2>3, <2>7, <3>1, <3>3
      <3>4. CASE q = r /\ req[r].token # NoToken
        <4>1. req[r].at # "done" /\ rows[req[r].token].user = NoUser
          BY <2>7, <3>1, <3>4
        <4>2. req[r].token \in Known(b)
          BY <3>1, <3>4 DEF IInv, TypeOK, Request, Known
        <4> QED
          BY <2>3, <4>1, <4>2
      <3> QED
        BY <3>2, <3>3, <3>4
    <2> QED
      BY <1>3, <2>1, <2>3, <2>4, <2>5, <2>6, <2>7
  <1> QED
    BY <1>4, <1>5, <1>6, <1>7, <1>8

\* A step of the handler that keeps the session it works on.
LEMMA StayStep ==
  ASSUME IInv, TypeOK', SignIInv, NEW r \in Requests,
         \A q \in Requests \ {r} : req'[q] = req[q],
         UNCHANGED <<rows, jar, last>>,
         req[r].at \in {"running", "vouched"}, req'[r].at \in {"vouched", "closing"},
         req'[r].kind = req[r].kind, req'[r].by = req[r].by, req'[r].token = req[r].token,
         req'[r].set = req[r].set, req'[r].turned = req[r].turned,
         req'[r].row.user = req[r].row.user, req'[r].who \in {req[r].who, NoUser},
         req'[r].status \in {req[r].status, "modified"},
         req'[r].at = "vouched" => req'[r].kind \in Turning
  PROVE  SignIInv'
  <1>1. TurnFormed(r) /\ AtWork(r)
    BY DEF SignIInv, TurnsAreFormed, AtWork
  <1>2. ~req[r].turned
    BY <1>1 DEF TurnFormed
  <1>3. TurnFormed(r)'
    BY <1>1, <1>2 DEF TurnFormed, AtWork
  <1>4. /\ req[r].at # "done" /\ ~req'[r].turned
        /\ req'[r].kind \in Turning => req[r].kind \in Turning
        /\ {req'[r].token, req'[r].set} \cap Tokens \subseteq {req[r].token, req[r].set}
    BY <1>2
  <1>5. req'[r].row.user = IF AtWork(r) THEN req[r].row.user ELSE rows[req[r].token].user
    BY <1>1
  <1>6. \A b \in Browsers : last'[b] \in {last[b], Unknown}
    OBVIOUS
  <1>7. \A t \in Tokens : rows'[t] = rows[t]
    OBVIOUS
  <1>8. req'[r].by = NoBrowser => req[r].by = NoBrowser
    OBVIOUS
  <1>9. req'[r].token = NoToken => req[r].token = NoToken
    OBVIOUS
  <1> QED
    BY <1>2, <1>3, <1>4, <1>5, <1>6, <1>7, <1>8, <1>9, QuietStep

LEMMA ShowFormSign ==
  ASSUME IInv, IInv', SignIInv, NEW r \in Requests, ShowForm(r)
  PROVE  SignIInv'
  <1>1. TypeOK /\ TypeOK' /\ req[r] \in Request
    BY DEF IInv, TypeOK
  <1>2. /\ req[r].at = "running" /\ UNCHANGED <<rows, jar, last>>
        /\ \A q \in Requests \ {r} : req'[q] = req[q]
    BY <1>1 DEF ShowForm, TypeOK
  <1>3. /\ req'[r].at = "closing" /\ req'[r].kind = req[r].kind /\ req'[r].by = req[r].by
        /\ req'[r].token = req[r].token /\ req'[r].set = req[r].set
        /\ req'[r].turned = req[r].turned /\ req'[r].who = req[r].who
        /\ req'[r].status = "modified"
    BY <1>1 DEF ShowForm, TypeOK, Request
  <1>4. req'[r].row.user = req[r].row.user
    BY <1>1 DEF ShowForm, TypeOK, Request, Row
  <1> QED
    BY <1>1, <1>2, <1>3, <1>4, StayStep

LEMMA ShowPageSign ==
  ASSUME IInv, IInv', SignIInv, NEW r \in Requests, ShowPage(r)
  PROVE  SignIInv'
  <1>1. TypeOK /\ TypeOK' /\ req[r] \in Request
    BY DEF IInv, TypeOK
  <1>2. /\ req[r].at = "running" /\ UNCHANGED <<rows, jar, last>>
        /\ \A q \in Requests \ {r} : req'[q] = req[q]
    BY <1>1 DEF ShowPage, TypeOK
  <1>3. /\ req'[r].at = "closing" /\ req'[r].kind = req[r].kind /\ req'[r].by = req[r].by
        /\ req'[r].token = req[r].token /\ req'[r].set = req[r].set /\ req'[r].row = req[r].row
        /\ req'[r].turned = req[r].turned /\ req'[r].who = req[r].who
        /\ req'[r].status = req[r].status
    BY <1>1 DEF ShowPage, TypeOK, Request
  <1> QED
    BY <1>1, <1>2, <1>3, StayStep

LEMMA RefuseSign ==
  ASSUME IInv, IInv', SignIInv, NEW r \in Requests, Refuse(r)
  PROVE  SignIInv'
  <1>1. TypeOK /\ TypeOK' /\ req[r] \in Request
    BY DEF IInv, TypeOK
  <1>2. /\ req[r].at \in {"running", "vouched"} /\ UNCHANGED <<rows, jar, last>>
        /\ \A q \in Requests \ {r} : req'[q] = req[q]
    BY <1>1 DEF Refuse, TypeOK
  <1>3. /\ req'[r].at = "closing" /\ req'[r].kind = req[r].kind /\ req'[r].by = req[r].by
        /\ req'[r].token = req[r].token /\ req'[r].set = req[r].set /\ req'[r].row = req[r].row
        /\ req'[r].turned = req[r].turned /\ req'[r].who = NoUser
        /\ req'[r].status = req[r].status
    BY <1>1 DEF Refuse, TypeOK, Request
  <1> QED
    BY <1>1, <1>2, <1>3, StayStep

LEMMA VouchSign ==
  ASSUME IInv, IInv', SignIInv, NEW r \in Requests, Authenticate(r) \/ Register(r)
  PROVE  SignIInv'
  <1>1. TypeOK /\ TypeOK' /\ req[r] \in Request
    BY DEF IInv, TypeOK
  <1>2. /\ req[r].at = "running" /\ UNCHANGED <<rows, jar, last>>
        /\ \A q \in Requests \ {r} : req'[q] = req[q]
    BY <1>1 DEF Authenticate, Register, TypeOK
  <1>3. /\ req'[r].at = "vouched" /\ req'[r].kind = req[r].kind /\ req'[r].by = req[r].by
        /\ req'[r].token = req[r].token /\ req'[r].set = req[r].set /\ req'[r].row = req[r].row
        /\ req'[r].turned = req[r].turned /\ req'[r].who = req[r].who
        /\ req'[r].status = req[r].status /\ req'[r].kind \in Turning
    BY <1>1 DEF Authenticate, Register, TypeOK, Request, Turning
  <1> QED
    BY <1>1, <1>2, <1>3, StayStep

\* A session that has gone is one of nobody: who asked with it is nobody, too.
LEMMA LoadSign ==
  ASSUME IInv, IInv', SignIInv, NEW r \in Requests, Load(r)
  PROVE  SignIInv'
  <1> DEFINE t == req[r].token
             found == t # NoToken /\ rows[t] # NoRow
  <1>1. TypeOK /\ TypeOK' /\ req[r] \in Request /\ TurnFormed(r)
    BY DEF IInv, TypeOK, SignIInv, TurnsAreFormed
  <1>2. /\ req[r].at = "sent" /\ ~req[r].turned /\ req[r].status # "destroyed"
        /\ UNCHANGED <<rows, jar, last>>
        /\ \A q \in Requests \ {r} : req'[q] = req[q]
    BY <1>1 DEF Load, TypeOK, TurnFormed
  <1>3. req'[r] = [req[r] EXCEPT
             !.at = "running",
             !.token = IF found THEN t ELSE NoToken,
             !.row = IF found THEN rows[t] ELSE NoRow,
             !.status = IF found THEN "modified" ELSE "clean"]
    BY <1>1 DEF Load, TypeOK
  <1>4. /\ req'[r].at = "running" /\ req'[r].kind = req[r].kind /\ req'[r].by = req[r].by
        /\ req'[r].set = req[r].set /\ req'[r].turned = req[r].turned
        /\ req'[r].who = req[r].who
        /\ req'[r].token = (IF found THEN t ELSE NoToken)
        /\ req'[r].row = (IF found THEN rows[t] ELSE NoRow)
        /\ req'[r].status = (IF found THEN "modified" ELSE "clean")
    BY <1>1, <1>3 DEF Request
  <1>5. TurnFormed(r)'
    BY <1>1, <1>2, <1>4 DEF TurnFormed, AtWork, NoRow
  <1>6. req'[r].token \in {t, NoToken}
    BY <1>4
  <1>7. {req'[r].token, req'[r].set} \cap Tokens \subseteq {req[r].token, req[r].set}
    BY <1>4, <1>6, SessionConstants
  <1>8. req'[r].token # NoToken =>
           /\ req'[r].token = req[r].token
           /\ req'[r].row.user = rows[req[r].token].user
    BY <1>4
  <1>9. req'[r].token = NoToken /\ req[r].token # NoToken => rows[req[r].token].user = NoUser
    BY <1>4 DEF NoRow
  <1>10. \A b \in Browsers : last'[b] \in {last[b], Unknown}
    BY <1>2
  <1>11. \A x \in Tokens : rows'[x] = rows[x]
    BY <1>2
  <1>12. ~AtWork(r)
    BY <1>2 DEF AtWork
  <1> HIDE DEF found, t
  <1> QED
    BY <1>1, <1>2, <1>4, <1>5, <1>6, <1>7, <1>8, <1>9, <1>10, <1>11, <1>12, QuietStep
LEMMA NoRequestFields ==
  /\ NoRequest.at = "idle" /\ NoRequest.kind = "page" /\ NoRequest.by = NoBrowser
  /\ NoRequest.who = NoUser /\ NoRequest.token = NoToken /\ NoRequest.status = "clean"
  /\ NoRequest.set = Keep /\ ~NoRequest.turned
  BY DEF NoRequest

LEMMA AnswerFields ==
  ASSUME NEW q \in Request, NEW set \in Tokens \cup {NoToken, Keep},
         NEW shown \in Csrf \cup {NoCsrf}, NEW turned \in BOOLEAN,
         NEW a, a = Answer(q, set, shown, turned)
  PROVE  /\ q.by = NoBrowser => a = NoRequest
         /\ q.by # NoBrowser =>
              /\ a.at = "done" /\ a.kind = q.kind /\ a.by = q.by /\ a.token = NoToken
              /\ a.who = (IF turned THEN q.who ELSE NoUser) /\ a.status = "clean"
              /\ a.set = set /\ a.turned = turned
  BY DEF Answer, NoRequest

\* A step that answers request r, or ends it if nobody waits.
LEMMA AnswerStep ==
  ASSUME IInv, TypeOK', SignIInv, NEW r \in Requests,
         NEW set \in {NoToken, Keep, req[r].token},
         NEW shown \in Csrf \cup {NoCsrf}, NEW turned \in BOOLEAN,
         req'[r] = Answer(req[r], set, shown, turned),
         \A q \in Requests \ {r} : req'[q] = req[q],
         UNCHANGED jar,
         \A b \in Browsers : last'[b] \in {last[b], Unknown},
         \A t \in Tokens : rows'[t] # rows[t] =>
           AtWork(r) /\ t = req[r].token /\ rows'[t].user = req[r].row.user,
         turned => req[r].turned,
         req[r].turned /\ req[r].by # NoBrowser => turned \/ last'[req[r].by] = Unknown,
         turned => /\ set # Keep
                   /\ set = NoToken => req[r].who = NoUser
                   /\ set # NoToken => rows'[set].user = req[r].who,
         ~turned => set # NoToken
  PROVE  SignIInv'
  <1>1. req[r] \in Request /\ TurnFormed(r) /\ set \in Tokens \cup {NoToken, Keep}
    <2>1. req[r] \in Request /\ req[r].token \in Tokens \cup {NoToken}
      BY DEF IInv, TypeOK, Request
    <2> QED
      BY <2>1 DEF SignIInv, TurnsAreFormed
  <1>2. /\ req[r].by = NoBrowser => req'[r] = NoRequest
        /\ req[r].by # NoBrowser =>
              /\ req'[r].at = "done" /\ req'[r].kind = req[r].kind /\ req'[r].by = req[r].by
              /\ req'[r].token = NoToken
              /\ req'[r].who = (IF turned THEN req[r].who ELSE NoUser)
              /\ req'[r].status = "clean" /\ req'[r].set = set /\ req'[r].turned = turned
    BY <1>1, AnswerFields
  <1>3. TurnFormed(r)'
    <2>1. CASE req[r].by = NoBrowser
      BY <1>2, <2>1, NoRequestFields DEF TurnFormed, AtWork
    <2>2. CASE req[r].by # NoBrowser
      BY <1>1, <1>2, <2>2 DEF TurnFormed, AtWork
    <2> QED
      BY <2>1, <2>2
  <1>4. req'[r].token = NoToken /\ req'[r].set \in {Keep, set} /\ ~AtWork(r)'
    BY <1>2, NoRequestFields DEF AtWork
  <1>5. {req'[r].token, req'[r].set} \cap Tokens \subseteq {req[r].token, req[r].set}
    BY <1>4, SessionConstants
  <1>6. req'[r].by = req[r].by
    BY <1>2, NoRequestFields
  <1>7. /\ req'[r].turned => req[r].turned
        /\ req[r].turned /\ req[r].by # NoBrowser =>
             req'[r].turned \/ last'[req[r].by] = Unknown
    BY <1>2, NoRequestFields
  <1>8. /\ req'[r].by # NoBrowser => req'[r].at = "done" /\ req'[r].kind = req[r].kind
        /\ req'[r].by = NoBrowser => req'[r].kind \notin Turning
    BY <1>2, <1>6, NoRequestFields DEF Turning
  <1> QED
    BY <1>3, <1>4, <1>5, <1>6, <1>7, <1>8, QuietStep

\* A sign-out that is answered clears the cookie, and nothing else does.
LEMMA CloseSign ==
  ASSUME IInv, IInv', SignIInv, NEW r \in Requests, Close(r)
  PROVE  SignIInv'
  <1> DEFINE set == IF req[r].status = "destroyed" THEN NoToken ELSE Keep
  <1>1. /\ TypeOK /\ TypeOK' /\ req[r] \in Request /\ Formed(r) /\ TurnFormed(r)
        /\ req[r].shown \in Csrf \cup {NoCsrf} /\ req[r].turned \in BOOLEAN
    BY DEF IInv, TypeOK, Request, RequestsAreFormed, SignIInv, TurnsAreFormed
  <1>2. /\ req[r].at = "closing" /\ req[r].status # "modified" /\ UNCHANGED <<rows, jar, last>>
        /\ req'[r] = Answer(req[r], set, req[r].shown, req[r].turned)
        /\ \A q \in Requests \ {r} : req'[q] = req[q]
    BY <1>1 DEF Close, TypeOK
  <1>3. req[r].token = NoToken
    BY <1>1, <1>2 DEF Formed, AtWork
  <1>4. req[r].turned <=> req[r].status = "destroyed"
    BY <1>1, <1>2, <1>3 DEF TurnFormed
  <1>5. req[r].turned => set = NoToken /\ set # Keep /\ req[r].who = NoUser
    BY <1>1, <1>2, <1>3, <1>4, SessionConstants DEF TurnFormed
  <1>6. ~req[r].turned => set # NoToken
    BY <1>4, SessionConstants
  <1>7. set \in {NoToken, Keep, req[r].token}
    OBVIOUS
  <1>8. \A t \in Tokens : rows'[t] = rows[t]
    BY <1>2
  <1>9. \A b \in Browsers : last'[b] \in {last[b], Unknown}
    BY <1>2
  <1> HIDE DEF set
  <1> QED
    BY <1>1, <1>2, <1>5, <1>6, <1>7, <1>8, <1>9, AnswerStep

\* A sign-in or sign-out that fails after it took place leaves open whom the browser is
\* signed in as.
LEMMA FailSign ==
  ASSUME IInv, IInv', SignIInv, NEW r \in Requests, Fail(r)
  PROVE  SignIInv'
  <1>1. TypeOK /\ TypeOK' /\ req[r] \in Request
    BY DEF IInv, TypeOK
  <1>2. /\ UNCHANGED <<rows, jar>>
        /\ req'[r] = Answer(req[r], Keep, NoCsrf, FALSE)
        /\ \A q \in Requests \ {r} : req'[q] = req[q]
    BY <1>1 DEF Fail, TypeOK
  <1>3. \A b \in Browsers : last'[b] \in {last[b], Unknown}
    BY <1>1 DEF Fail, TypeOK
  <1>4. req[r].turned /\ req[r].by # NoBrowser => last'[req[r].by] = Unknown
    <2>1. req[r].by \in Browsers \cup {NoBrowser}
      BY <1>1 DEF Request
    <2> QED
      BY <1>1, <2>1 DEF Fail, TypeOK
  <1>5. \A t \in Tokens : rows'[t] = rows[t]
    BY <1>2
  <1>6. Keep # NoToken /\ FALSE \in BOOLEAN /\ NoCsrf \in Csrf \cup {NoCsrf}
    BY SessionConstants
  <1>7. Keep \in {NoToken, Keep, req[r].token}
    OBVIOUS
  <1> QED
    BY <1>1, <1>2, <1>3, <1>4, <1>5, <1>6, <1>7, AnswerStep

\* So does one nobody waits for.
LEMMA AbandonSign ==
  ASSUME IInv, IInv', SignIInv, NEW r \in Requests, Abandon(r)
  PROVE  SignIInv'
  <1>1. TypeOK /\ TypeOK' /\ req[r] \in Request /\ TurnFormed(r)
    BY DEF IInv, TypeOK, SignIInv, TurnsAreFormed
  <1>2. /\ req[r].at # "idle" /\ req[r].by \in Browsers /\ req[r].by # NoBrowser
        /\ UNCHANGED <<rows, jar>>
        /\ \A q \in Requests \ {r} : req'[q] = req[q]
    BY <1>1 DEF Abandon, TypeOK, Request
  <1>3. req'[r] = IF req[r].at = "done" THEN NoRequest ELSE [req[r] EXCEPT !.by = NoBrowser]
    BY <1>1 DEF Abandon, TypeOK
  <1>4. req[r].at # "done" =>
          /\ req'[r].at = req[r].at /\ req'[r].kind = req[r].kind /\ req'[r].by = NoBrowser
          /\ req'[r].who = req[r].who /\ req'[r].token = req[r].token
          /\ req'[r].row = req[r].row /\ req'[r].status = req[r].status
          /\ req'[r].set = req[r].set /\ req'[r].turned = req[r].turned
    BY <1>1, <1>3 DEF Request
  <1>5. /\ \A b \in Browsers : last'[b] \in {last[b], Unknown}
        /\ req[r].kind \in Turning => last'[req[r].by] = Unknown
    BY <1>1, <1>2 DEF Abandon, TypeOK
  <1>6. TurnFormed(r)'
    <2>1. CASE req[r].at = "done"
      BY <1>3, <2>1, NoRequestFields DEF TurnFormed, AtWork
    <2>2. CASE req[r].at # "done"
      BY <1>1, <1>2, <1>4, <2>2 DEF TurnFormed, AtWork
    <2> QED
      BY <2>1, <2>2
  <1>7. req'[r].by = NoBrowser
    BY <1>3, <1>4, NoRequestFields
  <1>8. {req'[r].token, req'[r].set} \cap Tokens \subseteq {req[r].token, req[r].set}
    BY <1>3, <1>4, NoRequestFields, SessionConstants
  <1>9. /\ req'[r].turned => req[r].turned
        /\ req[r].turned => last'[req[r].by] = Unknown
    BY <1>1, <1>3, <1>4, <1>5, NoRequestFields DEF TurnFormed
  <1>10. req'[r].kind \in Turning /\ ~req'[r].turned =>
           /\ req[r].kind \in Turning /\ ~req[r].turned
           /\ req'[r].token \in {req[r].token, NoToken}
           /\ last'[req[r].by] = Unknown
    BY <1>3, <1>4, <1>5, NoRequestFields DEF Turning
  <1>11. AtWork(r)' =>
           AtWork(r) /\ req'[r].token = req[r].token /\ req'[r].row = req[r].row
    BY <1>3, <1>4, NoRequestFields DEF AtWork
  <1>12. \A t \in Tokens : rows'[t] = rows[t]
    BY <1>2
  <1> QED
    BY <1>1, <1>2, <1>5, <1>6, <1>7, <1>8, <1>9, <1>10, <1>11, <1>12, QuietStep

\* The upsert of a session that is new: whoever waits for it was nobody, and is.
LEMMA StoreNewSign ==
  ASSUME IInv, IInv', SignIInv, NEW r \in Requests, Store(r), req[r].token = NoToken
  PROVE  SignIInv'
  <1> USE DEF SignIInv
  <1>1. /\ TypeOK /\ TypeOK' /\ req[r] \in Request /\ TurnFormed(r)
        /\ req[r].shown \in Csrf \cup {NoCsrf} /\ req[r].turned \in BOOLEAN
    BY DEF IInv, TypeOK, Request, TurnsAreFormed
  <1>2. PICK t \in Tokens :
          /\ FreshToken(t)
          /\ rows' = [rows EXCEPT ![t] = req[r].row]
          /\ req' = [req EXCEPT ![r] = Answer(req[r], t, req[r].shown, req[r].turned)]
    BY DEF Store
  <1>3. /\ req[r].at = "closing" /\ req[r].status = "modified" /\ UNCHANGED <<jar, last>>
        /\ \A q \in Requests \ {r} : req'[q] = req[q]
        /\ req'[r] = Answer(req[r], t, req[r].shown, req[r].turned)
    BY <1>1, <1>2 DEF Store, TypeOK
  <1>4. ~req[r].turned /\ req[r].row.user = NoUser /\ AtWork(r)
    BY <1>1, <1>3 DEF TurnFormed, AtWork
  <1>5. /\ rows[t] = NoRow /\ t # NoToken /\ t # Keep
        /\ \A b \in Browsers : jar[b] # t
        /\ \A q \in Requests : req[q].token # t /\ req[q].set # t
    BY <1>2, SessionConstants DEF FreshToken
  <1>6. \A x \in Tokens : rows'[x].user = rows[x].user
    BY <1>1, <1>2, <1>4, <1>5 DEF TypeOK, NoRow
  <1>7. /\ req[r].by = NoBrowser => req'[r] = NoRequest
        /\ req[r].by # NoBrowser =>
              /\ req'[r].at = "done" /\ req'[r].kind = req[r].kind /\ req'[r].token = NoToken
              /\ req'[r].by = req[r].by /\ req'[r].who = NoUser /\ req'[r].status = "clean"
              /\ req'[r].set = t /\ ~req'[r].turned
    <2>1. t \in Tokens \cup {NoToken, Keep}
      OBVIOUS
    <2> QED
      BY <1>1, <1>3, <1>4, <2>1, AnswerFields
  <1>8. /\ req'[r].by = req[r].by /\ ~req'[r].turned /\ req'[r].token = NoToken
        /\ req'[r].set \in {t, Keep} /\ ~AtWork(r)'
        /\ req'[r].by # NoBrowser => req'[r].at = "done" /\ req'[r].kind = req[r].kind
        /\ req'[r].by = NoBrowser => req'[r].kind \notin Turning
    BY <1>7, NoRequestFields DEF AtWork, Turning
  <1>9. \A b \in Browsers : b # NoBrowser /\ InFlight(b)' = InFlight(b)
    BY <1>3, <1>8, SessionConstants DEF InFlight
  <1>10. \A b \in Browsers : \A x \in Known(b)' : x \in Known(b) \/ (x = t /\ r \in InFlight(b))
    <2> SUFFICES ASSUME NEW b \in Browsers, NEW x \in Tokens, x # jar[b], x # t,
                        NEW q \in InFlight(b), x \in {req'[q].token, req'[q].set}
                 PROVE  x \in {req[q].token, req[q].set}
      <3>1. ASSUME NEW b \in Browsers, NEW q \in InFlight(b), t \in {req'[q].token, req'[q].set}
            PROVE  q = r
        BY <1>3, <1>5, <3>1 DEF InFlight
      <3> QED
        BY <1>3, <1>9, <3>1 DEF Known
    <2>1. q # r
      BY <1>8, SessionConstants
    <2> QED
      BY <1>3, <2>1 DEF InFlight
  <1>11. \A b \in Browsers : t \notin Known(b)
    BY <1>5 DEF Known, InFlight
  <1>12. TurnsAreFormed'
    <2> SUFFICES ASSUME NEW q \in Requests PROVE TurnFormed(q)'
      BY DEF TurnsAreFormed
    <2>1. CASE q = r
      <3>1. CASE req[r].by = NoBrowser
        BY <1>7, <2>1, <3>1, NoRequestFields DEF TurnFormed, AtWork
      <3>2. CASE req[r].by # NoBrowser
        BY <1>1, <1>5, <1>7, <2>1, <3>2, SessionConstants DEF TurnFormed, AtWork
      <3> QED
        BY <3>1, <3>2
    <2>2. CASE q # r
      <3>1. req'[q] = req[q] /\ TurnFormed(q) /\ req[q].set \in Tokens \cup {NoToken, Keep}
        BY <1>1, <1>3, <2>2 DEF TurnsAreFormed, TypeOK, Request
      <3> QED
        BY <1>6, <3>1 DEF TurnFormed, AtWork
    <2> QED
      BY <2>1, <2>2
  <1>13. NewSessionsAreUnknown'
    <2> SUFFICES ASSUME NEW q \in Requests, req'[q].turned,
                        NEW x \in Tokens, x \in {req'[q].token, req'[q].set}
                 PROVE  /\ \A b \in Browsers : jar'[b] # x
                        /\ \A p \in Requests \ {q} : x \notin {req'[p].token, req'[p].set}
      BY DEF NewSessionsAreUnknown
    <2>1. q # r /\ req'[q] = req[q] /\ x # t
      BY <1>3, <1>5, <1>8
    <2>2. /\ \A b \in Browsers : jar[b] # x
          /\ \A p \in Requests \ {q} : x \notin {req[p].token, req[p].set}
      BY <2>1 DEF NewSessionsAreUnknown
    <2>3. x \notin {req'[r].token, req'[r].set}
      BY <1>8, <2>1, SessionConstants
    <2> QED
      BY <1>3, <2>2, <2>3
  <1>14. TokensAreOwned'
    <2> SUFFICES ASSUME NEW b \in Browsers, NEW c \in Browsers, b # c,
                        NEW x \in Known(b)', x \in Known(c)'
                 PROVE  FALSE
      BY DEF TokensAreOwned
    <2>1. CASE x = t
      BY <1>10, <1>11, <2>1 DEF InFlight
    <2>2. CASE x # t
      BY <1>10, <2>2 DEF TokensAreOwned
    <2> QED
      BY <2>1, <2>2
  <1>15. TurnsRunAlone'
    <2> SUFFICES ASSUME NEW b \in Browsers, last[b] # Unknown
                 PROVE  /\ \A q \in InFlight(b) : req'[q].kind \in Turning => InFlight(b) = {q}
                        /\ \A p \in Requests :
                             req'[p].by = NoBrowser /\ req'[p].kind \in Turning /\ ~req'[p].turned
                               => req'[p].token \notin Known(b)'
      BY <1>3, <1>9 DEF TurnsRunAlone
    <2>1. \A q \in InFlight(b) : req'[q].kind = req[q].kind
      BY <1>3, <1>8, <1>9 DEF InFlight
    <2>2. ASSUME NEW p \in Requests,
                 req'[p].by = NoBrowser, req'[p].kind \in Turning, ~req'[p].turned
          PROVE  req'[p].token \notin Known(b)'
      <3>1. p # r /\ req'[p] = req[p] /\ req[p].token # t
        BY <1>3, <1>5, <1>8, <2>2
      <3> QED
        BY <1>10, <2>2, <3>1 DEF TurnsRunAlone
    <2> QED
      BY <2>1, <2>2 DEF TurnsRunAlone
  <1>16. SettledSessionsAgree'
    <2> SUFFICES ASSUME NEW b \in Browsers, Settled(b)'
                 PROVE  /\ UserOf(jar[b])' = last[b]
                        /\ \A x \in Known(b)' :
                             /\ rows'[x].user = last[b]
                             /\ \A p \in Requests : AtWork(p)' /\ req'[p].token = x
                                  => req'[p].row.user = last[b]
                        /\ \A q \in InFlight(b) : req'[q].at # "done" /\ req'[q].token = NoToken
                             => last[b] = NoUser
                        /\ last[b] # NoUser => Known(b)' \subseteq {jar[b]}
      BY <1>3, <1>9 DEF SettledSessionsAgree, AtWork
    <2>1. Settled(b)
      BY <1>3, <1>4, <1>9 DEF Settled, InFlight
    <2>2. /\ UserOf(jar[b]) = last[b]
          /\ \A x \in Known(b) :
               /\ rows[x].user = last[b]
               /\ \A p \in Requests : AtWork(p) /\ req[p].token = x => req[p].row.user = last[b]
          /\ \A q \in InFlight(b) : req[q].at # "done" /\ req[q].token = NoToken => last[b] = NoUser
          /\ last[b] # NoUser => Known(b) \subseteq {jar[b]}
      BY <2>1 DEF SettledSessionsAgree
    <2>3. r \in InFlight(b) => last[b] = NoUser
      BY <1>3, <2>2
    <2>4. UserOf(jar[b])' = last[b]
      <3>1. jar[b] \in Tokens \cup {NoToken} /\ jar'[b] = jar[b]
        BY <1>1, <1>3 DEF TypeOK
      <3> QED
        BY <1>6, <2>2, <3>1 DEF UserOf
    <2>5. ASSUME NEW x \in Known(b)' PROVE rows'[x].user = last[b]
      <3>1. x \in Tokens
        BY DEF Known
      <3>2. CASE x \in Known(b)
        BY <1>6, <2>2, <3>1, <3>2
      <3>3. CASE x = t /\ r \in InFlight(b)
        BY <1>5, <1>6, <2>3, <3>3 DEF NoRow
      <3> QED
        BY <1>10, <3>2, <3>3
    <2>6. ASSUME NEW x \in Known(b)', NEW p \in Requests, AtWork(p)', req'[p].token = x
          PROVE  req'[p].row.user = last[b]
      <3>1. p # r /\ req'[p] = req[p] /\ AtWork(p) /\ x # t
        BY <1>3, <1>5, <1>8, <2>6 DEF AtWork
      <3> QED
        BY <1>10, <2>2, <2>6, <3>1
    <2>7. ASSUME NEW q \in InFlight(b), req'[q].at # "done", req'[q].token = NoToken
          PROVE  last[b] = NoUser
      <3>1. CASE q = r
        BY <2>3, <3>1
      <3>2. CASE q # r
        BY <1>3, <2>2, <2>7, <3>2 DEF InFlight
      <3> QED
        BY <3>1, <3>2
    <2> QED
      BY <1>10, <2>2, <2>3, <2>4, <2>5, <2>6, <2>7
  <1> QED
    BY <1>12, <1>13, <1>14, <1>15, <1>16

LEMMA StoreSign ==
  ASSUME IInv, IInv', SignIInv, NEW r \in Requests, Store(r)
  PROVE  SignIInv'
  <1>1. /\ TypeOK /\ TypeOK' /\ req[r] \in Request /\ TurnFormed(r)
        /\ req[r].shown \in Csrf \cup {NoCsrf} /\ req[r].turned \in BOOLEAN
        /\ req[r].token \in Tokens \cup {NoToken}
    BY DEF IInv, TypeOK, Request, SignIInv, TurnsAreFormed
  <1>2. CASE req[r].token = NoToken
    BY <1>2, StoreNewSign
  <1>3. CASE req[r].token # NoToken
    <2> DEFINE t == req[r].token
    <2>1. /\ rows' = [rows EXCEPT ![t] = req[r].row]
          /\ req' = [req EXCEPT ![r] = Answer(req[r], t, req[r].shown, req[r].turned)]
      BY <1>3 DEF Store
    <2>2. /\ req[r].at = "closing" /\ UNCHANGED <<jar, last>>
          /\ \A q \in Requests \ {r} : req'[q] = req[q]
          /\ req'[r] = Answer(req[r], t, req[r].shown, req[r].turned)
      BY <1>1, <2>1 DEF Store, TypeOK
    <2>3. rows'[t].user = req[r].row.user /\ \A x \in Tokens : rows'[x] # rows[x] => x = t
      BY <1>1, <1>3, <2>1 DEF TypeOK
    <2>4. AtWork(r)
      BY <2>2 DEF AtWork
    <2>5. req[r].turned => req[r].row.user = req[r].who
      BY <1>1, <1>3, <2>2 DEF TurnFormed
    <2>6. t # Keep /\ t # NoToken /\ t \in {NoToken, Keep, req[r].token}
      BY <1>1, <1>3, SessionConstants
    <2>7. \A x \in Tokens : rows'[x] # rows[x] =>
            AtWork(r) /\ x = req[r].token /\ rows'[x].user = req[r].row.user
      BY <2>3, <2>4
    <2>8. \A b \in Browsers : last'[b] \in {last[b], Unknown}
      BY <2>2
    <2> HIDE DEF t
    <2> QED
      BY <1>1, <2>2, <2>3, <2>5, <2>6, <2>7, <2>8, AnswerStep
  <1> QED
    BY <1>2, <1>3

\* A request has the session of its browser, and a sign-in amid others leaves open whom
\* the browser is signed in as.
LEMMA SendSign ==
  ASSUME IInv, IInv', SignIInv, NEW r \in Requests, NEW b \in Browsers, NEW kind \in Kinds,
         NEW form \in Csrf \cup {NoCsrf}, NEW who \in Users \cup {NoUser},
         Send(r, b, kind, form, who)
  PROVE  SignIInv'
  <1> USE DEF SignIInv
  <1>1. TypeOK /\ TypeOK' /\ TurnFormed(r) /\ jar[b] \in Tokens \cup {NoToken} /\ b # NoBrowser
    BY SessionConstants DEF IInv, TypeOK, TurnsAreFormed
  <1>2. /\ req[r].at = "idle" /\ UNCHANGED <<rows, jar>>
        /\ who = NoUser <=> kind \notin {"login", "register"}
        /\ \A q \in Requests \ {r} : req'[q] = req[q]
    BY <1>1 DEF Send, TypeOK
  <1>3. /\ req'[r].at = "sent" /\ req'[r].kind = kind /\ req'[r].by = b /\ req'[r].who = who
        /\ req'[r].token = jar[b] /\ req'[r].status = "clean" /\ req'[r].set = Keep
        /\ ~req'[r].turned
    BY <1>1 DEF Send, TypeOK, NoRequest
  <1>4. req[r] = NoRequest /\ req[r].by = NoBrowser
    BY <1>1, <1>2, NoRequestFields DEF TurnFormed
  <1>5. \A c \in Browsers : last'[c] # Unknown => last'[c] = last[c] /\ last[c] # Unknown
    BY <1>1 DEF Send, TypeOK
  <1>6. last'[b] # Unknown =>
          \A q \in InFlight(b) : kind \notin Turning /\ req[q].kind \notin Turning
    BY <1>1 DEF Send, TypeOK
  <1>7. /\ InFlight(b)' = InFlight(b) \cup {r} /\ r \notin InFlight(b)
        /\ \A c \in Browsers \ {b} : InFlight(c)' = InFlight(c) /\ r \notin InFlight(c)
    BY <1>1, <1>2, <1>3, <1>4, SessionConstants DEF InFlight
  <1>8. \A c \in Browsers : Known(c)' \subseteq Known(c)
    <2> SUFFICES ASSUME NEW c \in Browsers, NEW x \in Tokens, x # jar[c],
                        NEW q \in InFlight(c)', x \in {req'[q].token, req'[q].set}
                 PROVE  \E p \in InFlight(c) : x \in {req[p].token, req[p].set}
      BY <1>2 DEF Known
    <2>1. CASE q = r
      BY <1>3, <1>7, <2>1, SessionConstants
    <2>2. CASE q # r
      BY <1>2, <1>7, <2>2 DEF InFlight
    <2> QED
      BY <2>1, <2>2
  <1>9. TurnsAreFormed'
    <2> SUFFICES ASSUME NEW q \in Requests PROVE TurnFormed(q)'
      BY DEF TurnsAreFormed
    <2>1. CASE q = r
      BY <1>2, <1>3, <2>1 DEF TurnFormed, AtWork
    <2>2. CASE q # r
      BY <1>2, <2>2 DEF TurnsAreFormed, TurnFormed, AtWork
    <2> QED
      BY <2>1, <2>2
  <1>10. NewSessionsAreUnknown'
    <2> SUFFICES ASSUME NEW q \in Requests, req'[q].turned,
                        NEW x \in Tokens, x \in {req'[q].token, req'[q].set}
                 PROVE  /\ \A c \in Browsers : jar'[c] # x
                        /\ \A p \in Requests \ {q} : x \notin {req'[p].token, req'[p].set}
      BY DEF NewSessionsAreUnknown
    <2>1. q # r /\ req'[q] = req[q]
      BY <1>2, <1>3
    <2>2. /\ \A c \in Browsers : jar[c] # x
          /\ \A p \in Requests \ {q} : x \notin {req[p].token, req[p].set}
      BY <2>1 DEF NewSessionsAreUnknown
    <2>3. x \notin {req'[r].token, req'[r].set}
      BY <1>3, <2>2, SessionConstants
    <2> QED
      BY <1>2, <2>2, <2>3
  <1>11. TokensAreOwned'
    BY <1>8 DEF TokensAreOwned
  <1>12. TurnsRunAlone'
    <2> SUFFICES ASSUME NEW c \in Browsers, last'[c] # Unknown
                 PROVE  /\ \A q \in InFlight(c)' : req'[q].kind \in Turning => InFlight(c)' = {q}
                        /\ \A p \in Requests :
                             req'[p].by = NoBrowser /\ req'[p].kind \in Turning /\ ~req'[p].turned
                               => req'[p].token \notin Known(c)'
      BY DEF TurnsRunAlone
    <2>1. ASSUME NEW q \in InFlight(c)', req'[q].kind \in Turning PROVE InFlight(c)' = {q}
      <3>1. CASE c = b
        BY <1>2, <1>3, <1>6, <1>7, <2>1, <3>1 DEF InFlight
      <3>2. CASE c # b
        BY <1>2, <1>5, <1>7, <2>1, <3>2 DEF TurnsRunAlone, InFlight
      <3> QED
        BY <3>1, <3>2
    <2>2. ASSUME NEW p \in Requests,
                 req'[p].by = NoBrowser, req'[p].kind \in Turning, ~req'[p].turned
          PROVE  req'[p].token \notin Known(c)'
      <3>1. p # r /\ req'[p] = req[p]
        BY <1>1, <1>2, <1>3, <2>2
      <3> QED
        BY <1>5, <1>8, <2>2, <3>1 DEF TurnsRunAlone
    <2> QED
      BY <2>1, <2>2
  <1>13. SettledSessionsAgree'
    <2> SUFFICES ASSUME NEW c \in Browsers, Settled(c)'
                 PROVE  /\ UserOf(jar[c])' = last'[c]
                        /\ \A x \in Known(c)' :
                             /\ rows'[x].user = last'[c]
                             /\ \A p \in Requests : AtWork(p)' /\ req'[p].token = x
                                  => req'[p].row.user = last'[c]
                        /\ \A q \in InFlight(c)' : req'[q].at # "done" /\ req'[q].token = NoToken
                             => last'[c] = NoUser
                        /\ last'[c] # NoUser => Known(c)' \subseteq {jar'[c]}
      BY DEF SettledSessionsAgree, AtWork
    <2>1. last'[c] = last[c] /\ last[c] # Unknown
      BY <1>5 DEF Settled
    <2>2. Settled(c)
      <3> SUFFICES ASSUME NEW q \in InFlight(c) PROVE ~req[q].turned
        BY <2>1 DEF Settled
      <3>1. q \in InFlight(c)' /\ q # r /\ q \in Requests
        BY <1>7 DEF InFlight
      <3> QED
        BY <1>2, <3>1 DEF Settled
    <2>3. /\ UserOf(jar[c]) = last[c]
          /\ \A x \in Known(c) :
               /\ rows[x].user = last[c]
               /\ \A p \in Requests : AtWork(p) /\ req[p].token = x => req[p].row.user = last[c]
          /\ \A q \in InFlight(c) : req[q].at # "done" /\ req[q].token = NoToken => last[c] = NoUser
          /\ last[c] # NoUser => Known(c) \subseteq {jar[c]}
      BY <2>2 DEF SettledSessionsAgree
    <2>4. UserOf(jar[c])' = last'[c]
      BY <1>2, <2>1, <2>3 DEF UserOf
    <2>5. ASSUME NEW p \in Requests, AtWork(p)' PROVE p # r /\ AtWork(p) /\ req'[p] = req[p]
      BY <1>2, <1>3, <2>5 DEF AtWork
    <2>6. ASSUME NEW q \in InFlight(c)', req'[q].at # "done", req'[q].token = NoToken
          PROVE  last[c] = NoUser
      <3>1. CASE q = r
        BY <1>3, <1>7, <2>3, <2>6, <3>1 DEF UserOf
      <3>2. CASE q # r
        BY <1>2, <1>7, <2>3, <2>6, <3>2 DEF InFlight
      <3> QED
        BY <3>1, <3>2
    <2> QED
      BY <1>2, <1>8, <2>1, <2>3, <2>4, <2>5, <2>6
  <1> QED
    BY <1>9, <1>10, <1>11, <1>12, <1>13

\* The sign-in or sign-out itself: the session that goes is not one a settled browser
\* could have, and nobody has the one that comes.
LEMMA TurnStep ==
  ASSUME IInv, IInv', SignIInv, NEW r \in Requests,
         UNCHANGED <<jar, last>>,
         \A q \in Requests \ {r} : req'[q] = req[q],
         req[r].at \in {"running", "vouched"}, req[r].kind \in Turning, req[r].token \in Tokens,
         rows' = [rows EXCEPT ![req[r].token] = NoRow],
         req'[r].at = "closing", req'[r].kind = req[r].kind, req'[r].by = req[r].by,
         req'[r].set = req[r].set, req'[r].who = req[r].who, req'[r].turned,
         IF req'[r].token = NoToken
           THEN req'[r].status = "destroyed" /\ req'[r].row.user = NoUser
           ELSE FreshToken(req'[r].token) /\ req'[r].row.user = req'[r].who
                  /\ req'[r].status # "destroyed",
         req'[r].token = NoToken => req'[r].who = NoUser
  PROVE  SignIInv'
  <1> USE DEF SignIInv
  <1> DEFINE old == req[r].token
             new == req'[r].token
  <1>1. TypeOK /\ TypeOK' /\ TurnFormed(r) /\ new \in Tokens \cup {NoToken}
    BY DEF IInv, TypeOK, Request, TurnsAreFormed
  <1>2. /\ req[r].set = Keep /\ ~req[r].turned /\ old # NoToken /\ old # Keep
        /\ NoToken \notin Tokens /\ Keep \notin Tokens
    BY <1>1, SessionConstants DEF TurnFormed
  <1>3. new \in Tokens =>
          /\ \A b \in Browsers : jar[b] # new
          /\ \A q \in Requests : req[q].token # new /\ req[q].set # new
    BY <1>2 DEF FreshToken
  <1>4. \A t \in Tokens : t # old => rows'[t] = rows[t]
    BY <1>1 DEF TypeOK
  <1>5. \A b \in Browsers : b # NoBrowser /\ InFlight(b)' = InFlight(b)
    BY SessionConstants DEF InFlight
  <1>6. \A b \in Browsers : new \notin Known(b)
    BY <1>2, <1>3 DEF Known, InFlight
  <1>7. \A b \in Browsers : \A x \in Known(b)' : x \in Known(b) \/ (x = new /\ r \in InFlight(b))
    <2> SUFFICES ASSUME NEW b \in Browsers, NEW x \in Tokens, x # jar[b],
                        NEW q \in InFlight(b), x \in {req'[q].token, req'[q].set}
                 PROVE  (q # r /\ x \in {req[q].token, req[q].set}) \/ (q = r /\ x = new)
      BY <1>5 DEF Known
    <2> QED
      BY <1>2 DEF InFlight
  <1>8. TurnsAreFormed'
    <2> SUFFICES ASSUME NEW q \in Requests PROVE TurnFormed(q)'
      BY DEF TurnsAreFormed
    <2>1. CASE q = r
      BY <1>1, <1>2, <2>1 DEF TurnFormed, AtWork
    <2>2. CASE q # r
      <3>1. req'[q] = req[q] /\ TurnFormed(q)
        BY <2>2 DEF TurnsAreFormed
      <3>2. req[q].turned /\ req[q].set \in Tokens => rows'[req[q].set] = rows[req[q].set]
        BY <1>1, <1>4, <2>2 DEF NewSessionsAreUnknown
      <3>3. req[q].set \in Tokens \cup {NoToken, Keep}
        BY <1>1 DEF TypeOK, Request
      <3> QED
        BY <3>1, <3>2, <3>3 DEF TurnFormed, AtWork
    <2> QED
      BY <2>1, <2>2
  <1>9. NewSessionsAreUnknown'
    <2> SUFFICES ASSUME NEW q \in Requests, req'[q].turned,
                        NEW x \in Tokens, x \in {req'[q].token, req'[q].set}
                 PROVE  /\ \A b \in Browsers : jar[b] # x
                        /\ \A p \in Requests \ {q} : x \notin {req'[p].token, req'[p].set}
      BY DEF NewSessionsAreUnknown
    <2>1. CASE q = r
      BY <1>2, <1>3, <2>1
    <2>2. CASE q # r
      <3>1. req'[q] = req[q] /\ x # new
        BY <1>3, <2>2
      <3>2. /\ \A b \in Browsers : jar[b] # x
            /\ \A p \in Requests \ {q} : x \notin {req[p].token, req[p].set}
        BY <3>1 DEF NewSessionsAreUnknown
      <3> QED
        BY <1>2, <2>2, <3>1, <3>2
    <2> QED
      BY <2>1, <2>2
  <1>10. TokensAreOwned'
    <2> SUFFICES ASSUME NEW b \in Browsers, NEW c \in Browsers, b # c,
                        NEW x \in Known(b)', x \in Known(c)'
                 PROVE  FALSE
      BY DEF TokensAreOwned
    <2>1. CASE x = new
      BY <1>6, <1>7, <2>1 DEF InFlight
    <2>2. CASE x # new
      BY <1>7, <2>2 DEF TokensAreOwned
    <2> QED
      BY <2>1, <2>2
  <1>11. TurnsRunAlone'
    <2> SUFFICES ASSUME NEW b \in Browsers, last[b] # Unknown
                 PROVE  /\ \A q \in InFlight(b) : req'[q].kind \in Turning => InFlight(b) = {q}
                        /\ \A p \in Requests :
                             req'[p].by = NoBrowser /\ req'[p].kind \in Turning /\ ~req'[p].turned
                               => req'[p].token \notin Known(b)'
      BY <1>5 DEF TurnsRunAlone
    <2>1. \A q \in InFlight(b) : req'[q].kind = req[q].kind
      BY DEF InFlight
    <2>2. ASSUME NEW p \in Requests,
                 req'[p].by = NoBrowser, req'[p].kind \in Turning, ~req'[p].turned
          PROVE  req'[p].token \notin Known(b)'
      <3>1. p # r /\ req'[p] = req[p] /\ req[p].token \notin Known(b)
        BY <2>2 DEF TurnsRunAlone
      <3>2. req[p].token \in Tokens => req[p].token # new
        BY <1>3
      <3> QED
        BY <1>7, <3>1, <3>2 DEF Known
    <2> QED
      BY <2>1, <2>2 DEF TurnsRunAlone
  <1>12. SettledSessionsAgree'
    <2> SUFFICES ASSUME NEW b \in Browsers, Settled(b)'
                 PROVE  /\ UserOf(jar[b])' = last[b]
                        /\ \A x \in Known(b)' :
                             /\ rows'[x].user = last[b]
                             /\ \A p \in Requests : AtWork(p)' /\ req'[p].token = x
                                  => req'[p].row.user = last[b]
                        /\ \A q \in InFlight(b) : req'[q].at # "done" /\ req'[q].token = NoToken
                             => last[b] = NoUser
                        /\ last[b] # NoUser => Known(b)' \subseteq {jar[b]}
      BY <1>5 DEF SettledSessionsAgree, AtWork
    <2>1. r \notin InFlight(b) /\ last[b] # Unknown
      BY <1>5 DEF Settled
    <2>2. Settled(b)
      BY <1>5, <2>1 DEF Settled, InFlight
    <2>3. /\ UserOf(jar[b]) = last[b]
          /\ \A x \in Known(b) :
               /\ rows[x].user = last[b]
               /\ \A p \in Requests : AtWork(p) /\ req[p].token = x => req[p].row.user = last[b]
          /\ \A q \in InFlight(b) : req[q].at # "done" /\ req[q].token = NoToken => last[b] = NoUser
          /\ last[b] # NoUser => Known(b) \subseteq {jar[b]}
      BY <2>2 DEF SettledSessionsAgree
    <2>4. Known(b)' \subseteq Known(b)
      BY <1>7, <2>1
    <2>5. old \notin Known(b)
      <3>1. CASE req[r].by = NoBrowser
        BY <1>2, <2>1, <3>1 DEF TurnsRunAlone
      <3>2. CASE req[r].by # NoBrowser
        <4> DEFINE c == req[r].by
        <4>1. c \in Browsers /\ c # b /\ r \in InFlight(c)
          BY <1>1, <2>1, <3>2 DEF TypeOK, Request, InFlight
        <4>2. old \in Known(c)
          BY <4>1 DEF Known
        <4> QED
          BY <4>1, <4>2 DEF TokensAreOwned
      <3> QED
        BY <3>1, <3>2
    <2>6. \A x \in Known(b) : x \in Tokens /\ rows'[x] = rows[x]
      BY <1>4, <2>5 DEF Known
    <2>7. UserOf(jar[b])' = last[b]
      <3>1. CASE jar[b] = NoToken
        BY <2>3, <3>1 DEF UserOf
      <3>2. CASE jar[b] # NoToken
        <4>1. jar[b] \in Known(b)
          BY <1>1, <3>2 DEF TypeOK, Known
        <4> QED
          BY <2>3, <2>6, <3>2, <4>1 DEF UserOf
      <3> QED
        BY <3>1, <3>2
    <2>8. ASSUME NEW x \in Known(b)', NEW p \in Requests, AtWork(p)', req'[p].token = x
          PROVE  req'[p].row.user = last[b]
      <3>1. x \in Known(b) /\ p # r
        BY <1>6, <2>4, <2>8
      <3> QED
        BY <2>3, <2>8, <3>1 DEF AtWork
    <2>9. \A q \in InFlight(b) : req'[q] = req[q]
      BY <2>1 DEF InFlight
    <2> QED
      BY <2>3, <2>4, <2>6, <2>7, <2>8, <2>9
  <1> QED
    BY <1>8, <1>9, <1>10, <1>11, <1>12

LEMMA SignInSign ==
  ASSUME IInv, IInv', SignIInv, NEW r \in Requests, SignIn(r)
  PROVE  SignIInv'
  <1>1. /\ TypeOK /\ TypeOK' /\ req[r] \in Request /\ Formed(r) /\ TurnFormed(r)
        /\ req[r].token \in Tokens \cup {NoToken}
    BY DEF IInv, TypeOK, Request, RequestsAreFormed, SignIInv, TurnsAreFormed
  <1>2. /\ req[r].at = "vouched" /\ UNCHANGED <<jar, last>>
        /\ rows' = [rows EXCEPT ![req[r].token] = NoRow]
        /\ \A q \in Requests \ {r} : req'[q] = req[q]
    BY <1>1 DEF SignIn, TypeOK
  <1>3. /\ req'[r].at = "closing" /\ req'[r].kind = req[r].kind /\ req'[r].by = req[r].by
        /\ req'[r].set = req[r].set /\ req'[r].who = req[r].who /\ req'[r].turned
        /\ req'[r].status = req[r].status
    BY <1>1 DEF SignIn, TypeOK, Request
  <1>4. req'[r].token \in Tokens /\ FreshToken(req'[r].token)
    BY <1>1 DEF SignIn, TypeOK, Request
  <1>5. req'[r].row.user = req[r].who
    BY <1>1 DEF SignIn, TypeOK, Request
  <1>6. /\ req[r].kind \in Turning /\ req[r].token \in Tokens /\ req[r].status # "destroyed"
        /\ NoToken \notin Tokens
    BY <1>1, <1>2, SessionConstants DEF TurnFormed, Formed
  <1> QED
    BY <1>1, <1>2, <1>3, <1>4, <1>5, <1>6, TurnStep

LEMMA SignOutSign ==
  ASSUME IInv, IInv', SignIInv, NEW r \in Requests, SignOut(r)
  PROVE  SignIInv'
  <1>1. /\ TypeOK /\ TypeOK' /\ req[r] \in Request /\ Formed(r) /\ TurnFormed(r)
        /\ req[r].token \in Tokens \cup {NoToken}
    BY DEF IInv, TypeOK, Request, RequestsAreFormed, SignIInv, TurnsAreFormed
  <1>2. /\ req[r].at = "running" /\ req[r].kind = "logout" /\ FormAccepted(r)
        /\ rows' = [rows EXCEPT ![req[r].token] = NoRow] /\ UNCHANGED <<jar, last>>
        /\ \A q \in Requests \ {r} : req'[q] = req[q]
    BY <1>1 DEF SignOut, TypeOK
  <1>3. req'[r] = [req[r] EXCEPT !.at = "closing", !.turned = TRUE, !.token = NoToken,
                                 !.row = NoRow, !.status = "destroyed"]
    BY <1>1 DEF SignOut, TypeOK
  <1>4. /\ req'[r].at = "closing" /\ req'[r].kind = req[r].kind /\ req'[r].by = req[r].by
        /\ req'[r].set = req[r].set /\ req'[r].who = req[r].who /\ req'[r].turned
        /\ req'[r].token = NoToken /\ req'[r].status = "destroyed"
        /\ req'[r].row.user = NoUser
    BY <1>1, <1>3 DEF Request, NoRow
  <1>5. req[r].token \in Tokens
    BY <1>1, <1>2 DEF Formed, FormAccepted, NoRow
  <1>6. req[r].kind \in Turning /\ req[r].who = NoUser
    BY <1>1, <1>2 DEF TurnFormed, Turning
  <1> QED
    BY <1>1, <1>2, <1>4, <1>5, <1>6, TurnStep

\* The cookie comes with the answer: that of a sign-in is nobody else's, and any other is
\* that of a session the browser could have already.
LEMMA ArriveSign ==
  ASSUME IInv, IInv', SignIInv, NEW r \in Requests, Arrive(r)
  PROVE  SignIInv'
  <1> USE DEF SignIInv
  <1>0. PICK b \in Browsers : b = req[r].by /\ b # NoBrowser
    <2>1. req[r].at = "done" /\ TurnFormed(r) /\ req[r].by \in Browsers \cup {NoBrowser}
      BY DEF IInv, TypeOK, Request, TurnsAreFormed, Arrive
    <2> QED
      BY <2>1 DEF TurnFormed
  <1> DEFINE set == req[r].set
             sole == req[r].turned /\ InFlight(b) = {r}
  <1>1. /\ TypeOK /\ TypeOK' /\ TurnFormed(r) /\ req[r].at = "done"
        /\ set \in Tokens \cup {NoToken, Keep}
        /\ NoToken \notin Tokens /\ Keep \notin Tokens /\ Keep # NoToken
    BY SessionConstants DEF IInv, TypeOK, Request, TurnsAreFormed, Arrive
  <1>2. r \in InFlight(b) /\ b # NoBrowser
    BY <1>0 DEF InFlight
  <1>3. /\ req'[r] = NoRequest /\ UNCHANGED rows
        /\ \A q \in Requests \ {r} : req'[q] = req[q]
        /\ jar'[b] = (IF set = Keep THEN jar[b] ELSE set)
        /\ \A c \in Browsers \ {b} : jar'[c] = jar[c] /\ last'[c] = last[c]
        /\ last'[b] = (IF sole THEN req[r].who ELSE last[b])
    BY <1>0, <1>1 DEF Arrive, TypeOK
  <1>4. /\ InFlight(b)' = InFlight(b) \ {r}
        /\ \A c \in Browsers \ {b} : InFlight(c)' = InFlight(c) /\ r \notin InFlight(c)
    <2>1. ASSUME NEW c \in Browsers PROVE c # NoBrowser /\ InFlight(c)' = InFlight(c) \ {r}
      <3>1. c # NoBrowser /\ req'[r].by # c
        BY <1>3, NoRequestFields, SessionConstants
      <3> QED
        BY <1>3, <3>1 DEF InFlight
    <2>2. \A c \in Browsers \ {b} : r \notin InFlight(c)
      BY <1>0 DEF InFlight
    <2> QED
      BY <2>1, <2>2
  <1>5. set \in Tokens => set \in Known(b)
    BY <1>2 DEF Known
  <1>6. \A c \in Browsers : Known(c)' \subseteq Known(c)
    <2> SUFFICES ASSUME NEW c \in Browsers, NEW x \in Known(c)' PROVE x \in Known(c)
      OBVIOUS
    <2>1. x \in Tokens
      BY DEF Known
    <2>2. CASE x = jar'[c]
      BY <1>3, <1>5, <2>1, <2>2 DEF Known
    <2>3. CASE \E q \in InFlight(c)' : x \in {req'[q].token, req'[q].set}
      <3>1. PICK q \in InFlight(c)' : x \in {req'[q].token, req'[q].set}
        BY <2>3
      <3>2. q \in InFlight(c) /\ q # r /\ q \in Requests
        BY <1>4, <3>1 DEF InFlight
      <3> QED
        BY <1>3, <2>1, <3>1, <3>2 DEF Known
    <2> QED
      BY <2>2, <2>3 DEF Known
  <1>7. req[r].turned => set # Keep /\ req[r].kind \in Turning
    BY <1>1 DEF TurnFormed
  <1>8. sole => InFlight(b)' = {} /\ Known(b)' \subseteq {set} \cap Tokens
    BY <1>3, <1>4, <1>7 DEF Known
  <1>9. \A q \in Requests : AtWork(q)' => q # r /\ AtWork(q) /\ req'[q] = req[q]
    BY <1>3, NoRequestFields DEF AtWork
  <1>10. TurnsAreFormed'
    <2> SUFFICES ASSUME NEW q \in Requests PROVE TurnFormed(q)'
      BY DEF TurnsAreFormed
    <2>1. CASE q = r
      BY <1>3, <2>1, NoRequestFields DEF TurnFormed, AtWork
    <2>2. CASE q # r
      BY <1>3, <2>2 DEF TurnsAreFormed, TurnFormed, AtWork
    <2> QED
      BY <2>1, <2>2
  <1>11. NewSessionsAreUnknown'
    <2> SUFFICES ASSUME NEW q \in Requests, req'[q].turned,
                        NEW x \in Tokens, x \in {req'[q].token, req'[q].set}
                 PROVE  /\ \A c \in Browsers : jar'[c] # x
                        /\ \A p \in Requests \ {q} : x \notin {req'[p].token, req'[p].set}
      BY DEF NewSessionsAreUnknown
    <2>1. q # r /\ req'[q] = req[q]
      BY <1>3, NoRequestFields
    <2>2. /\ \A c \in Browsers : jar[c] # x
          /\ \A p \in Requests \ {q} : x \notin {req[p].token, req[p].set}
      BY <2>1 DEF NewSessionsAreUnknown
    <2>3. x \notin {req'[r].token, req'[r].set}
      BY <1>1, <1>3, NoRequestFields
    <2> QED
      BY <1>3, <2>1, <2>2, <2>3
  <1>12. TokensAreOwned'
    BY <1>6 DEF TokensAreOwned
  <1>13. TurnsRunAlone'
    <2> SUFFICES ASSUME NEW c \in Browsers, last'[c] # Unknown
                 PROVE  /\ \A q \in InFlight(c)' : req'[q].kind \in Turning => InFlight(c)' = {q}
                        /\ \A p \in Requests :
                             req'[p].by = NoBrowser /\ req'[p].kind \in Turning /\ ~req'[p].turned
                               => req'[p].token \notin Known(c)'
      BY DEF TurnsRunAlone
    <2>1. CASE c = b /\ sole
      <3>1. \A p \in Requests \ {r} : set \in Tokens => req[p].token # set
        BY <2>1 DEF NewSessionsAreUnknown
      <3>2. \A p \in Requests : req'[p].token \notin Known(b)'
        BY <1>1, <1>3, <1>8, <2>1, <3>1, NoRequestFields
      <3> QED
        BY <1>8, <2>1, <3>2
    <2>2. CASE ~(c = b /\ sole)
      <3>1. last[c] # Unknown
        BY <1>3, <2>2
      <3>2. ASSUME NEW q \in InFlight(c)', req'[q].kind \in Turning PROVE InFlight(c)' = {q}
        <4>1. q \in InFlight(c) /\ q # r /\ q \in Requests /\ InFlight(c)' \subseteq InFlight(c)
          BY <1>4, <3>2 DEF InFlight
        <4>2. InFlight(c) = {q}
          BY <1>3, <3>1, <3>2, <4>1 DEF TurnsRunAlone
        <4> QED
          BY <3>2, <4>1, <4>2
      <3>3. ASSUME NEW p \in Requests,
                   req'[p].by = NoBrowser, req'[p].kind \in Turning, ~req'[p].turned
            PROVE  req'[p].token \notin Known(c)'
        <4>1. p # r /\ req'[p] = req[p]
          BY <1>3, <3>3, NoRequestFields DEF Turning
        <4> QED
          BY <1>6, <3>1, <3>3, <4>1 DEF TurnsRunAlone
      <3> QED
        BY <3>2, <3>3
    <2> QED
      BY <2>1, <2>2
  <1>14. SettledSessionsAgree'
    <2> SUFFICES ASSUME NEW c \in Browsers, Settled(c)'
                 PROVE  /\ UserOf(jar[c])' = last'[c]
                        /\ \A x \in Known(c)' :
                             /\ rows'[x].user = last'[c]
                             /\ \A p \in Requests : AtWork(p)' /\ req'[p].token = x
                                  => req'[p].row.user = last'[c]
                        /\ \A q \in InFlight(c)' : req'[q].at # "done" /\ req'[q].token = NoToken
                             => last'[c] = NoUser
                        /\ last'[c] # NoUser => Known(c)' \subseteq {jar'[c]}
      BY DEF SettledSessionsAgree, AtWork
    <2>1. CASE c = b /\ sole
      <3>1. jar'[b] = set /\ last'[b] = req[r].who
        BY <1>3, <1>7, <2>1
      <3>2. /\ set = NoToken => req[r].who = NoUser
            /\ set # NoToken => rows[set].user = req[r].who
        BY <1>1, <2>1 DEF TurnFormed
      <3>3. UserOf(jar[b])' = last'[b]
        BY <1>3, <3>1, <3>2 DEF UserOf
      <3>4. \A x \in Known(b)' : x = set /\ x \in Tokens /\ rows'[x].user = req[r].who
        BY <1>1, <1>3, <1>8, <2>1, <3>2
      <3>5. ASSUME NEW p \in Requests, AtWork(p)', set \in Tokens PROVE req'[p].token # set
        BY <1>9, <2>1, <3>5 DEF NewSessionsAreUnknown
      <3> QED
        BY <1>8, <2>1, <3>1, <3>3, <3>4, <3>5
    <2>2. CASE ~(c = b /\ sole)
      <3>1. last'[c] = last[c] /\ last[c] # Unknown
        BY <1>3, <2>2 DEF Settled
      <3>2. c = b => ~req[r].turned
        BY <1>2, <1>7, <2>2, <3>1 DEF TurnsRunAlone
      <3>3. Settled(c)
        <4> SUFFICES ASSUME NEW q \in InFlight(c) PROVE ~req[q].turned
          BY <3>1 DEF Settled
        <4>1. CASE q = r
          BY <1>2, <1>4, <3>2, <4>1
        <4>2. CASE q # r
          <5>1. q \in InFlight(c)' /\ q \in Requests
            BY <1>4, <4>2 DEF InFlight
          <5> QED
            BY <1>3, <4>2, <5>1 DEF Settled
        <4> QED
          BY <4>1, <4>2
      <3>4. /\ UserOf(jar[c]) = last[c]
            /\ \A x \in Known(c) :
                 /\ rows[x].user = last[c]
                 /\ \A p \in Requests : AtWork(p) /\ req[p].token = x => req[p].row.user = last[c]
            /\ \A q \in InFlight(c) : req[q].at # "done" /\ req[q].token = NoToken
                 => last[c] = NoUser
            /\ last[c] # NoUser => Known(c) \subseteq {jar[c]}
        BY <3>3 DEF SettledSessionsAgree
      \* The answer keeps the cookie, or sets that of a session the browser could have.
      <3>5. jar'[c] = jar[c] \/ (c = b /\ jar'[c] = set /\ set \in Tokens)
        <4>1. c = b => set # NoToken
          BY <1>1, <3>2 DEF TurnFormed
        <4> QED
          BY <1>1, <1>3, <4>1
      <3>6. UserOf(jar[c])' = last[c]
        <4>1. CASE jar'[c] = jar[c]
          BY <1>3, <3>4, <4>1 DEF UserOf
        <4>2. CASE c = b /\ jar'[c] = set /\ set \in Tokens
          BY <1>1, <1>3, <1>5, <3>4, <4>2 DEF UserOf
        <4> QED
          BY <3>5, <4>1, <4>2
      <3>7. last[c] # NoUser => Known(c)' \subseteq {jar'[c]}
        BY <1>5, <1>6, <3>4, <3>5
      <3>8. \A q \in InFlight(c)' : q \in InFlight(c) /\ req'[q] = req[q]
        BY <1>3, <1>4 DEF InFlight
      <3> QED
        BY <1>3, <1>6, <1>9, <3>1, <3>4, <3>6, <3>7, <3>8
    <2> QED
      BY <2>1, <2>2
  <1> QED
    BY <1>10, <1>11, <1>12, <1>13, <1>14

\* The row of a session that ends is that of no answer under way.
LEMMA ExpireSign ==
  ASSUME IInv, IInv', SignIInv, NEW t \in Tokens, Expire(t)
  PROVE  SignIInv'
  <1> USE DEF SignIInv
  <1>1. /\ TypeOK /\ TypeOK' /\ UNCHANGED <<req, jar>>
        /\ \A r \in Requests : req[r].set # t
        /\ \A x \in Tokens : rows'[x] = IF x = t THEN NoRow ELSE rows[x]
        /\ \A b \in Browsers :
             last'[b] = IF jar[b] = t /\ last[b] \in Users THEN Unknown ELSE last[b]
    BY DEF IInv, TypeOK, Expire
  <1>2. \A b \in Browsers : InFlight(b)' = InFlight(b) /\ Known(b)' = Known(b)
    BY <1>1 DEF InFlight, Known
  <1>3. TurnsAreFormed'
    <2> SUFFICES ASSUME NEW q \in Requests PROVE TurnFormed(q)'
      BY DEF TurnsAreFormed
    <2>1. TurnFormed(q) /\ req[q].set \in Tokens \cup {NoToken, Keep} /\ req[q].set # t
      BY <1>1 DEF TurnsAreFormed, TypeOK, Request
    <2> QED
      BY <1>1, <2>1 DEF TurnFormed, AtWork
  <1>4. NewSessionsAreUnknown'
    BY <1>1 DEF NewSessionsAreUnknown
  <1>5. TokensAreOwned'
    BY <1>2 DEF TokensAreOwned
  <1>6. TurnsRunAlone'
    BY <1>1, <1>2 DEF TurnsRunAlone
  <1>7. SettledSessionsAgree'
    <2> SUFFICES ASSUME NEW b \in Browsers, Settled(b)'
                 PROVE  /\ UserOf(jar[b])' = last[b]
                        /\ \A x \in Known(b) :
                             /\ rows'[x].user = last[b]
                             /\ \A p \in Requests : AtWork(p)' /\ req'[p].token = x
                                  => req'[p].row.user = last[b]
                        /\ \A q \in InFlight(b) : req'[q].at # "done" /\ req'[q].token = NoToken
                             => last[b] = NoUser
                        /\ last[b] # NoUser => Known(b) \subseteq {jar[b]}
      BY <1>1, <1>2 DEF SettledSessionsAgree, Settled, AtWork
    <2>1. last'[b] = last[b] /\ last[b] # Unknown
      BY <1>1 DEF Settled
    <2>2. Settled(b)
      BY <1>1, <1>2, <2>1 DEF Settled
    <2>3. /\ UserOf(jar[b]) = last[b]
          /\ \A x \in Known(b) :
               /\ rows[x].user = last[b]
               /\ \A p \in Requests : AtWork(p) /\ req[p].token = x => req[p].row.user = last[b]
          /\ \A q \in InFlight(b) : req[q].at # "done" /\ req[q].token = NoToken => last[b] = NoUser
          /\ last[b] # NoUser => Known(b) \subseteq {jar[b]}
      BY <2>2 DEF SettledSessionsAgree
    <2>4. last[b] = NoUser \/ (last[b] \in Users /\ jar[b] # t)
      BY <1>1, <2>1 DEF TypeOK
    <2>5. \A x \in Known(b) : rows'[x].user = last[b]
      <3>1. \A x \in Known(b) : x \in Tokens
        BY DEF Known
      <3>2. CASE last[b] = NoUser
        BY <1>1, <2>3, <3>1, <3>2 DEF NoRow
      <3>3. CASE last[b] \in Users /\ jar[b] # t
        BY <1>1, <2>3, <3>1, <3>3, SessionConstants
      <3> QED
        BY <2>4, <3>2, <3>3
    <2>6. UserOf(jar[b])' = last[b]
      <3>1. CASE jar[b] = NoToken
        BY <1>1, <2>3, <3>1 DEF UserOf
      <3>2. CASE jar[b] # NoToken
        <4>1. jar[b] \in Known(b)
          BY <1>1, <3>2 DEF TypeOK, Known
        <4> QED
          BY <1>1, <2>5, <3>2, <4>1 DEF UserOf
      <3> QED
        BY <3>1, <3>2
    <2> QED
      BY <1>1, <2>3, <2>5, <2>6 DEF AtWork
  <1> QED
    BY <1>3, <1>4, <1>5, <1>6, <1>7

LEMMA SignStutter ==
  ASSUME SignIInv, UNCHANGED vars
  PROVE  SignIInv'
  <1>1. UNCHANGED <<rows, accounts, req, jar, last>>
    BY DEF vars
  <1>2. \A b \in Browsers : InFlight(b)' = InFlight(b) /\ Known(b)' = Known(b)
    BY <1>1 DEF InFlight, Known
  <1>3. TurnsAreFormed'
    BY <1>1 DEF SignIInv, TurnsAreFormed, TurnFormed, AtWork
  <1>4. NewSessionsAreUnknown'
    BY <1>1 DEF SignIInv, NewSessionsAreUnknown
  <1>5. TokensAreOwned' /\ TurnsRunAlone'
    BY <1>1, <1>2 DEF SignIInv, TokensAreOwned, TurnsRunAlone
  <1>6. SettledSessionsAgree'
    BY <1>1, <1>2 DEF SignIInv, SettledSessionsAgree, Settled, UserOf, AtWork
  <1> QED
    BY <1>3, <1>4, <1>5, <1>6 DEF SignIInv

LEMMA SignNextInv == SessionsIInv /\ [Next]_vars => SessionsIInv'
  <1> SUFFICES ASSUME SessionsIInv, [Next]_vars PROVE SessionsIInv'
    OBVIOUS
  <1>1. IInv /\ IInv' /\ SignIInv
    BY NextInv DEF SessionsIInv
  <1>2. ASSUME NEW r \in Requests, Asking(r) PROVE SignIInv'
    BY <1>1, <1>2, SendSign DEF Asking
  <1>3. ASSUME NEW r \in Requests, Handling(r) PROVE SignIInv'
    BY <1>1, <1>3, LoadSign, ShowFormSign, ShowPageSign, RefuseSign, VouchSign, SignInSign,
       SignOutSign, StoreSign, CloseSign, FailSign DEF Handling
  <1>4. ASSUME NEW r \in Requests, Answering(r) PROVE SignIInv'
    BY <1>1, <1>4, ArriveSign, AbandonSign DEF Answering
  <1>5. ASSUME NEW t \in Tokens, Expire(t) PROVE SignIInv'
    BY <1>1, <1>5, ExpireSign
  <1>6. ASSUME UNCHANGED vars PROVE SignIInv'
    BY <1>1, <1>6, SignStutter
  <1>7. SignIInv'
    BY <1>2, <1>3, <1>4, <1>5, <1>6 DEF Next
  <1> QED
    BY <1>1, <1>7 DEF SessionsIInv
-----------------------------------------------------------------------------
\* The inductive invariant of the requests and the sessions they work on: the type
\* invariant, what requests know at each place in the code, whose sessions there are, and
\* what carries each of the properties.
THEOREM SessionsInvariant == Spec => []SessionsIInv
  <1>1. Init => SessionsIInv
    BY InitInv, SignInit DEF SessionsIInv
  <1> QED
    BY <1>1, SignNextInv, PTL DEF Spec

\* Requests store a whole session, the last one wins, and nothing is lost by it:
\* LoadAndSave's read and write need no transaction.
THEOREM LastWriterLosesNothing == Spec => []SessionCopiesAgree
  <1>1. SessionsIInv => SessionCopiesAgree
    BY DEF SessionsIInv, IInv
  <1> QED
    BY <1>1, SessionsInvariant, PTL

\* GetOrCreateCSRF: the token in a page is the token of the session.
THEOREM PagesCarryTheirSessionsToken == Spec => []PagesMatchSessions
  <1>1. SessionsIInv => PagesMatchSessions
    BY DEF SessionsIInv, IInv
  <1> QED
    BY <1>1, SessionsInvariant, PTL

\* handleLogin, handleRegister and handleLogout through LoadAndSave: what a browser was
\* told by its last sign-in or sign-out is so until the session expires, whatever becomes
\* of the requests it has given up.
THEOREM LastSignInHolds == Spec => []SignInsLast
  <1>1. SessionsIInv => SignInsLast
    <2> SUFFICES ASSUME SessionsIInv, NEW b \in Browsers, last[b] # Unknown,
                        \A r \in InFlight(b) : req[r].kind \notin Turning
                 PROVE  UserOf(jar[b]) = last[b]
      BY DEF SignInsLast
    <2>1. \A r \in InFlight(b) : ~req[r].turned
      BY DEF SessionsIInv, SignIInv, TurnsAreFormed, TurnFormed, InFlight
    <2> QED
      BY <2>1 DEF SessionsIInv, SignIInv, SettledSessionsAgree, Settled
  <1> QED
    BY <1>1, SessionsInvariant, PTL
=============================================================================

--------------------------- MODULE Sessions_proof ---------------------------
(***************************************************************************)
(* Proofs about sessions, for any number of sign-ins, requests and lost    *)
(* messages: of a session that was signed out nothing can be renewed but   *)
(* what slipped past its deletion, the browser never slips into a session  *)
(* nobody signed in to, and a session in use lasts however its renewals    *)
(* interleave.                                                             *)
(***************************************************************************)
EXTENDS Sessions, TLAPS

-----------------------------------------------------------------------------
(* Types.                                                                  *)

\* Who signs out at the API has a token to sign out with.
LeavingInv ==
  \A r \in Requests :
    request[r].step \in {"leaving", "deleting"} => request[r].cookies.refresh \in Tokens

TypeInv == TypeOK /\ LeavingInv

LEMMA CookieTypes ==
  /\ ClearSession \in Cookies
  /\ Idle \in Request
  /\ \A t \in Tokens : StoreSession(t) \in Cookies /\ Family(t) \in Sessions
  /\ \A held : AccessOnly(held) \in Cookies
BY DEF ClearSession, Cookies, Idle, Request, Kinds, Steps, Tokens, StoreSession,
       Family, AccessOnly

LEMMA ResumeType ==
  ASSUME TypeOK, NEW t \in Tokens, NEW issued \in Tokens \cup {None}, Resume(t, issued)
  PROVE  request' \in [Requests -> Request]
<1>1. ASSUME NEW r \in Requests
      PROVE  [request[r] EXCEPT !.step = "forwarded",
                !.answer = IF issued = None THEN ClearSession ELSE StoreSession(issued)]
               \in Request
  <2>1. (IF issued = None THEN ClearSession ELSE StoreSession(issued)) \in Cookies
    BY CookieTypes
  <2>2. request[r] \in Request
    BY DEF TypeOK
  <2>. QED
    BY <2>1, <2>2 DEF Request, Steps
<1>. QED
  BY <1>1 DEF Resume, TypeOK

LEMMA RefreshType ==
  ASSUME TypeOK, NEW r \in Requests, NEW retried \in BOOLEAN, RefreshSession(r, retried)
  PROVE  TypeOK'
<1> DEFINE t == request[r].cookies.refresh
<1>1. t \in Tokens
  BY DEF RefreshSession, TypeOK, Request, Cookies
<1>2. request' \in [Requests -> Request]
  BY DEF RefreshSession, TypeOK, Request, Steps
<1>3. [token |-> t, stage |-> "sent", issued |-> None, heard |-> TRUE, since |-> 0] \in Renewal
  BY <1>1 DEF Renewal
<1>4. renewals' \subseteq Renewal
  BY <1>3 DEF RefreshSession, TypeOK
<1>5. unbroken' \subseteq Sessions
  BY DEF RefreshSession, TypeOK
<1>. QED
  BY <1>2, <1>4, <1>5 DEF RefreshSession, TypeOK, rows

LEMMA RevokeType ==
  ASSUME TypeOK, NEW f, NEW began \in Nat, RevokeFamily(f, began)
  PROVE  live' \subseteq Tokens /\ spent' \subseteq Tokens /\ overlooked' \in [Sessions -> Nat]
<1>1. live' \subseteq Tokens /\ spent' \subseteq Tokens
  BY DEF RevokeFamily, TypeOK
<1>2. (IF OfFamily(f, Rows) = Seen(f, began) THEN 0 ELSE began) \in Nat
  OBVIOUS
<1>. QED
  BY <1>1, <1>2 DEF RevokeFamily, TypeOK

\* A deletion has begun after a moment the counter of its family names.
LEMMA BeganType ==
  ASSUME TypeOK, NEW f \in Sessions, NEW since \in Nat, NEW began \in since..count[f]
  PROVE  began \in Nat
BY DEF TypeOK

LEMMA CommittedType ==
  ASSUME TypeOK, NEW p \in renewals, NEW issued \in Tokens \cup {None},
         Committed(p, issued)
  PROVE  renewals' \subseteq Renewal
<1>1. [p EXCEPT !.stage = "done", !.issued = issued, !.since = 0] \in Renewal
  BY DEF TypeOK, Renewal
<1>. QED
  BY <1>1 DEF Committed, TypeOK

LEMMA ResumeKeepsLeaving ==
  ASSUME TypeInv, NEW t, NEW issued, Resume(t, issued)
  PROVE  LeavingInv'
BY DEF Resume, TypeInv, TypeOK, LeavingInv, Request

LEMMA TypeInit == Init => TypeInv
<1> SUFFICES ASSUME Init PROVE TypeInv
  OBVIOUS
<1>1. request \in [Requests -> Request] /\ jar \in Cookies
  BY CookieTypes DEF Init
<1>2. /\ lost \in 0..MaxLost /\ count \in [Sessions -> Nat]
      /\ overlooked \in [Sessions -> Nat]
  BY SessionsAssumption DEF Init
<1>3. LeavingInv
  BY DEF Init, LeavingInv, Idle
<1>. QED
  BY <1>1, <1>2, <1>3 DEF Init, TypeInv, TypeOK

LEMMA TypeStep == TypeInv /\ [Next]_vars => TypeInv'
<1> SUFFICES ASSUME TypeInv, [Next]_vars PROVE TypeInv'
  OBVIOUS
<1> USE DEF TypeInv
<1>1. ASSUME NEW r \in Requests, Send(r) PROVE TypeInv'
  <2>1. [Idle EXCEPT !.step = "sent", !.cookies = jar] \in Request
    BY CookieTypes DEF TypeOK, Request, Steps
  <2>2. TypeOK'
    BY <1>1, <2>1 DEF Send, TypeOK, rows, history
  <2>. QED
    BY <1>1, <2>2 DEF Send, LeavingInv, TypeOK, Idle
<1>2. ASSUME NEW r \in Requests, UseToken(r) PROVE TypeInv'
  <2>1. TypeOK'
    BY <1>2 DEF UseToken, TypeOK, rows, history, Request, Steps
  <2>. QED
    BY <1>2, <2>1 DEF UseToken, LeavingInv, TypeOK, Request
<1>3. ASSUME NEW r \in Requests, NEW retried \in BOOLEAN, RefreshSession(r, retried)
      PROVE  TypeInv'
  <2>1. TypeOK'
    BY <1>3, RefreshType
  <2>. QED
    BY <1>3, <2>1 DEF RefreshSession, LeavingInv, TypeOK, Request
<1>4. ASSUME NEW r \in Requests, NEW f \in Sessions, Login(r, f) PROVE TypeInv'
  <2> DEFINE new == [Idle EXCEPT !.kind = "login", !.step = "forwarded",
                                 !.cookies = jar, !.answer = StoreSession(<<f, 0>>)]
  <2>1. <<f, 0>> \in Tokens
    BY DEF Tokens
  <2>2. new \in Request
    BY <2>1, CookieTypes DEF TypeOK, Request, Steps, Kinds
  <2>3. request' = [request EXCEPT ![r] = new]
    BY <1>4 DEF Login
  <2>4. request' \in [Requests -> Request]
    BY <2>2, <2>3 DEF TypeOK
  <2>5. TypeOK'
    BY <1>4, <2>1, <2>4 DEF Login, TypeOK
  <2>6. new.step = "forwarded"
    BY DEF Idle
  <2>. QED
    BY <2>3, <2>5, <2>6 DEF LeavingInv, TypeOK
<1>5. ASSUME NEW r \in Requests, SignInAccessOnly(r) PROVE TypeInv'
  <2> DEFINE new == [Idle EXCEPT !.kind = "access", !.step = "forwarded",
                                 !.cookies = jar, !.answer = AccessOnly(jar)]
  <2>1. new \in Request
    BY CookieTypes DEF TypeOK, Request, Steps, Kinds
  <2>2. request' = [request EXCEPT ![r] = new]
    BY <1>5 DEF SignInAccessOnly
  <2>3. TypeOK'
    BY <1>5, <2>1, <2>2 DEF SignInAccessOnly, TypeOK, rows, history
  <2>4. new.step = "forwarded"
    BY DEF Idle
  <2>. QED
    BY <2>2, <2>3, <2>4 DEF LeavingInv, TypeOK
<1>6. ASSUME NEW r \in Requests, Logout(r) PROVE TypeInv'
  <2> DEFINE new == [Idle EXCEPT !.kind = "logout", !.cookies = jar,
                       !.answer = ClearSession,
                       !.step = IF jar.refresh = None THEN "forwarded" ELSE "leaving"]
  <2>1. new \in Request
    BY CookieTypes DEF TypeOK, Request, Steps, Kinds
  <2>2. request' = [request EXCEPT ![r] = new]
    BY <1>6 DEF Logout
  <2>3. TypeOK'
    BY <1>6, <2>1, <2>2 DEF Logout, TypeOK, rows
  <2>4. new.step \in {"leaving", "deleting"} => new.cookies.refresh \in Tokens
    BY DEF Idle, TypeOK, Cookies
  <2>. QED
    BY <2>2, <2>3, <2>4 DEF LeavingInv, TypeOK
<1>7. ASSUME NEW r \in Requests, LogoutUser(r) PROVE TypeInv'
  <2>1. request[r].cookies.refresh \in Tokens
    BY <1>7 DEF LogoutUser, LeavingInv
  <2>2. PICK began \in request[r].since..count[Family(request[r].cookies.refresh)] :
               RevokeFamily(Family(request[r].cookies.refresh), began)
    BY <1>7 DEF LogoutUser
  <2>3. Family(request[r].cookies.refresh) \in Sessions /\ request[r].since \in Nat
    BY <2>1, CookieTypes DEF TypeOK, Request
  <2>4. live' \subseteq Tokens /\ spent' \subseteq Tokens /\ overlooked' \in [Sessions -> Nat]
    BY <2>2, <2>3, BeganType, RevokeType
  <2>5. signedOut' \subseteq Sessions
    BY <1>7, <2>3 DEF LogoutUser, TypeOK
  <2>6. request' \in [Requests -> Request]
    BY <1>7 DEF LogoutUser, TypeOK, Request, Steps
  <2>7. TypeOK'
    BY <1>7, <2>4, <2>5, <2>6 DEF LogoutUser, TypeOK
  <2>. QED
    BY <1>7, <2>7 DEF LogoutUser, LeavingInv, TypeOK, Request
<1>18. ASSUME NEW r \in Requests, FindSession(r) PROVE TypeInv'
  <2> DEFINE t == request[r].cookies.refresh
  <2>1. t \in Tokens /\ Family(t) \in Sessions
    BY <1>18, CookieTypes DEF FindSession, LeavingInv
  <2>2. CASE t \in Rows
    <3>1. count[Family(t)] \in Nat
      BY <2>1 DEF TypeOK
    <3>2. /\ request' = [request EXCEPT ![r].step = "deleting", ![r].since = count[Family(t)]]
          /\ UNCHANGED <<jar, renewals, rows, lost, history>>
      BY <1>18, <2>2 DEF FindSession, history
    <3>3. request' \in [Requests -> Request]
      BY <3>1, <3>2 DEF TypeOK, Request, Steps
    <3>4. TypeOK'
      BY <3>2, <3>3 DEF TypeOK, rows, history
    <3>. QED
      BY <2>1, <3>2, <3>4 DEF LeavingInv, TypeOK, Request
  <2>3. CASE t \notin Rows
    <3>1. /\ request' = [request EXCEPT ![r].step = "forwarded"]
          /\ signedOut' = signedOut \cup {Family(t)}
          /\ UNCHANGED <<jar, renewals, rows, lost, over, unbroken>>
      BY <1>18, <2>3 DEF FindSession
    <3>2. request' \in [Requests -> Request]
      BY <3>1 DEF TypeOK, Request, Steps
    <3>3. TypeOK'
      BY <2>1, <3>1, <3>2 DEF TypeOK, rows
    <3>. QED
      BY <3>1, <3>3 DEF LeavingInv, TypeOK, Request
  <2>. QED
    BY <2>2, <2>3
<1>8. ASSUME NEW r \in Requests, Deliver(r) PROVE TypeInv'
  <2>1. request[r] \in Request
    BY DEF TypeOK
  <2>2. jar' \in Cookies
    BY <1>8, <2>1 DEF Deliver, TypeOK, Request
  <2>3. unbroken' \subseteq Sessions
    BY <1>8 DEF Deliver, TypeOK
  <2>4. request' \in [Requests -> Request]
    BY <1>8, CookieTypes DEF Deliver, TypeOK
  <2>5. TypeOK'
    BY <1>8, <2>2, <2>3, <2>4 DEF Deliver, TypeOK, rows
  <2>. QED
    BY <1>8, <2>5 DEF Deliver, LeavingInv, TypeOK, Idle
<1>9. ASSUME NEW r \in Requests, LoseAnswer(r) PROVE TypeInv'
  <2>1. request' \in [Requests -> Request]
    BY <1>9, CookieTypes DEF LoseAnswer, TypeOK
  <2>2. unbroken' \subseteq Sessions
    BY <1>9 DEF LoseAnswer, TypeOK
  <2>3. TypeOK'
    BY <1>9, <2>1, <2>2, SessionsAssumption DEF LoseAnswer, TypeOK, rows
  <2>. QED
    BY <1>9, <2>3 DEF LoseAnswer, LeavingInv, TypeOK, Idle
<1>10. ASSUME NEW r \in Requests, LoseLogout(r) PROVE TypeInv'
  <2>1. request' \in [Requests -> Request]
    BY <1>10 DEF LoseLogout, TypeOK, Request, Steps
  <2>2. TypeOK'
    BY <1>10, <2>1, SessionsAssumption DEF LoseLogout, TypeOK, rows, history
  <2>. QED
    BY <1>10, <2>2 DEF LoseLogout, LeavingInv, TypeOK, Request
<1>11. ASSUME NEW p \in renewals, ReadRow(p) PROVE TypeInv'
  <2> DEFINE stage == IF p.token \notin Rows THEN "reject"
                      ELSE IF p.token \in spent THEN "revoke" ELSE "rotate"
             since == IF p.token \in spent THEN count[Family(p.token)] ELSE 0
  <2>1. renewals' \subseteq Renewal
    <3>1. p \in Renewal /\ Family(p.token) \in Sessions
      BY CookieTypes DEF TypeOK, Renewal
    <3>2. stage \in {"rotate", "revoke", "reject"} /\ since \in Nat
      BY <3>1 DEF TypeOK
    <3>3. [p EXCEPT !.stage = stage, !.since = since] \in Renewal
      BY <3>1, <3>2 DEF Renewal
    <3>4. renewals' = (renewals \ {p}) \cup {[p EXCEPT !.stage = stage, !.since = since]}
      BY <1>11 DEF ReadRow
    <3>. QED
      BY <3>3, <3>4 DEF TypeOK
  <2>. QED
    BY <1>11, <2>1 DEF ReadRow, TypeOK, LeavingInv, browser, rows, history
<1>12. ASSUME NEW p \in renewals, Rotate(p) PROVE TypeInv'
  <2> DEFINE f == Family(p.token)
             new == <<f, count[f]>>
  <2>1. p.token \in Tokens /\ f \in Sessions
    BY CookieTypes DEF TypeOK, Renewal
  <2>2. new \in Tokens
    BY <2>1 DEF Tokens, TypeOK
  <2>3. renewals' \subseteq Renewal
    BY <1>12, <2>2, CommittedType DEF Rotate
  <2>4. live' \subseteq Tokens /\ spent' \subseteq Tokens
    BY <1>12, <2>1, <2>2 DEF Rotate, TypeOK, rows
  <2>5. count' \in [Sessions -> Nat] /\ overlooked' = overlooked
    BY <1>12, <2>1 DEF Rotate, TypeOK, rows
  <2>. QED
    BY <1>12, <2>3, <2>4, <2>5 DEF Rotate, TypeOK, LeavingInv, browser, history
<1>13. ASSUME NEW p \in renewals, Refuse(p) PROVE TypeInv'
  <2>1. renewals' \subseteq Renewal
    BY <1>13, CommittedType DEF Refuse
  <2>2. live' \subseteq Tokens /\ spent' \subseteq Tokens /\ overlooked' \in [Sessions -> Nat]
    <3>1. CASE \E began \in p.since..count[Family(p.token)] :
                 RevokeFamily(Family(p.token), began)
      <4>1. PICK began \in p.since..count[Family(p.token)] :
                   RevokeFamily(Family(p.token), began)
        BY <3>1
      <4>2. Family(p.token) \in Sessions /\ p.since \in Nat
        BY CookieTypes DEF TypeOK, Renewal
      <4>. QED
        BY <4>1, <4>2, BeganType, RevokeType
    <3>2. CASE UNCHANGED <<live, spent, overlooked>>
      BY <3>2 DEF TypeOK
    <3>. QED
      BY <1>13, <3>1, <3>2 DEF Refuse
  <2>. QED
    BY <1>13, <2>1, <2>2 DEF Refuse, TypeOK, LeavingInv, browser, history
<1>14. ASSUME NEW p \in renewals, EndExchange(p) PROVE TypeInv'
  <2>1. p.token \in Tokens /\ p.issued \in Tokens \cup {None}
    BY DEF TypeOK, Renewal
  <2>2. request' \in [Requests -> Request]
    BY <1>14, <2>1, ResumeType DEF EndExchange
  <2>3. LeavingInv'
    BY <1>14, ResumeKeepsLeaving DEF EndExchange
  <2>. QED
    BY <1>14, <2>1, <2>2, <2>3 DEF EndExchange, TypeOK, rows
<1>15. ASSUME NEW p \in renewals, LoseRenewal(p) PROVE TypeInv'
  <2>1. p \in Renewal /\ p.token \in Tokens
    BY DEF TypeOK, Renewal
  <2>2. request' \in [Requests -> Request]
    BY <1>15, <2>1, ResumeType DEF LoseRenewal
  <2>3. LeavingInv'
    BY <1>15, ResumeKeepsLeaving DEF LoseRenewal
  <2>4. renewals' \subseteq Renewal
    <3>1. [p EXCEPT !.heard = FALSE] \in Renewal
      BY <2>1 DEF Renewal
    <3>. QED
      BY <1>15, <3>1 DEF LoseRenewal, TypeOK
  <2>5. lost' \in 0..MaxLost
    BY <1>15, SessionsAssumption DEF LoseRenewal, TypeOK
  <2>6. unbroken' \subseteq Sessions /\ over' \subseteq Tokens
    BY <1>15, <2>1 DEF LoseRenewal, TypeOK
  <2>7. /\ jar' = jar /\ live' = live /\ spent' = spent /\ count' = count
        /\ signedOut' = signedOut /\ overlooked' = overlooked
    BY <1>15 DEF LoseRenewal, rows
  <2>8. TypeOK'
    BY <2>2, <2>4, <2>5, <2>6, <2>7 DEF TypeOK
  <2>. QED
    BY <2>3, <2>8
<1>16. ASSUME NEW f \in Sessions, RevokeUserSessions(f) PROVE TypeInv'
  <2>1. live' \subseteq Tokens /\ spent' \subseteq Tokens /\ overlooked' \in [Sessions -> Nat]
    BY <1>16, BeganType, RevokeType DEF RevokeUserSessions
  <2>. QED
    BY <1>16, <2>1 DEF RevokeUserSessions, TypeOK, LeavingInv, browser
<1>17. CASE UNCHANGED vars
  BY <1>17 DEF vars, browser, rows, history, TypeOK, LeavingInv
<1>. QED
  BY <1>1, <1>2, <1>3, <1>4, <1>5, <1>6, <1>7, <1>8, <1>9, <1>10, <1>11, <1>12,
     <1>13, <1>14, <1>15, <1>16, <1>17, <1>18 DEF Next, Serve, Renew, Retry

\* Cookies, requests, renewals and rows keep their types (the step relation of
\* the module).
THEOREM TypeCorrect == Spec => []TypeOK
<1>1. TypeInv => TypeOK
  BY DEF TypeInv
<1>. QED
  BY <1>1, TypeInit, TypeStep, PTL DEF Spec

-----------------------------------------------------------------------------
(* The cookies of one browser belong together, in the browser, in every    *)
(* request and on every answer.                                            *)

Agrees(c) == c.refresh # None => c.who = Family(c.refresh)

RequestAgrees(q) ==
  /\ Agrees(q.cookies)
  /\ q.answer # None => Agrees(q.answer)
  /\ q.kind = "call" /\ q.answer # None => q.answer.who \in {None, q.cookies.who}

AgreeInv ==
  /\ Agrees(jar)
  /\ \A r \in Requests : RequestAgrees(request[r])
  /\ \A p \in renewals : p.issued # None => Family(p.issued) = Family(p.token)

LEMMA FreshCookiesAgree ==
  /\ Agrees(ClearSession)
  /\ \A held : Agrees(AccessOnly(held))
  /\ \A t \in Tokens : Agrees(StoreSession(t))
  /\ RequestAgrees(Idle)
BY DEF Agrees, RequestAgrees, ClearSession, AccessOnly, StoreSession, Idle

\* Whoever waits for an exchange gets cookies of the session it was sent in.
LEMMA ResumeAgrees ==
  ASSUME TypeInv, AgreeInv, NEW t \in Tokens, NEW issued \in Tokens \cup {None},
         issued # None => Family(issued) = Family(t), Resume(t, issued)
  PROVE  \A r \in Requests : RequestAgrees(request'[r])
<1> SUFFICES ASSUME NEW r \in Requests PROVE RequestAgrees(request'[r])
  OBVIOUS
<1> DEFINE given == IF issued = None THEN ClearSession ELSE StoreSession(issued)
           new == [request[r] EXCEPT !.step = "forwarded", !.answer = given]
<1>1. request[r] \in Request /\ RequestAgrees(request[r])
  BY DEF TypeInv, TypeOK, AgreeInv
<1>2. CASE request[r].step = "waiting" /\ request[r].cookies.refresh = t
  <2>1. request'[r] = new
    BY <1>2 DEF Resume
  <2>2. new.cookies = request[r].cookies /\ new.answer = given
    BY <1>1 DEF Request
  <2>3. Agrees(given)
    BY FreshCookiesAgree
  <2>4. t # None
    BY SessionsAssumption DEF Tokens
  <2>5. request[r].cookies.who = Family(t)
    BY <1>1, <1>2, <2>4 DEF RequestAgrees, Agrees
  <2>6. given.who \in {None, Family(t)}
    BY DEF ClearSession, StoreSession
  <2>. QED
    BY <1>1, <2>1, <2>2, <2>3, <2>5, <2>6 DEF RequestAgrees
<1>3. CASE ~(request[r].step = "waiting" /\ request[r].cookies.refresh = t)
  BY <1>1, <1>3 DEF Resume
<1>. QED
  BY <1>2, <1>3

\* What the API finds of a sign-out's token moves the sign-out on.
LEMMA FindSessionMoves ==
  ASSUME TypeInv, NEW r \in Requests, FindSession(r)
  PROVE  \E step \in {"deleting", "forwarded"}, since \in Nat :
           request' = [request EXCEPT ![r] = [request[r] EXCEPT !.step = step, !.since = since]]
<1> DEFINE t == request[r].cookies.refresh
<1>1. request[r] \in Request /\ t \in Tokens /\ Family(t) \in Sessions
  BY CookieTypes DEF TypeInv, TypeOK, LeavingInv, FindSession
<1>2. CASE t \in Rows
  <2>1. request' = [request EXCEPT ![r].step = "deleting", ![r].since = count[Family(t)]]
    BY <1>2 DEF FindSession
  <2>2. request' = [request EXCEPT ![r] =
                      [request[r] EXCEPT !.step = "deleting", !.since = count[Family(t)]]]
    BY <1>1, <2>1 DEF TypeInv, TypeOK, Request
  <2>3. count[Family(t)] \in Nat
    BY <1>1 DEF TypeInv, TypeOK
  <2>. QED
    BY <2>2, <2>3
<1>3. CASE t \notin Rows
  <2>1. request' = [request EXCEPT ![r].step = "forwarded"]
    BY <1>3 DEF FindSession
  <2>2. request' = [request EXCEPT ![r] =
                      [request[r] EXCEPT !.step = "forwarded", !.since = request[r].since]]
    BY <1>1, <2>1 DEF TypeInv, TypeOK, Request
  <2>3. request[r].since \in Nat
    BY <1>1 DEF Request
  <2>. QED
    BY <2>2, <2>3
<1>. QED
  BY <1>2, <1>3

LEMMA LogoutUserMoves ==
  ASSUME TypeInv, NEW r \in Requests, LogoutUser(r)
  PROVE  request' = [request EXCEPT ![r] = [request[r] EXCEPT !.step = "forwarded", !.since = 0]]
BY DEF LogoutUser, TypeInv, TypeOK, Request

LEMMA AgreeStep == TypeInv /\ AgreeInv /\ [Next]_vars => AgreeInv'
<1> SUFFICES ASSUME TypeInv, AgreeInv, [Next]_vars PROVE AgreeInv'
  OBVIOUS
<1> USE DEF TypeInv
\* A step that touches one request, and of the rest at most the stages of renewals.
<1>1. ASSUME NEW r \in Requests, NEW new, request' = [request EXCEPT ![r] = new],
             RequestAgrees(new), Agrees(jar'),
             \A p \in renewals' : p \in renewals \/ p.issued = None
      PROVE  AgreeInv'
  BY <1>1 DEF AgreeInv, TypeOK
<1>2. ASSUME NEW r \in Requests, Send(r) PROVE AgreeInv'
  <2>1. RequestAgrees([Idle EXCEPT !.step = "sent", !.cookies = jar])
    BY DEF AgreeInv, RequestAgrees, Idle
  <2>. QED
    BY <1>1, <1>2, <2>1 DEF Send, AgreeInv
<1>3. ASSUME NEW r \in Requests, UseToken(r) \/ LoseLogout(r) PROVE AgreeInv'
  <2>1. request' = [request EXCEPT ![r] = [request[r] EXCEPT !.step = "forwarded"]]
    BY <1>3 DEF UseToken, LoseLogout, TypeOK
  <2>2. RequestAgrees([request[r] EXCEPT !.step = "forwarded"])
    BY DEF AgreeInv, RequestAgrees, TypeOK, Request
  <2>3. jar' = jar /\ renewals' = renewals
    BY <1>3 DEF UseToken, LoseLogout
  <2>. QED
    BY <1>1, <2>1, <2>2, <2>3 DEF AgreeInv
<1>4. ASSUME NEW r \in Requests, NEW retried \in BOOLEAN, RefreshSession(r, retried)
      PROVE  AgreeInv'
  <2> DEFINE new == [request[r] EXCEPT !.step = "waiting", !.retried = retried]
  <2>1. request' = [request EXCEPT ![r] = new]
    BY <1>4 DEF RefreshSession, TypeOK, Request
  <2>2. RequestAgrees(new)
    BY DEF AgreeInv, RequestAgrees, TypeOK, Request
  <2>3. \A p \in renewals' : p \in renewals \/ p.issued = None
    BY <1>4 DEF RefreshSession
  <2>4. jar' = jar
    BY <1>4 DEF RefreshSession
  <2>. QED
    BY <1>1, <2>1, <2>2, <2>3, <2>4 DEF AgreeInv
<1>5. ASSUME NEW r \in Requests, NEW f \in Sessions, Login(r, f) PROVE AgreeInv'
  <2> DEFINE new == [Idle EXCEPT !.kind = "login", !.step = "forwarded",
                                 !.cookies = jar, !.answer = StoreSession(<<f, 0>>)]
  <2>1. <<f, 0>> \in Tokens
    BY DEF Tokens
  <2>2. RequestAgrees(new)
    BY <2>1, FreshCookiesAgree DEF AgreeInv, RequestAgrees, Idle
  <2>. QED
    BY <1>1, <1>5, <2>2 DEF Login, AgreeInv
<1>6. ASSUME NEW r \in Requests, SignInAccessOnly(r) PROVE AgreeInv'
  <2> DEFINE new == [Idle EXCEPT !.kind = "access", !.step = "forwarded",
                                 !.cookies = jar, !.answer = AccessOnly(jar)]
  <2>1. RequestAgrees(new)
    BY FreshCookiesAgree DEF AgreeInv, RequestAgrees, Idle
  <2>. QED
    BY <1>1, <1>6, <2>1 DEF SignInAccessOnly, AgreeInv
<1>7. ASSUME NEW r \in Requests, Logout(r) PROVE AgreeInv'
  <2> DEFINE new == [Idle EXCEPT !.kind = "logout", !.cookies = jar,
                       !.answer = ClearSession,
                       !.step = IF jar.refresh = None THEN "forwarded" ELSE "leaving"]
  <2>1. RequestAgrees(new)
    BY FreshCookiesAgree DEF AgreeInv, RequestAgrees, Idle
  <2>. QED
    BY <1>1, <1>7, <2>1 DEF Logout, AgreeInv
<1>8. ASSUME NEW r \in Requests, LogoutUser(r) PROVE AgreeInv'
  <2> DEFINE new == [request[r] EXCEPT !.step = "forwarded", !.since = 0]
  <2>1. request' = [request EXCEPT ![r] = new]
    BY <1>8, LogoutUserMoves
  <2>2. RequestAgrees(new)
    BY DEF AgreeInv, RequestAgrees, TypeOK, Request
  <2>3. jar' = jar /\ renewals' = renewals
    BY <1>8 DEF LogoutUser
  <2>. QED
    BY <1>1, <2>1, <2>2, <2>3 DEF AgreeInv
<1>19. ASSUME NEW r \in Requests, FindSession(r) PROVE AgreeInv'
  <2>1. PICK step \in {"deleting", "forwarded"}, since \in Nat :
               request' = [request EXCEPT ![r] = [request[r] EXCEPT !.step = step, !.since = since]]
    BY <1>19, FindSessionMoves
  <2>2. RequestAgrees([request[r] EXCEPT !.step = step, !.since = since])
    BY DEF AgreeInv, RequestAgrees, TypeOK, Request
  <2>3. jar' = jar /\ renewals' = renewals
    BY <1>19 DEF FindSession
  <2>. QED
    BY <1>1, <2>1, <2>2, <2>3 DEF AgreeInv
<1>9. ASSUME NEW r \in Requests, Deliver(r) PROVE AgreeInv'
  <2>1. Agrees(jar')
    BY <1>9 DEF Deliver, AgreeInv, RequestAgrees
  <2>. QED
    BY <1>1, <1>9, <2>1, FreshCookiesAgree DEF Deliver
<1>10. ASSUME NEW r \in Requests, LoseAnswer(r) PROVE AgreeInv'
  BY <1>1, <1>10, FreshCookiesAgree DEF LoseAnswer, AgreeInv
<1>11. ASSUME NEW p \in renewals, ReadRow(p) PROVE AgreeInv'
  <2>1. p \in Renewal
    BY DEF TypeOK
  <2>2. \A q \in renewals' : q \in renewals \/ (q.issued = p.issued /\ q.token = p.token)
    BY <1>11, <2>1 DEF ReadRow, Renewal
  <2>. QED
    BY <1>11, <2>2 DEF ReadRow, AgreeInv, browser
<1>12. ASSUME NEW p \in renewals, NEW issued,
              issued # None => Family(issued) = Family(p.token),
              Committed(p, issued), UNCHANGED browser
       PROVE  AgreeInv'
  <2>1. p \in Renewal
    BY DEF TypeOK
  <2>2. \A q \in renewals' : q \in renewals \/ (q.issued = issued /\ q.token = p.token)
    BY <1>12, <2>1 DEF Committed, Renewal
  <2>. QED
    BY <1>12, <2>2 DEF AgreeInv, browser
<1>13. ASSUME NEW p \in renewals, Rotate(p) PROVE AgreeInv'
  <2>1. Family(<<Family(p.token), count[Family(p.token)]>>) = Family(p.token)
    BY DEF Family
  <2>. QED
    BY <1>12, <1>13, <2>1 DEF Rotate
<1>14. ASSUME NEW p \in renewals, Refuse(p) PROVE AgreeInv'
  BY <1>12, <1>14 DEF Refuse
<1>15. ASSUME NEW p \in renewals, EndExchange(p) PROVE AgreeInv'
  <2>1. p.token \in Tokens /\ p.issued \in Tokens \cup {None}
    BY DEF TypeOK, Renewal
  <2>2. \A r \in Requests : RequestAgrees(request'[r])
    BY <1>15, <2>1, ResumeAgrees DEF EndExchange, AgreeInv
  <2>. QED
    BY <1>15, <2>2 DEF EndExchange, AgreeInv
<1>16. ASSUME NEW p \in renewals, LoseRenewal(p) PROVE AgreeInv'
  <2>1. p \in Renewal /\ p.token \in Tokens
    BY DEF TypeOK, Renewal
  <2>2. \A r \in Requests : RequestAgrees(request'[r])
    BY <1>16, <2>1, ResumeAgrees DEF LoseRenewal
  <2>3. \A q \in renewals' : q \in renewals \/ (q.issued = p.issued /\ q.token = p.token)
    BY <1>16, <2>1 DEF LoseRenewal, Renewal
  <2>. QED
    BY <1>16, <2>2, <2>3 DEF LoseRenewal, AgreeInv
<1>17. ASSUME NEW f \in Sessions, RevokeUserSessions(f) PROVE AgreeInv'
  BY <1>17 DEF RevokeUserSessions, AgreeInv, browser
<1>18. CASE UNCHANGED vars
  BY <1>18 DEF vars, browser, AgreeInv
<1>. QED
  BY <1>2, <1>3, <1>4, <1>5, <1>6, <1>7, <1>8, <1>9, <1>10, <1>11, <1>13, <1>14,
     <1>15, <1>16, <1>17, <1>18, <1>19 DEF Next, Serve, Renew, Retry

\* Only a delivered answer changes the browser's cookies.
LEMMA DeliverIdentity ==
  ASSUME TypeInv, AgreeInv, NEW d \in Requests, Deliver(d), NEW r \in Requests,
         request[r].step = "forwarded", request'[r] = Idle, jar'.who # jar.who
  PROVE  request[r].kind \in SignsInOrOut \/ jar'.who \in {None, request[r].cookies.who}
<1>1. r = d
  BY DEF Deliver, TypeInv, TypeOK, Idle
<1>2. request[r].answer # None /\ jar' = request[r].answer
  BY <1>1 DEF Deliver
<1>3. request[r].kind \in Kinds
  BY DEF TypeInv, TypeOK, Request
<1>. QED
  BY <1>2, <1>3 DEF AgreeInv, RequestAgrees, Kinds, SignsInOrOut

\* The browser never slips into a session nobody signed in to
\* (server/session.ts, refreshSession and storeAccessTokenOnlySession).
THEOREM IdentityIsKept == Spec => IdentityChangesBySignIn
<1>1. Init => AgreeInv
  BY FreshCookiesAgree DEF Init, AgreeInv
<1>2. ASSUME TypeInv, AgreeInv, Next PROVE IdentityStep
  <2>1. CASE \E d \in Requests : Deliver(d)
    BY <1>2, <2>1, DeliverIdentity DEF IdentityStep
  <2>2. CASE ~\E d \in Requests : Deliver(d)
    <3>1. jar' = jar
      BY <1>2, <2>2 DEF Next, Serve, Send, UseToken, Renew, Retry, RefreshSession, Login,
         SignInAccessOnly, Logout, FindSession, LogoutUser, LoseAnswer, LoseLogout, ReadRow, Rotate,
         Refuse, EndExchange, LoseRenewal, RevokeUserSessions, browser
    <3>. QED
      BY <3>1 DEF IdentityStep
  <2>. QED
    BY <2>1, <2>2
<1>3. TypeInv /\ AgreeInv /\ [Next]_vars => [IdentityStep]_vars
  BY <1>2
<1>. QED
  BY <1>1, <1>3, TypeInit, TypeStep, AgreeStep, PTL DEF Spec, IdentityChangesBySignIn

-----------------------------------------------------------------------------
(* The rows of a family are all of its tokens, or none: a token is kept    *)
(* when it is used and goes when its family goes.  Where a rotation has    *)
(* slipped past the last deletion they are what was issued since.          *)

Issued(t) == t \in Tokens => t[2] < count[t[1]]

RequestIssued(q) ==
  /\ Issued(q.cookies.refresh)
  /\ q.answer # None => Issued(q.answer.refresh)

IssuedInv ==
  /\ Issued(jar.refresh)
  /\ \A r \in Requests : RequestIssued(request[r])
  /\ \A p \in renewals : Issued(p.token) /\ Issued(p.issued)

AllOrNothing ==
  \A t \in Rows : overlooked[t[1]] = 0 =>
    \A n \in Nat : n < count[t[1]] => <<t[1], n>> \in Rows

\* What a deletion left begins where it did.
LeftFrom ==
  /\ \A f \in Sessions : overlooked[f] <= count[f]
  /\ \A t \in Rows : overlooked[t[1]] <= t[2]

SignedOutInv ==
  \A f \in signedOut : count[f] > 0 /\ \A t \in Rows : t[1] = f => overlooked[f] > 0

\* Whoever deletes a family has found a token of it.
SinceInv ==
  /\ \A r \in Requests : request[r].step = "deleting" => request[r].since > 0
  /\ \A p \in renewals : p.stage = "revoke" => p.since > 0

RowsInv == IssuedInv /\ AllOrNothing /\ LeftFrom /\ SignedOutInv /\ SinceInv

Deletion(f, began) ==
  /\ count' = count
  /\ Rows' = {t \in Rows : t[1] # f \/ began <= t[2]}
  /\ overlooked' = [overlooked EXCEPT ![f] =
                      IF \A t \in Rows : t[1] = f => t[2] < began THEN 0 ELSE began]

Issue(f) ==
  /\ count' = [count EXCEPT ![f] = @ + 1] /\ overlooked' = overlooked
  /\ Rows' = Rows \cup {<<f, count[f]>>}
  /\ count[f] = 0 \/ \E t \in Rows : t[1] = f

\* What every step does to the counters and the rows.
RowsStep ==
  \/ UNCHANGED <<live, spent, count, overlooked>>
  \/ \E f \in Sessions : \E began \in 1..count[f] : Deletion(f, began)
  \/ \E f \in Sessions : Issue(f)

After(t) == t \in Tokens => t[2] < count'[t[1]]

RequestAfter(q) ==
  /\ After(q.cookies.refresh)
  /\ q.answer # None => After(q.answer.refresh)

LEMMA IssuedStays ==
  ASSUME TypeInv, TypeInv', RowsStep, NEW t, Issued(t)
  PROVE  After(t)
<1>1. \A f \in Sessions : count[f] \in Nat /\ count'[f] \in Nat /\ count'[f] >= count[f]
  BY DEF TypeInv, TypeOK, RowsStep, Deletion, Issue
<1>2. t \in Tokens => t[1] \in Sessions /\ t[2] \in Nat
  BY DEF Tokens
<1>. QED
  BY <1>1, <1>2 DEF Issued, After

LEMMA AfterIsIssued ==
  ASSUME After(jar'.refresh), \A r \in Requests : RequestAfter(request'[r]),
         \A p \in renewals' : After(p.token) /\ After(p.issued)
  PROVE  IssuedInv'
BY DEF IssuedInv, RequestAfter, After, Issued, RequestIssued

LEMMA RevokeRows ==
  ASSUME TypeInv, NEW f \in Sessions, NEW began \in Nat, RevokeFamily(f, began), count' = count
  PROVE  Deletion(f, began)
<1>1. \A t \in Rows : Family(t) = t[1] /\ t[2] \in Nat
  BY DEF Rows, TypeInv, TypeOK, Family, Tokens
<1>2. Rows' = Rows \ Seen(f, began)
  BY DEF RevokeFamily, Rows
<1>3. Seen(f, began) = {t \in Rows : t[1] = f /\ t[2] < began}
  BY <1>1 DEF Seen, OfFamily
<1>4. Rows' = {t \in Rows : t[1] # f \/ began <= t[2]}
  BY <1>1, <1>2, <1>3
<1>5. OfFamily(f, Rows) = Seen(f, began) <=> \A t \in Rows : t[1] = f => t[2] < began
  BY <1>1, <1>3 DEF OfFamily
<1>. QED
  BY <1>4, <1>5 DEF RevokeFamily, Deletion

\* A deletion that began after its family was found begins after a token of it.
LEMMA BeganAfter ==
  ASSUME TypeInv, NEW f \in Sessions, NEW since \in Nat, since > 0,
         NEW began \in since..count[f]
  PROVE  began \in 1..count[f] /\ began \in Nat
BY DEF TypeInv, TypeOK

LEMMA NextRows == TypeInv /\ RowsInv /\ Next => RowsStep
<1> SUFFICES ASSUME TypeInv, RowsInv, Next PROVE RowsStep
  OBVIOUS
<1> USE DEF TypeInv
<1>1. ASSUME NEW r \in Requests, NEW f \in Sessions, Login(r, f) PROVE RowsStep
  <2>1. count[f] = 0 /\ count' = [count EXCEPT ![f] = @ + 1]
    BY <1>1 DEF Login, TypeOK
  <2>2. Rows' = Rows \cup {<<f, count[f]>>} /\ overlooked' = overlooked
    BY <1>1, <2>1 DEF Login, Rows
  <2>. QED
    BY <2>1, <2>2 DEF RowsStep, Issue
<1>2. ASSUME NEW r \in Requests, LogoutUser(r) PROVE RowsStep
  <2> DEFINE f == Family(request[r].cookies.refresh)
  <2>1. f \in Sessions
    BY <1>2, CookieTypes DEF LogoutUser, LeavingInv
  <2>2. PICK began \in request[r].since..count[f] : RevokeFamily(f, began)
    BY <1>2 DEF LogoutUser
  <2>3. request[r].since \in Nat /\ request[r].since > 0
    BY <1>2 DEF LogoutUser, TypeOK, Request, RowsInv, SinceInv
  <2>4. began \in 1..count[f] /\ began \in Nat
    BY <2>1, <2>2, <2>3, BeganAfter
  <2>5. Deletion(f, began)
    BY <1>2, <2>1, <2>2, <2>4, RevokeRows DEF LogoutUser
  <2>. QED
    BY <2>1, <2>4, <2>5 DEF RowsStep
<1>3. ASSUME NEW p \in renewals, Rotate(p) PROVE RowsStep
  <2> DEFINE f == Family(p.token)
  <2>1. f \in Sessions /\ p.token[1] = f
    BY CookieTypes DEF TypeOK, Renewal, Family
  <2>2. CASE HasRow(p.token)
    <3>1. Rows' = Rows \cup {<<f, count[f]>>}
      BY <1>3, <2>2 DEF Rotate, Rows, HasRow
    <3>2. count' = [count EXCEPT ![f] = @ + 1] /\ overlooked' = overlooked
      BY <1>3, <2>2 DEF Rotate
    <3>. QED
      BY <2>1, <2>2, <3>1, <3>2 DEF RowsStep, Issue, HasRow
  <2>3. CASE ~HasRow(p.token)
    BY <1>3, <2>3 DEF Rotate, rows, RowsStep
  <2>. QED
    BY <2>2, <2>3
<1>4. ASSUME NEW p \in renewals, Refuse(p) PROVE RowsStep
  <2> DEFINE f == Family(p.token)
  <2>1. f \in Sessions /\ p.since \in Nat
    BY CookieTypes DEF TypeOK, Renewal
  <2>2. CASE p.stage = "revoke" /\ \E began \in p.since..count[f] : RevokeFamily(f, began)
    <3>1. PICK began \in p.since..count[f] : RevokeFamily(f, began)
      BY <2>2
    <3>2. p.since > 0
      BY <2>2 DEF RowsInv, SinceInv
    <3>3. began \in 1..count[f] /\ began \in Nat
      BY <2>1, <3>1, <3>2, BeganAfter
    <3>4. Deletion(f, began)
      BY <1>4, <2>1, <3>1, <3>3, RevokeRows DEF Refuse
    <3>. QED
      BY <2>1, <3>3, <3>4 DEF RowsStep
  <2>3. CASE UNCHANGED <<live, spent, overlooked>>
    BY <1>4, <2>3 DEF Refuse, RowsStep
  <2>. QED
    BY <1>4, <2>2, <2>3 DEF Refuse
<1>5. ASSUME NEW f \in Sessions, RevokeUserSessions(f) PROVE RowsStep
  <2>1. PICK began \in 1..count[f] : RevokeFamily(f, began)
    BY <1>5 DEF RevokeUserSessions
  <2>2. Deletion(f, began)
    BY <1>5, <2>1, RevokeRows DEF RevokeUserSessions
  <2>. QED
    BY <2>1, <2>2 DEF RowsStep
<1>6. ASSUME NEW r \in Requests,
             Send(r) \/ UseToken(r) \/ Renew(r) \/ Retry(r) \/ SignInAccessOnly(r)
               \/ Logout(r) \/ Deliver(r) \/ LoseAnswer(r) \/ LoseLogout(r)
      PROVE  RowsStep
  BY <1>6 DEF Send, UseToken, Renew, Retry, RefreshSession, SignInAccessOnly, Logout,
     Deliver, LoseAnswer, LoseLogout, rows, RowsStep
<1>7. ASSUME NEW p \in renewals, ReadRow(p) \/ EndExchange(p) \/ LoseRenewal(p)
      PROVE  RowsStep
  BY <1>7 DEF ReadRow, EndExchange, LoseRenewal, rows, RowsStep
<1>8. ASSUME NEW r \in Requests, FindSession(r) PROVE RowsStep
  BY <1>8 DEF FindSession, rows, RowsStep
<1>. QED
  BY <1>1, <1>2, <1>3, <1>4, <1>5, <1>6, <1>7, <1>8 DEF Next, Serve

LEMMA NextAllOrNothing == TypeInv /\ RowsInv /\ Next => AllOrNothing'
<1> SUFFICES ASSUME TypeInv, RowsInv, Next,
                    NEW t \in Rows', overlooked'[t[1]] = 0,
                    NEW n \in Nat, n < count'[t[1]]
             PROVE  <<t[1], n>> \in Rows'
  BY DEF AllOrNothing
<1>1. t \in Tokens => t[1] \in Sessions
  BY DEF Tokens
<1>2. \A u \in Rows : u \in Tokens /\ u[1] \in Sessions
  BY DEF Rows, TypeInv, TypeOK, Tokens
<1>3. CASE UNCHANGED <<live, spent, count, overlooked>>
  BY <1>3 DEF RowsInv, AllOrNothing, Rows
<1>4. ASSUME NEW f \in Sessions, NEW began \in 1..count[f], Deletion(f, began)
      PROVE  <<t[1], n>> \in Rows'
  <2>1. t \in Rows /\ count' = count /\ began > 0
    BY <1>4 DEF Deletion, TypeInv, TypeOK
  <2>2. CASE t[1] = f
    <3>1. overlooked'[f] = IF \A u \in Rows : u[1] = f => u[2] < began THEN 0 ELSE began
      BY <1>4 DEF Deletion, TypeInv, TypeOK
    <3>2. \A u \in Rows : u[1] = f => u[2] < began
      BY <2>1, <2>2, <3>1
    <3>3. t[2] < began /\ began <= t[2] /\ t[2] \in Nat /\ began \in Nat
      BY <1>4, <2>1, <2>2, <3>2 DEF Deletion, Rows, TypeInv, TypeOK, Tokens
    <3>. QED
      BY <3>3
  <2>3. CASE t[1] # f
    <3>1. overlooked[t[1]] = 0
      BY <1>2, <1>4, <2>1, <2>3 DEF Deletion, TypeInv, TypeOK
    <3>2. <<t[1], n>> \in Rows
      BY <2>1, <3>1 DEF RowsInv, AllOrNothing
    <3>. QED
      BY <1>4, <2>3, <3>2 DEF Deletion
  <2>. QED
    BY <2>2, <2>3
<1>5. ASSUME NEW f \in Sessions, count' = [count EXCEPT ![f] = @ + 1],
             Rows' = Rows \cup {<<f, count[f]>>}, overlooked' = overlooked,
             count[f] = 0 \/ \E u \in Rows : u[1] = f
      PROVE  <<t[1], n>> \in Rows'
  <2>1. count[f] \in Nat /\ count'[f] = count[f] + 1
    BY <1>5 DEF TypeInv, TypeOK
  <2>2. CASE t[1] # f
    <3>1. t \in Rows /\ count'[t[1]] = count[t[1]]
      BY <1>2, <1>5, <2>2 DEF TypeInv, TypeOK
    <3>. QED
      BY <1>5, <3>1 DEF RowsInv, AllOrNothing
  <2>3. CASE t[1] = f
    <3>1. n < count[f] \/ n = count[f]
      BY <2>1, <2>3
    <3>2. CASE n = count[f]
      BY <1>5, <2>3, <3>2
    <3>3. CASE n < count[f]
      <4>1. PICK u \in Rows : u[1] = f
        BY <1>5, <2>1, <3>3
      <4>2. <<f, n>> \in Rows
        BY <1>5, <2>3, <3>3, <4>1 DEF RowsInv, AllOrNothing
      <4>. QED
        BY <1>5, <2>3, <4>2
    <3>. QED
      BY <3>1, <3>2, <3>3
  <2>. QED
    BY <2>2, <2>3
<1>. QED
  BY <1>3, <1>4, <1>5, NextRows DEF RowsStep, Issue

LEMMA NextLeftFrom == TypeInv /\ RowsInv /\ Next => LeftFrom'
<1> SUFFICES ASSUME TypeInv, RowsInv, Next PROVE LeftFrom'
  OBVIOUS
<1>1. \A u \in Rows : u \in Tokens /\ u[1] \in Sessions /\ u[2] \in Nat
  BY DEF Rows, TypeInv, TypeOK, Tokens
<1>2. \A f \in Sessions : count[f] \in Nat /\ overlooked[f] \in Nat
  BY DEF TypeInv, TypeOK
<1>3. CASE UNCHANGED <<live, spent, count, overlooked>>
  BY <1>3 DEF RowsInv, LeftFrom, Rows
<1>4. ASSUME NEW f \in Sessions, NEW began \in 1..count[f], Deletion(f, began)
      PROVE  LeftFrom'
  <2>1. began \in Nat /\ began <= count[f]
    BY <1>2
  <2>2. /\ overlooked'[f] \in {0, began}
        /\ \A g \in Sessions : g # f => overlooked'[g] = overlooked[g]
        /\ count' = count /\ Rows' = {t \in Rows : t[1] # f \/ began <= t[2]}
    BY <1>4 DEF Deletion, TypeInv, TypeOK
  <2>3. \A g \in Sessions : overlooked'[g] <= count[g]
    BY <1>2, <2>1, <2>2 DEF RowsInv, LeftFrom
  <2>4. ASSUME NEW t \in Rows' PROVE overlooked'[t[1]] <= t[2]
    <3>1. CASE t[1] = f
      BY <1>1, <2>1, <2>2, <3>1
    <3>2. CASE t[1] # f
      BY <1>1, <2>2, <3>2 DEF RowsInv, LeftFrom
    <3>. QED
      BY <3>1, <3>2
  <2>. QED
    BY <2>2, <2>3, <2>4 DEF LeftFrom
<1>5. ASSUME NEW f \in Sessions, Issue(f) PROVE LeftFrom'
  <2>1. /\ \A g \in Sessions : count[g] <= count'[g] /\ count'[g] \in Nat
        /\ overlooked' = overlooked /\ Rows' = Rows \cup {<<f, count[f]>>}
    BY <1>2, <1>5 DEF Issue, TypeInv, TypeOK
  <2>2. \A g \in Sessions : overlooked'[g] <= count'[g]
    BY <1>2, <2>1 DEF RowsInv, LeftFrom
  <2>3. \A t \in Rows' : overlooked'[t[1]] <= t[2]
    BY <1>2, <2>1 DEF RowsInv, LeftFrom
  <2>. QED
    BY <2>2, <2>3 DEF LeftFrom
<1>. QED
  BY <1>3, <1>4, <1>5, NextRows DEF RowsStep

LEMMA NextIssued == TypeInv /\ TypeInv' /\ RowsInv /\ Next => IssuedInv'
<1> SUFFICES ASSUME TypeInv, TypeInv', RowsInv, Next PROVE IssuedInv'
  OBVIOUS
<1> USE DEF TypeInv
<1>1. RowsStep
  BY NextRows
<1>2. After(jar.refresh)
  BY <1>1, IssuedStays DEF RowsInv, IssuedInv
<1>3. \A r \in Requests : RequestAfter(request[r])
  BY <1>1, IssuedStays DEF RowsInv, IssuedInv, RequestIssued, RequestAfter
<1>4. \A p \in renewals : After(p.token) /\ After(p.issued)
  BY <1>1, IssuedStays DEF RowsInv, IssuedInv
<1>5. After(None) /\ RequestAfter(Idle) /\ ClearSession.refresh = None
  BY SessionsAssumption DEF After, RequestAfter, Idle, ClearSession, Tokens
<1>6. ASSUME NEW r \in Requests, NEW new, request' = [request EXCEPT ![r] = new],
             RequestAfter(new), jar' = jar \/ After(jar'.refresh),
             \A p \in renewals' : p \in renewals \/ (p.issued = None /\ After(p.token))
      PROVE  IssuedInv'
  <2>1. \A q \in Requests : RequestAfter(request'[q])
    BY <1>3, <1>6 DEF TypeOK
  <2>2. \A p \in renewals' : After(p.token) /\ After(p.issued)
    BY <1>4, <1>5, <1>6
  <2>. QED
    BY <1>2, <1>6, <2>1, <2>2, AfterIsIssued
<1>7. ASSUME NEW r \in Requests, Send(r) PROVE IssuedInv'
  <2> DEFINE new == [Idle EXCEPT !.step = "sent", !.cookies = jar]
  <2>1. RequestAfter(new)
    BY <1>2 DEF RequestAfter, Idle
  <2>. QED
    BY <1>6, <1>7, <2>1 DEF Send
<1>8. ASSUME NEW r \in Requests, UseToken(r) \/ LoseLogout(r)
      PROVE  IssuedInv'
  <2> DEFINE new == [request[r] EXCEPT !.step = "forwarded"]
  <2>1. request' = [request EXCEPT ![r] = new]
    BY <1>8 DEF UseToken, LoseLogout, TypeOK
  <2>2. RequestAfter(new)
    BY <1>3 DEF RequestAfter, TypeOK, Request
  <2>3. jar' = jar /\ renewals' = renewals
    BY <1>8 DEF UseToken, LoseLogout
  <2>. QED
    BY <1>6, <2>1, <2>2, <2>3
<1>24. ASSUME NEW r \in Requests, FindSession(r) \/ LogoutUser(r) PROVE IssuedInv'
  <2>0. \E step, since :
          request' = [request EXCEPT ![r] = [request[r] EXCEPT !.step = step, !.since = since]]
    <3>1. CASE FindSession(r)
      BY <3>1, FindSessionMoves
    <3>2. CASE LogoutUser(r)
      BY <3>2, LogoutUserMoves
    <3>. QED
      BY <1>24, <3>1, <3>2
  <2>1. PICK step, since :
               request' = [request EXCEPT ![r] = [request[r] EXCEPT !.step = step, !.since = since]]
    BY <2>0
  <2>2. RequestAfter([request[r] EXCEPT !.step = step, !.since = since])
    BY <1>3 DEF RequestAfter, TypeOK, Request
  <2>3. jar' = jar /\ renewals' = renewals
    BY <1>24 DEF FindSession, LogoutUser
  <2>. QED
    BY <1>6, <2>1, <2>2, <2>3
<1>9. ASSUME NEW r \in Requests, NEW retried \in BOOLEAN, RefreshSession(r, retried)
      PROVE  IssuedInv'
  <2> DEFINE new == [request[r] EXCEPT !.step = "waiting", !.retried = retried]
  <2>1. request' = [request EXCEPT ![r] = new]
    BY <1>9 DEF RefreshSession, TypeOK, Request
  <2>2. RequestAfter(new)
    BY <1>3 DEF RequestAfter, TypeOK, Request
  <2>3. After(request[r].cookies.refresh)
    BY <1>3 DEF RequestAfter
  <2>4. \A p \in renewals' : p \in renewals \/ (p.issued = None /\ After(p.token))
    BY <1>9, <2>3 DEF RefreshSession
  <2>5. jar' = jar
    BY <1>9 DEF RefreshSession
  <2>. QED
    BY <1>6, <2>1, <2>2, <2>4, <2>5
<1>10. ASSUME NEW r \in Requests, NEW f \in Sessions, Login(r, f) PROVE IssuedInv'
  <2> DEFINE new == [Idle EXCEPT !.kind = "login", !.step = "forwarded",
                                 !.cookies = jar, !.answer = StoreSession(<<f, 0>>)]
  <2>1. After(<<f, 0>>)
    BY <1>10 DEF Login, After, TypeOK
  <2>2. RequestAfter(new)
    BY <1>2, <2>1 DEF RequestAfter, Idle, StoreSession
  <2>. QED
    BY <1>6, <1>10, <2>2 DEF Login
<1>11. ASSUME NEW r \in Requests, SignInAccessOnly(r) PROVE IssuedInv'
  <2> DEFINE new == [Idle EXCEPT !.kind = "access", !.step = "forwarded",
                                 !.cookies = jar, !.answer = AccessOnly(jar)]
  <2>1. RequestAfter(new)
    BY <1>2, <1>5 DEF RequestAfter, Idle, AccessOnly
  <2>. QED
    BY <1>6, <1>11, <2>1 DEF SignInAccessOnly
<1>12. ASSUME NEW r \in Requests, Logout(r) PROVE IssuedInv'
  <2> DEFINE new == [Idle EXCEPT !.kind = "logout", !.cookies = jar,
                       !.answer = ClearSession,
                       !.step = IF jar.refresh = None THEN "forwarded" ELSE "leaving"]
  <2>1. RequestAfter(new)
    BY <1>2, <1>5 DEF RequestAfter, Idle
  <2>. QED
    BY <1>6, <1>12, <2>1 DEF Logout
<1>13. ASSUME NEW r \in Requests, Deliver(r) PROVE IssuedInv'
  <2>1. jar' = jar \/ After(jar'.refresh)
    BY <1>3, <1>13 DEF Deliver, RequestAfter
  <2>. QED
    BY <1>5, <1>6, <1>13, <2>1 DEF Deliver
<1>14. ASSUME NEW r \in Requests, LoseAnswer(r) PROVE IssuedInv'
  BY <1>5, <1>6, <1>14 DEF LoseAnswer
\* The steps of a renewal at the API.
<1>15. ASSUME NEW p \in renewals, NEW issued, After(issued), UNCHANGED browser,
              \A q \in renewals' : q \in renewals \/
                                     (q.token = p.token /\ q.issued \in {p.issued, issued})
       PROVE  IssuedInv'
  BY <1>2, <1>3, <1>4, <1>15, AfterIsIssued DEF browser
<1>16. ASSUME NEW p \in renewals, ReadRow(p) PROVE IssuedInv'
  <2>1. p \in Renewal
    BY DEF TypeOK
  <2>2. \A q \in renewals' : q \in renewals \/ (q.token = p.token /\ q.issued = p.issued)
    BY <1>16, <2>1 DEF ReadRow, Renewal
  <2>. QED
    BY <1>5, <1>15, <1>16, <2>2 DEF ReadRow
<1>17. ASSUME NEW p \in renewals, NEW issued, After(issued), UNCHANGED browser,
              Committed(p, issued)
       PROVE  IssuedInv'
  <2>1. p \in Renewal
    BY DEF TypeOK
  <2>2. \A q \in renewals' : q \in renewals \/ (q.token = p.token /\ q.issued = issued)
    BY <1>17, <2>1 DEF Committed, Renewal
  <2>. QED
    BY <1>15, <1>17, <2>2
<1>18. ASSUME NEW p \in renewals, Rotate(p) PROVE IssuedInv'
  <2> DEFINE f == Family(p.token)
             new == <<f, count[f]>>
  <2>1. f \in Sessions
    BY CookieTypes DEF TypeOK, Renewal
  <2>2. CASE HasRow(p.token)
    <3>1. count'[f] = count[f] + 1 /\ count[f] \in Nat
      BY <1>18, <2>1, <2>2 DEF Rotate, TypeOK
    <3>2. After(new)
      BY <3>1 DEF After
    <3>. QED
      BY <1>17, <1>18, <2>2, <3>2 DEF Rotate
  <2>3. CASE ~HasRow(p.token)
    BY <1>5, <1>17, <1>18, <2>3 DEF Rotate
  <2>. QED
    BY <2>2, <2>3
<1>19. ASSUME NEW p \in renewals, Refuse(p) PROVE IssuedInv'
  BY <1>5, <1>17, <1>19 DEF Refuse
\* The end of an exchange hands its token to whoever waits.
<1>20. ASSUME NEW t, NEW issued, After(issued), Resume(t, issued),
              issued \in Tokens \cup {None}
       PROVE  \A r \in Requests : RequestAfter(request'[r])
  <2> SUFFICES ASSUME NEW r \in Requests PROVE RequestAfter(request'[r])
    OBVIOUS
  <2> DEFINE given == IF issued = None THEN ClearSession ELSE StoreSession(issued)
             new == [request[r] EXCEPT !.step = "forwarded", !.answer = given]
  <2>1. request[r] \in Request
    BY DEF TypeOK
  <2>2. request'[r] = request[r] \/ request'[r] = new
    BY <1>20 DEF Resume
  <2>3. After(given.refresh)
    BY <1>5, <1>20 DEF StoreSession
  <2>4. new.cookies = request[r].cookies /\ new.answer = given
    BY <2>1 DEF Request
  <2>. QED
    BY <1>3, <2>2, <2>3, <2>4 DEF RequestAfter
<1>21. ASSUME NEW p \in renewals, EndExchange(p) PROVE IssuedInv'
  <2>1. p.issued \in Tokens \cup {None} /\ After(p.issued)
    BY <1>4 DEF TypeOK, Renewal
  <2>2. \A r \in Requests : RequestAfter(request'[r])
    BY <1>20, <1>21, <2>1 DEF EndExchange
  <2>. QED
    BY <1>2, <1>4, <1>21, <2>2, AfterIsIssued DEF EndExchange
<1>22. ASSUME NEW p \in renewals, LoseRenewal(p) PROVE IssuedInv'
  <2>1. p \in Renewal
    BY DEF TypeOK
  <2>2. \A r \in Requests : RequestAfter(request'[r])
    BY <1>5, <1>20, <1>22 DEF LoseRenewal
  <2>3. \A q \in renewals' : q \in renewals \/ (q.token = p.token /\ q.issued = p.issued)
    BY <1>22, <2>1 DEF LoseRenewal, Renewal
  <2>. QED
    BY <1>2, <1>4, <1>22, <2>2, <2>3, AfterIsIssued DEF LoseRenewal
<1>23. ASSUME NEW f \in Sessions, RevokeUserSessions(f) PROVE IssuedInv'
  BY <1>2, <1>3, <1>4, <1>23, AfterIsIssued DEF RevokeUserSessions, browser
<1>. QED
  BY <1>7, <1>8, <1>9, <1>10, <1>11, <1>12, <1>13, <1>14, <1>16, <1>18, <1>19, <1>21,
     <1>22, <1>23, <1>24 DEF Next, Serve, Renew, Retry

\* What a sign-out leaves is what its deletion, or a later one, overlooked.
LEMMA NextSignedOut == TypeInv /\ RowsInv /\ Next => SignedOutInv'
<1> SUFFICES ASSUME TypeInv, RowsInv, Next,
                    NEW f \in signedOut'
             PROVE  count'[f] > 0 /\ \A t \in Rows' : t[1] = f => overlooked'[f] > 0
  BY DEF SignedOutInv
<1> USE DEF TypeInv
<1>0. \A began \in 1..count[f] :
         f \in Sessions /\ Deletion(f, began) => \A t \in Rows' : t[1] = f => overlooked'[f] > 0
  <2> SUFFICES ASSUME NEW began \in 1..count[f], f \in Sessions, Deletion(f, began),
                      NEW t \in Rows', t[1] = f
               PROVE  overlooked'[f] > 0
    OBVIOUS
  <2>1. t \in Rows /\ t[2] \in Nat /\ began <= t[2] /\ began \in Nat /\ began > 0
    BY DEF Deletion, Rows, TypeOK, Tokens
  <2>2. overlooked'[f] = IF \A u \in Rows : u[1] = f => u[2] < began THEN 0 ELSE began
    BY DEF Deletion, TypeOK
  <2>. QED
    BY <2>1, <2>2
<1>1. CASE f \in signedOut
  <2>1. /\ count[f] > 0 /\ \A t \in Rows : t[1] = f => overlooked[f] > 0
        /\ f \in Sessions /\ count[f] \in Nat
    BY <1>1 DEF RowsInv, SignedOutInv, TypeOK
  <2>2. CASE UNCHANGED <<live, spent, count, overlooked>>
    BY <2>1, <2>2 DEF Rows
  <2>3. ASSUME NEW g \in Sessions, NEW began \in 1..count[g], Deletion(g, began)
        PROVE  count'[f] > 0 /\ \A t \in Rows' : t[1] = f => overlooked'[f] > 0
    <3>1. CASE g = f
      BY <1>0, <2>1, <2>3, <3>1 DEF Deletion
    <3>2. CASE g # f
      BY <2>1, <2>3, <3>2 DEF Deletion, TypeOK
    <3>. QED
      BY <3>1, <3>2
  <2>4. ASSUME NEW g \in Sessions, Issue(g)
        PROVE  count'[f] > 0 /\ \A t \in Rows' : t[1] = f => overlooked'[f] > 0
    BY <2>1, <2>4 DEF Issue, TypeOK
  <2>. QED
    BY <2>2, <2>3, <2>4, NextRows DEF RowsStep
<1>2. CASE f \notin signedOut
  <2>1. PICK r \in Requests : FindSession(r) \/ LogoutUser(r)
    BY <1>2 DEF Next, Serve, Send, UseToken, Renew, Retry, RefreshSession, Login,
       SignInAccessOnly, Logout, Deliver, LoseAnswer, LoseLogout, ReadRow, Rotate,
       Refuse, EndExchange, LoseRenewal, RevokeUserSessions, history
  <2> DEFINE t == request[r].cookies.refresh
  <2>2. /\ t \in Tokens /\ f = Family(t) /\ f = t[1] /\ f \in Sessions
        /\ t[2] \in Nat /\ t = <<t[1], t[2]>> /\ count[f] \in Nat
    BY <1>2, <2>1 DEF FindSession, LogoutUser, LeavingInv, Family, Tokens, TypeOK
  <2>3. t[2] < count[f] /\ count' = count
    BY <2>1, <2>2 DEF FindSession, LogoutUser, rows, RowsInv, IssuedInv, RequestIssued, Issued
  <2>4. CASE LogoutUser(r)
    <3>1. PICK began \in request[r].since..count[f] : RevokeFamily(f, began)
      BY <2>2, <2>4 DEF LogoutUser
    <3>2. request[r].since \in Nat /\ request[r].since > 0
      BY <2>4 DEF LogoutUser, TypeOK, Request, RowsInv, SinceInv
    <3>3. began \in 1..count[f] /\ began \in Nat
      BY <2>2, <3>1, <3>2, BeganAfter
    <3>4. Deletion(f, began)
      BY <2>2, <2>3, <3>1, <3>3, RevokeRows
    <3>. QED
      BY <1>0, <2>2, <2>3, <3>3, <3>4
  <2>5. CASE FindSession(r)
    <3>1. t \notin Rows /\ UNCHANGED rows
      BY <1>2, <2>5 DEF FindSession
    <3>2. ASSUME NEW u \in Rows, u[1] = f PROVE overlooked[f] > 0
      <4>1. overlooked[f] = 0 => <<f, t[2]>> \in Rows
        BY <2>2, <2>3, <3>2 DEF RowsInv, AllOrNothing
      <4>2. overlooked[f] # 0 /\ overlooked[f] \in Nat
        BY <2>2, <3>1, <4>1 DEF TypeOK
      <4>. QED
        BY <4>2
    <3>. QED
      BY <2>2, <2>3, <3>1, <3>2 DEF rows, Rows
  <2>. QED
    BY <2>1, <2>4, <2>5
<1>. QED
  BY <1>1, <1>2

\* A row that is found is one of at least one issued.
LEMMA NextSince == TypeInv /\ RowsInv /\ Next => SinceInv'
<1> SUFFICES ASSUME TypeInv, RowsInv, Next PROVE SinceInv'
  OBVIOUS
<1> USE DEF TypeInv
<1> DEFINE RequestSince(q) == q.step = "deleting" => q.since > 0
           RenewalSince(p) == p.stage = "revoke" => p.since > 0
<1>1. ASSUME NEW t \in Tokens, Issued(t) PROVE count[Family(t)] > 0
  BY <1>1 DEF Issued, Tokens, Family, TypeOK
<1>2. /\ \A r \in Requests : RequestSince(request[r])
      /\ \A p \in renewals : RenewalSince(p)
  BY DEF RowsInv, SinceInv
<1>3. ASSUME NEW r \in Requests, NEW new, request' = [request EXCEPT ![r] = new],
             RequestSince(new), \A p \in renewals' : p \in renewals \/ p.stage = "sent"
      PROVE  SinceInv'
  BY <1>2, <1>3 DEF SinceInv, TypeOK
<1>4. ASSUME NEW r \in Requests, NEW new, request' = [request EXCEPT ![r] = new],
             new.step # "deleting", UNCHANGED renewals
      PROVE  SinceInv'
  BY <1>3, <1>4
<1>5. ASSUME NEW r \in Requests, FindSession(r) PROVE SinceInv'
  <2> DEFINE t == request[r].cookies.refresh
  <2>1. t \in Tokens /\ count[Family(t)] > 0 /\ request[r] \in Request
    BY <1>1, <1>5 DEF FindSession, LeavingInv, RowsInv, IssuedInv, RequestIssued, TypeOK
  <2>2. CASE t \in Rows
    <3>1. request' = [request EXCEPT ![r].step = "deleting", ![r].since = count[Family(t)]]
      BY <1>5, <2>2 DEF FindSession
    <3>2. request'[r].since = count[Family(t)] /\ \A q \in Requests : q # r => request'[q] = request[q]
      BY <2>1, <3>1 DEF TypeOK, Request
    <3>3. renewals' = renewals
      BY <1>5 DEF FindSession
    <3>. QED
      BY <1>2, <2>1, <3>2, <3>3 DEF SinceInv
  <2>3. CASE t \notin Rows
    <3>1. request' = [request EXCEPT ![r].step = "forwarded"] /\ renewals' = renewals
      BY <1>5, <2>3 DEF FindSession
    <3>2. request'[r].step = "forwarded" /\ \A q \in Requests : q # r => request'[q] = request[q]
      BY <2>1, <3>1 DEF TypeOK, Request
    <3>. QED
      BY <1>2, <3>1, <3>2 DEF SinceInv
  <2>. QED
    BY <2>2, <2>3
<1>6. ASSUME NEW r \in Requests, UseToken(r) \/ LoseLogout(r) PROVE SinceInv'
  <2>1. /\ request' = [request EXCEPT ![r] = [request[r] EXCEPT !.step = "forwarded"]]
        /\ UNCHANGED renewals
    BY <1>6 DEF UseToken, LoseLogout, TypeOK
  <2>2. [request[r] EXCEPT !.step = "forwarded"].step # "deleting"
    BY DEF TypeOK, Request
  <2>. QED
    BY <1>4, <2>1, <2>2
<1>7. ASSUME NEW r \in Requests, LogoutUser(r) PROVE SinceInv'
  <2>1. [request[r] EXCEPT !.step = "forwarded", !.since = 0].step # "deleting"
    BY DEF TypeOK, Request
  <2>. QED
    BY <1>4, <1>7, <2>1, LogoutUserMoves DEF LogoutUser
<1>8. ASSUME NEW r \in Requests, NEW retried \in BOOLEAN, RefreshSession(r, retried)
      PROVE  SinceInv'
  <2> DEFINE new == [request[r] EXCEPT !.step = "waiting", !.retried = retried]
  <2>1. request' = [request EXCEPT ![r] = new] /\ new.step = "waiting"
    BY <1>8 DEF RefreshSession, TypeOK, Request
  <2>2. \A p \in renewals' : p \in renewals \/ p.stage = "sent"
    BY <1>8 DEF RefreshSession
  <2>. QED
    BY <1>3, <2>1, <2>2
<1>9. ASSUME NEW r \in Requests, Send(r) PROVE SinceInv'
  <2>1. [Idle EXCEPT !.step = "sent", !.cookies = jar].step = "sent"
    BY DEF Idle
  <2>. QED
    BY <1>4, <1>9, <2>1 DEF Send
<1>10. ASSUME NEW r \in Requests, NEW f \in Sessions, Login(r, f) PROVE SinceInv'
  <2>1. [Idle EXCEPT !.kind = "login", !.step = "forwarded", !.cookies = jar,
                     !.answer = StoreSession(<<f, 0>>)].step = "forwarded"
    BY DEF Idle
  <2>. QED
    BY <1>4, <1>10, <2>1 DEF Login
<1>11. ASSUME NEW r \in Requests, SignInAccessOnly(r) PROVE SinceInv'
  <2>1. [Idle EXCEPT !.kind = "access", !.step = "forwarded", !.cookies = jar,
                     !.answer = AccessOnly(jar)].step = "forwarded"
    BY DEF Idle
  <2>. QED
    BY <1>4, <1>11, <2>1 DEF SignInAccessOnly
<1>12. ASSUME NEW r \in Requests, Logout(r) PROVE SinceInv'
  <2>1. [Idle EXCEPT !.kind = "logout", !.cookies = jar, !.answer = ClearSession,
           !.step = IF jar.refresh = None THEN "forwarded" ELSE "leaving"].step # "deleting"
    BY DEF Idle
  <2>. QED
    BY <1>4, <1>12, <2>1 DEF Logout
<1>13. ASSUME NEW r \in Requests, Deliver(r) \/ LoseAnswer(r) PROVE SinceInv'
  <2>1. Idle.step # "deleting"
    BY DEF Idle
  <2>. QED
    BY <1>4, <1>13, <2>1 DEF Deliver, LoseAnswer
\* The steps of a renewal at the API.
<1>14. ASSUME request' = request, \A q \in renewals' : q \in renewals \/ RenewalSince(q)
       PROVE  SinceInv'
  BY <1>2, <1>14 DEF SinceInv
<1>15. ASSUME NEW p \in renewals, ReadRow(p) PROVE SinceInv'
  <2> DEFINE stage == IF p.token \notin Rows THEN "reject"
                      ELSE IF p.token \in spent THEN "revoke" ELSE "rotate"
             since == IF p.token \in spent THEN count[Family(p.token)] ELSE 0
             new == [p EXCEPT !.stage = stage, !.since = since]
  <2>1. renewals' = (renewals \ {p}) \cup {new} /\ request' = request
    BY <1>15 DEF ReadRow, browser
  <2>2. p \in Renewal /\ p.token \in Tokens /\ Issued(p.token)
    BY DEF TypeOK, Renewal, RowsInv, IssuedInv
  <2>3. new.stage = stage /\ new.since = since
    BY <2>2 DEF Renewal
  <2>4. stage = "revoke" => p.token \in spent
    OBVIOUS
  <2>5. RenewalSince(new)
    BY <1>1, <2>2, <2>3, <2>4
  <2>. QED
    BY <1>14, <2>1, <2>5
<1>16. ASSUME NEW p \in renewals, Rotate(p) \/ Refuse(p) PROVE SinceInv'
  <2>1. \E issued : Committed(p, issued)
    BY <1>16 DEF Rotate, Refuse
  <2>2. \A q \in renewals' : q \in renewals \/ q.stage = "done"
    BY <2>1 DEF Committed, TypeOK, Renewal
  <2>3. request' = request
    BY <1>16 DEF Rotate, Refuse, browser
  <2>. QED
    BY <1>14, <2>2, <2>3
<1>17. ASSUME NEW p \in renewals, NEW issued, Resume(p.token, issued),
              \A q \in renewals' : q \in renewals \/ RenewalSince(q)
       PROVE  SinceInv'
  <2>1. \A r \in Requests : request'[r] = request[r] \/ request'[r].step = "forwarded"
    BY <1>17 DEF Resume, TypeOK, Request
  <2>. QED
    BY <1>2, <1>17, <2>1 DEF SinceInv
<1>18. ASSUME NEW p \in renewals, EndExchange(p) PROVE SinceInv'
  BY <1>17, <1>18 DEF EndExchange
<1>19. ASSUME NEW p \in renewals, LoseRenewal(p) PROVE SinceInv'
  <2>1. [p EXCEPT !.heard = FALSE].stage = p.stage /\ [p EXCEPT !.heard = FALSE].since = p.since
    BY DEF TypeOK, Renewal
  <2>2. RenewalSince([p EXCEPT !.heard = FALSE])
    BY <1>2, <2>1
  <2>3. \A q \in renewals' : q \in renewals \/ q = [p EXCEPT !.heard = FALSE]
    BY <1>19 DEF LoseRenewal
  <2>. QED
    BY <1>17, <1>19, <2>2, <2>3 DEF LoseRenewal
<1>20. ASSUME NEW f \in Sessions, RevokeUserSessions(f) PROVE SinceInv'
  BY <1>14, <1>20 DEF RevokeUserSessions, browser
<1>. QED
  BY <1>5, <1>6, <1>7, <1>8, <1>9, <1>10, <1>11, <1>12, <1>13, <1>15, <1>16, <1>18,
     <1>19, <1>20 DEF Next, Serve, Renew, Retry

LEMMA InitRows == Init => RowsInv
<1> SUFFICES ASSUME Init PROVE RowsInv
  OBVIOUS
<1>1. None \notin Tokens
  BY SessionsAssumption DEF Tokens
<1>2. IssuedInv
  BY <1>1 DEF Init, IssuedInv, RequestIssued, Issued, Idle, ClearSession
<1>. QED
  BY <1>2 DEF Init, RowsInv, AllOrNothing, LeftFrom, SignedOutInv, SinceInv, Rows, Idle

LEMMA RowsKept == TypeInv /\ TypeInv' /\ RowsInv /\ [Next]_vars => RowsInv'
<1>1. ASSUME TypeInv, TypeInv', RowsInv, Next PROVE RowsInv'
  BY <1>1, NextIssued, NextAllOrNothing, NextLeftFrom, NextSignedOut, NextSince DEF RowsInv
<1>2. ASSUME RowsInv, UNCHANGED vars PROVE RowsInv'
  BY <1>2 DEF vars, rows, browser, history, RowsInv, IssuedInv, RequestIssued, Issued,
     AllOrNothing, LeftFrom, SignedOutInv, SinceInv, Rows
<1>. QED
  BY <1>1, <1>2

\* After the API has served a sign-out nothing of that session can be renewed but
\* what a rotation issued that committed while the rows were being deleted
\* (LogoutUserHandler.Handle, RefreshTokenRepository.RevokeFamilyAsync).
THEOREM SignedOutStaysRevoked == Spec => []SignedOutIsRevoked
<1>1. TypeInv /\ RowsInv => SignedOutIsRevoked
  <2> SUFFICES ASSUME TypeInv, RowsInv, NEW f \in signedOut, NEW t \in OfFamily(f, Rows)
               PROVE  overlooked[f] \in 1..t[2]
    BY DEF SignedOutIsRevoked
  <2>1. t \in Rows /\ t[1] = f /\ t[2] \in Nat /\ overlooked[f] \in Nat
    BY DEF OfFamily, Family, Rows, Tokens, TypeInv, TypeOK
  <2>2. overlooked[f] > 0 /\ overlooked[f] <= t[2]
    BY <2>1 DEF RowsInv, SignedOutInv, LeftFrom
  <2>. QED
    BY <2>1, <2>2
<1>. QED
  BY <1>1, InitRows, RowsKept, TypeInit, TypeStep, PTL DEF Spec
-----------------------------------------------------------------------------
(* What is true of every request, token and cookie.                        *)

\* Whoever is signed in to a session has a token of it.
Full(c) == c.who \in Sessions => c.refresh \in Tokens

\* What kinds of requests carry.
RequestKind(q) ==
  /\ q.step = "idle" => q = Idle
  /\ q.step \in {"sent", "waiting"} => q.kind = "call"
  /\ q.step \in {"leaving", "deleting"} => q.kind = "logout"
  /\ q.kind = "access" => q.answer # None /\ q.answer.who = Other
  /\ q.kind = "logout" => q.answer = ClearSession
  /\ Full(q.cookies) /\ (q.answer # None => Full(q.answer))

SideInv ==
  /\ Full(jar)
  /\ \A r \in Requests : RequestKind(request[r])
  /\ \A t \in Rows \cup over : Issued(t)

-----------------------------------------------------------------------------
(* A session nothing out of the ordinary happened to.                      *)

Latest(f) == <<f, count[f] - 1>>

Exchanges(f) == {p \in renewals : Family(p.token) = f}

\* The API keeps the last token alone for the next renewal.
RowsLast(f) == count[f] > 0 /\ OfFamily(f, live) = {Latest(f)} /\ Latest(f) \notin spent

\* Every token before the last was exchanged, or its exchange has not ended.
Used(f) ==
  /\ \A t \in Tokens : Family(t) = f /\ t[2] < count[f] - 1 =>
       t \in over \/ \E p \in Exchanges(f) : p.token = t
  /\ Latest(f) \notin over

Known(t) ==
  \/ jar.refresh = t
  \/ \E r \in Requests : request[r].cookies.refresh = t
  \/ \E r \in Requests : request[r].answer # None /\ request[r].answer.refresh = t

\* One token at a time is exchanged: the last, until the API has issued the
\* next, which nobody knows before the exchange ends.
ExchangeOf(f, p) ==
  /\ p.heard /\ p.token \notin over
  /\ \/ p.stage \in {"sent", "rotate"} /\ p.token = Latest(f)
     \/ p.stage = "done" /\ p.issued = Latest(f) /\ p.token # Latest(f) /\ ~Known(Latest(f))
  /\ \E r \in Requests : request[r].step = "waiting" /\ request[r].cookies.refresh = p.token

ExchangesLast(f) ==
  /\ \A p \in Exchanges(f) : ExchangeOf(f, p)
  /\ \A p, q \in Exchanges(f) : p = q

RequestOf(f, q) ==
  /\ q.kind = "logout" => q.cookies.who # f
  /\ q.kind = "call" /\ q.cookies.who = f /\ q.answer # None
       => q.cookies.refresh \in over /\ q.answer.who = f

Carries(q, t) == q.step = "forwarded" /\ q.answer # None /\ q.answer.refresh = t

\* The last token is with the browser or on its way to it.
AtHome(f) ==
  /\ jar.who = f
  /\ \/ jar.refresh = Latest(f)
     \/ \E r \in Requests : Carries(request[r], Latest(f))
     \/ \E p \in Exchanges(f) : p.stage = "done"

SignsInAs(f, q) == q.kind = "login" /\ q.step = "forwarded" /\ q.answer = StoreSession(<<f, 0>>)

SigningIn(f) ==
  /\ jar.who # f /\ count[f] = 1
  /\ \E r \in Requests : SignsInAs(f, request[r])
  /\ \A r \in Requests : request[r].cookies.who # f

Lasting(f) ==
  /\ RowsLast(f) /\ Used(f) /\ ExchangesLast(f)
  /\ \A r \in Requests : RequestOf(f, request[r])
  /\ AtHome(f) \/ SigningIn(f)

LastingInv == \A f \in unbroken : Lasting(f)

-----------------------------------------------------------------------------
LEMMA NoToken ==
  /\ None \notin Tokens /\ None \notin Sessions /\ Other \notin Sessions
  /\ \A t \in Tokens : Family(t) = t[1] /\ t[1] \in Sessions /\ t[2] \in Nat /\ t = <<t[1], t[2]>>
BY SessionsAssumption DEF Family, Tokens

LEMMA FreshCookiesFull ==
  /\ Full(ClearSession) /\ RequestKind(Idle)
  /\ \A held : Full(AccessOnly(held))
  /\ \A t \in Tokens : Full(StoreSession(t))
BY NoToken DEF Full, RequestKind, ClearSession, AccessOnly, StoreSession, Idle

LEMMA ResumeKinds ==
  ASSUME TypeInv, SideInv, NEW t \in Tokens, NEW issued \in Tokens \cup {None},
         Resume(t, issued)
  PROVE  \A r \in Requests : RequestKind(request'[r])
<1> SUFFICES ASSUME NEW r \in Requests PROVE RequestKind(request'[r])
  OBVIOUS
<1> DEFINE given == IF issued = None THEN ClearSession ELSE StoreSession(issued)
           new == [request[r] EXCEPT !.step = "forwarded", !.answer = given]
<1>1. request[r] \in Request /\ RequestKind(request[r])
  BY DEF TypeInv, TypeOK, SideInv
<1>2. CASE request[r].step = "waiting" /\ request[r].cookies.refresh = t
  <2>1. request'[r] = new
    BY <1>2 DEF Resume
  <2>2. /\ new.cookies = request[r].cookies /\ new.answer = given /\ new.kind = "call"
        /\ new.step = "forwarded"
    BY <1>1, <1>2 DEF Request, RequestKind
  <2>3. Full(given)
    BY FreshCookiesFull
  <2>. QED
    BY <1>1, <2>1, <2>2, <2>3 DEF RequestKind
<1>3. CASE ~(request[r].step = "waiting" /\ request[r].cookies.refresh = t)
  BY <1>1, <1>3 DEF Resume
<1>. QED
  BY <1>2, <1>3

LEMMA KindStep == TypeInv /\ SideInv /\ Next =>
                    Full(jar') /\ \A q \in Requests : RequestKind(request'[q])
<1> SUFFICES ASSUME TypeInv, SideInv, Next
             PROVE  Full(jar') /\ \A q \in Requests : RequestKind(request'[q])
  OBVIOUS
<1> USE DEF TypeInv
<1> DEFINE Kept == Full(jar') /\ \A q \in Requests : RequestKind(request'[q])
<1>1. ASSUME NEW r \in Requests, NEW new, request' = [request EXCEPT ![r] = new],
             RequestKind(new), Full(jar')
      PROVE  Kept
  BY <1>1 DEF SideInv, TypeOK
<1>2. ASSUME NEW r \in Requests, Send(r) PROVE Kept
  <2> DEFINE new == [Idle EXCEPT !.step = "sent", !.cookies = jar]
  <2>1. RequestKind(new)
    BY FreshCookiesFull DEF SideInv, RequestKind, Idle
  <2>. QED
    BY <1>1, <1>2, <2>1 DEF Send, SideInv
<1>3. ASSUME NEW r \in Requests, UseToken(r) \/ LoseLogout(r) PROVE Kept
  <2> DEFINE new == [request[r] EXCEPT !.step = "forwarded"]
  <2>1. request' = [request EXCEPT ![r] = new] /\ jar' = jar
    BY <1>3 DEF UseToken, LoseLogout, TypeOK
  <2>2. RequestKind(request[r]) /\ request[r] \in Request
    BY DEF SideInv, TypeOK
  <2>3. /\ new.kind = request[r].kind /\ new.step = "forwarded"
        /\ new.cookies = request[r].cookies /\ new.answer = request[r].answer
    BY <2>2 DEF Request
  <2>4. RequestKind(new)
    BY <2>2, <2>3 DEF RequestKind
  <2>. QED
    BY <1>1, <2>1, <2>4 DEF SideInv
<1>4. ASSUME NEW r \in Requests, NEW retried \in BOOLEAN, RefreshSession(r, retried),
             request[r].kind = "call"
      PROVE  Kept
  <2> DEFINE new == [request[r] EXCEPT !.step = "waiting", !.retried = retried]
  <2>1. request' = [request EXCEPT ![r] = new] /\ jar' = jar
    BY <1>4 DEF RefreshSession, TypeOK, Request
  <2>2. RequestKind(request[r]) /\ request[r] \in Request
    BY DEF SideInv, TypeOK
  <2>3. /\ new.kind = "call" /\ new.step = "waiting"
        /\ new.cookies = request[r].cookies /\ new.answer = request[r].answer
    BY <1>4, <2>2 DEF Request
  <2>4. RequestKind(new)
    BY <2>2, <2>3 DEF RequestKind
  <2>. QED
    BY <1>1, <2>1, <2>4 DEF SideInv
<1>5. ASSUME NEW r \in Requests, Renew(r) \/ Retry(r) PROVE Kept
  <2>1. request[r].kind = "call"
    BY <1>5 DEF Renew, Retry, SideInv, RequestKind
  <2>. QED
    BY <1>4, <1>5, <2>1 DEF Renew, Retry
<1>6. ASSUME NEW r \in Requests, NEW f \in Sessions, Login(r, f) PROVE Kept
  <2> DEFINE new == [Idle EXCEPT !.kind = "login", !.step = "forwarded",
                                 !.cookies = jar, !.answer = StoreSession(<<f, 0>>)]
  <2>1. <<f, 0>> \in Tokens
    BY DEF Tokens
  <2>2. RequestKind(new)
    BY <2>1, FreshCookiesFull DEF SideInv, RequestKind, Idle
  <2>. QED
    BY <1>1, <1>6, <2>2 DEF Login, SideInv
<1>7. ASSUME NEW r \in Requests, SignInAccessOnly(r) PROVE Kept
  <2> DEFINE new == [Idle EXCEPT !.kind = "access", !.step = "forwarded",
                                 !.cookies = jar, !.answer = AccessOnly(jar)]
  <2>1. AccessOnly(jar).who = Other /\ Full(AccessOnly(jar))
    BY FreshCookiesFull DEF AccessOnly
  <2>2. AccessOnly(jar) # None
    BY CookieTypes, SessionsAssumption
  <2>3. RequestKind(new)
    BY <2>1, <2>2, FreshCookiesFull DEF SideInv, RequestKind, Idle
  <2>. QED
    BY <1>1, <1>7, <2>3 DEF SignInAccessOnly, SideInv
<1>8. ASSUME NEW r \in Requests, Logout(r) PROVE Kept
  <2> DEFINE new == [Idle EXCEPT !.kind = "logout", !.cookies = jar,
                       !.answer = ClearSession,
                       !.step = IF jar.refresh = None THEN "forwarded" ELSE "leaving"]
  <2>1. RequestKind(new)
    BY FreshCookiesFull DEF SideInv, RequestKind, Idle
  <2>. QED
    BY <1>1, <1>8, <2>1 DEF Logout, SideInv
<1>9. ASSUME NEW r \in Requests, Deliver(r) PROVE Kept
  <2>1. Full(jar')
    BY <1>9 DEF Deliver, SideInv, RequestKind
  <2>. QED
    BY <1>1, <1>9, <2>1, FreshCookiesFull DEF Deliver
<1>10. ASSUME NEW r \in Requests, LoseAnswer(r) PROVE Kept
  BY <1>1, <1>10, FreshCookiesFull DEF LoseAnswer, SideInv
<1>11. ASSUME NEW p \in renewals, ReadRow(p) \/ Rotate(p) \/ Refuse(p) PROVE Kept
  BY <1>11 DEF ReadRow, Rotate, Refuse, browser, SideInv
<1>12. ASSUME NEW p \in renewals, EndExchange(p) \/ LoseRenewal(p) PROVE Kept
  <2>1. p.token \in Tokens /\ p.issued \in Tokens \cup {None}
    BY DEF TypeOK, Renewal
  <2>2. jar' = jar /\ (Resume(p.token, p.issued) \/ Resume(p.token, None))
    BY <1>12 DEF EndExchange, LoseRenewal
  <2>. QED
    BY <2>1, <2>2, ResumeKinds DEF SideInv
<1>13. ASSUME NEW f \in Sessions, RevokeUserSessions(f) PROVE Kept
  BY <1>13 DEF RevokeUserSessions, browser, SideInv
<1>14. ASSUME NEW r \in Requests, FindSession(r) \/ LogoutUser(r) PROVE Kept
  <2>0. \E step \in {"deleting", "forwarded"}, since \in Nat :
          request' = [request EXCEPT ![r] = [request[r] EXCEPT !.step = step, !.since = since]]
    <3>1. CASE FindSession(r)
      BY <3>1, FindSessionMoves
    <3>2. CASE LogoutUser(r)
      BY <3>2, LogoutUserMoves
    <3>. QED
      BY <1>14, <3>1, <3>2
  <2>1. PICK step \in {"deleting", "forwarded"}, since \in Nat :
          request' = [request EXCEPT ![r] = [request[r] EXCEPT !.step = step, !.since = since]]
    BY <2>0
  <2> DEFINE new == [request[r] EXCEPT !.step = step, !.since = since]
  <2>2. RequestKind(request[r]) /\ request[r] \in Request
    BY DEF SideInv, TypeOK
  <2>3. request[r].kind = "logout" /\ jar' = jar
    BY <1>14, <2>2 DEF FindSession, LogoutUser, RequestKind
  <2>4. /\ new.kind = request[r].kind /\ new.step = step
        /\ new.cookies = request[r].cookies /\ new.answer = request[r].answer
    BY <2>2 DEF Request
  <2>5. RequestKind(new)
    BY <2>2, <2>3, <2>4 DEF RequestKind
  <2>. QED
    BY <1>1, <2>1, <2>3, <2>5 DEF SideInv
<1>. QED
  BY <1>2, <1>3, <1>5, <1>6, <1>7, <1>8, <1>9, <1>10, <1>11, <1>12, <1>13, <1>14
     DEF Next, Serve

LEMMA OverStep ==
  Next => over \subseteq over' /\ \A t \in over' : t \in over \/ \E p \in renewals : p.token = t
BY DEF Next, Serve, Send, UseToken, Renew, Retry, RefreshSession, Login,
   SignInAccessOnly, Logout, FindSession, LogoutUser, Deliver, LoseAnswer, LoseLogout,
   ReadRow, Rotate, Refuse, EndExchange, LoseRenewal, RevokeUserSessions, history

LEMMA SideStep == TypeInv /\ TypeInv' /\ RowsInv /\ SideInv /\ Next => SideInv'
<1> SUFFICES ASSUME TypeInv, TypeInv', RowsInv, SideInv, Next PROVE SideInv'
  OBVIOUS
<1>1. RowsStep
  BY NextRows
<1>2. ASSUME NEW t \in Rows' \cup over' PROVE After(t)
  <2>1. CASE t \in Rows \cup over
    BY <1>1, <2>1, IssuedStays DEF SideInv
  <2>2. CASE t \in over' \ over
    BY <1>1, <2>2, OverStep, IssuedStays DEF RowsInv, IssuedInv
  <2>3. CASE t \in Rows' \ Rows
    <3>1. PICK f \in Sessions : count' = [count EXCEPT ![f] = @ + 1] /\ t = <<f, count[f]>>
      BY <1>1, <2>3 DEF RowsStep, Deletion, Issue, Rows
    <3>. QED
      BY <3>1 DEF After, TypeInv, TypeOK
  <2>. QED
    BY <1>2, <2>1, <2>2, <2>3
<1>3. \A t \in Rows' \cup over' : Issued(t)'
  BY <1>2 DEF After, Issued
<1>. QED
  BY <1>3, KindStep DEF SideInv

-----------------------------------------------------------------------------
(* Steps that leave a session aside.                                       *)

Aside(f) ==
  /\ count'[f] = count[f]
  /\ OfFamily(f, live)' = OfFamily(f, live) /\ OfFamily(f, spent)' = OfFamily(f, spent)
  /\ OfFamily(f, over)' = OfFamily(f, over) /\ over \subseteq over'
  /\ Exchanges(f)' = Exchanges(f)

LEMMA LatestIs ==
  ASSUME TypeInv, NEW f \in Sessions, count[f] > 0
  PROVE  Latest(f) \in Tokens /\ Latest(f) # None /\ Family(Latest(f)) = f
BY NoToken DEF TypeInv, TypeOK, Latest, Tokens, Family

LEMMA AsideKeeps ==
  ASSUME TypeInv, NEW f \in Sessions, Lasting(f), Aside(f)
  PROVE  /\ RowsLast(f)' /\ Used(f)' /\ Latest(f)' = Latest(f)
         /\ \A t \in Tokens : Family(t) = f => (t \in over' <=> t \in over)
<1>1. Latest(f)' = Latest(f)
  BY DEF Aside, Latest
<1>2. \A t : Family(t) = f => (t \in over' <=> t \in over) /\ (t \in spent' <=> t \in spent)
  BY DEF Aside, OfFamily
<1>3. Latest(f) \in Tokens /\ Family(Latest(f)) = f
  BY LatestIs DEF Lasting, RowsLast
<1>4. RowsLast(f)'
  BY <1>1, <1>2, <1>3 DEF Aside, Lasting, RowsLast
<1>5. Used(f)'
  BY <1>1, <1>2, <1>3 DEF Aside, Lasting, Used
<1>. QED
  BY <1>1, <1>2, <1>4, <1>5

\* The token of an exchange is of the session.
LEMMA ExchangeTokens ==
  ASSUME TypeInv, NEW f \in Sessions, NEW p \in Exchanges(f)
  PROVE  p \in Renewal /\ p.token \in Tokens /\ Family(p.token) = f /\ p.token # None
BY NoToken DEF TypeInv, TypeOK, Exchanges, Renewal

\* Nothing changes in the browser.
LEMMA BrowserAside ==
  ASSUME TypeInv, NEW f \in Sessions, Lasting(f), Aside(f), UNCHANGED browser
  PROVE  Lasting(f)'
<1>1. RowsLast(f)' /\ Used(f)' /\ Latest(f)' = Latest(f)
  BY AsideKeeps
<1>2. \A t \in Tokens : Family(t) = f => (t \in over' <=> t \in over)
  BY AsideKeeps
<1>3. jar' = jar /\ request' = request
  BY DEF browser
<1>4. Known(Latest(f))' <=> Known(Latest(f))
  BY <1>1, <1>3 DEF Known
<1>5. \A p \in Exchanges(f) : ExchangeOf(f, p)'
  <2> SUFFICES ASSUME NEW p \in Exchanges(f) PROVE ExchangeOf(f, p)'
    OBVIOUS
  <2>1. ExchangeOf(f, p)
    BY DEF Lasting, ExchangesLast
  <2>. QED
    BY <1>1, <1>2, <1>3, <1>4, <2>1, ExchangeTokens DEF ExchangeOf
<1>6. ExchangesLast(f)'
  BY <1>5 DEF Aside, Lasting, ExchangesLast
<1>7. \A r \in Requests : RequestOf(f, request[r])'
  BY <1>3 DEF Lasting, RequestOf, Aside
<1>8. AtHome(f) => AtHome(f)'
  BY <1>1, <1>3 DEF AtHome, Aside, Carries
<1>9. SigningIn(f) => SigningIn(f)'
  BY <1>3 DEF SigningIn, SignsInAs, Aside
<1>. QED
  BY <1>1, <1>6, <1>7, <1>8, <1>9 DEF Lasting

\* One request changes that nobody waits with and that does not give up the
\* session's last token.
LEMMA OneRequestAside ==
  ASSUME TypeInv, NEW f \in Sessions, Lasting(f), Aside(f), jar' = jar,
         NEW r \in Requests, NEW new, request' = [request EXCEPT ![r] = new],
         request[r].step # "waiting", RequestOf(f, new),
         new.cookies \in {jar, request[r].cookies, ClearSession},
         new.answer \in {None, request[r].answer} \/ new.answer.refresh # Latest(f),
         Carries(request[r], Latest(f)) => Carries(new, Latest(f)),
         SignsInAs(f, request[r]) => SignsInAs(f, new)
  PROVE  Lasting(f)'
<1>1. RowsLast(f)' /\ Used(f)' /\ Latest(f)' = Latest(f)
  BY AsideKeeps
<1>2. \A t \in Tokens : Family(t) = f => (t \in over' <=> t \in over)
  BY AsideKeeps
<1>3. request'[r] = new /\ \A q \in Requests : q # r => request'[q] = request[q]
  BY DEF TypeInv, TypeOK
<1>4. Latest(f) # None /\ ClearSession.refresh = None /\ ClearSession.who = None /\ f # None
  BY LatestIs, NoToken DEF Lasting, RowsLast, ClearSession
<1>5. Known(Latest(f))' => Known(Latest(f))
  BY <1>1, <1>3, <1>4 DEF Known
<1>6. \A p \in Exchanges(f) : ExchangeOf(f, p)'
  <2> SUFFICES ASSUME NEW p \in Exchanges(f) PROVE ExchangeOf(f, p)'
    OBVIOUS
  <2>1. ExchangeOf(f, p)
    BY DEF Lasting, ExchangesLast
  <2>2. PICK w \in Requests : request[w].step = "waiting" /\ request[w].cookies.refresh = p.token
    BY <2>1 DEF ExchangeOf
  <2>3. request'[w] = request[w]
    BY <1>3, <2>2
  <2>. QED
    BY <1>1, <1>2, <1>5, <2>1, <2>2, <2>3, ExchangeTokens DEF ExchangeOf
<1>7. ExchangesLast(f)'
  BY <1>6 DEF Aside, Lasting, ExchangesLast
<1>8. \A q \in Requests : RequestOf(f, request[q])'
  <2>1. \A q \in Requests : RequestOf(f, request'[q])
    BY <1>3 DEF Lasting
  <2>. QED
    BY <2>1 DEF RequestOf, Aside
<1>9. AtHome(f) => AtHome(f)'
  BY <1>1, <1>3 DEF AtHome, Aside, Carries
<1>10. SigningIn(f) => SigningIn(f)'
  BY <1>3, <1>4 DEF SigningIn, SignsInAs, Aside
<1>. QED
  BY <1>1, <1>7, <1>8, <1>9, <1>10 DEF Lasting

\* The exchange of another session's token ends.
LEMMA ResumeAside ==
  ASSUME TypeInv, AgreeInv, NEW f \in Sessions, Lasting(f), Aside(f), jar' = jar,
         NEW t \in Tokens, Family(t) # f,
         NEW issued \in Tokens \cup {None}, issued # None => Family(issued) = Family(t),
         Resume(t, issued)
  PROVE  Lasting(f)'
<1>1. RowsLast(f)' /\ Used(f)' /\ Latest(f)' = Latest(f)
  BY AsideKeeps
<1>2. \A u \in Tokens : Family(u) = f => (u \in over' <=> u \in over)
  BY AsideKeeps
<1> DEFINE given == IF issued = None THEN ClearSession ELSE StoreSession(issued)
           Resumed(r) == request[r].step = "waiting" /\ request[r].cookies.refresh = t
<1>3. /\ Latest(f) # None /\ Family(Latest(f)) = f /\ given.refresh = issued /\ f # None
      /\ given.refresh # Latest(f)
  BY LatestIs, NoToken DEF Lasting, RowsLast, ClearSession, StoreSession
<1>4. \A r \in Requests :
        /\ request'[r].cookies = request[r].cookies /\ request'[r].kind = request[r].kind
        /\ ~Resumed(r) => request'[r] = request[r]
        /\ Resumed(r) => request'[r].answer = given /\ request[r].cookies.who = Family(t)
  <2> SUFFICES ASSUME NEW r \in Requests
               PROVE  /\ request'[r].cookies = request[r].cookies
                      /\ request'[r].kind = request[r].kind
                      /\ ~Resumed(r) => request'[r] = request[r]
                      /\ Resumed(r) => request'[r].answer = given
                                         /\ request[r].cookies.who = Family(t)
    OBVIOUS
  <2>1. request[r] \in Request /\ RequestAgrees(request[r])
    BY DEF TypeInv, TypeOK, AgreeInv
  <2>2. CASE Resumed(r)
    <3>1. request'[r] = [request[r] EXCEPT !.step = "forwarded", !.answer = given]
      BY <2>2 DEF Resume
    <3>2. request[r].cookies.who = Family(t)
      BY <2>1, <2>2, NoToken DEF RequestAgrees, Agrees
    <3>. QED
      BY <2>1, <2>2, <3>1, <3>2 DEF Request
  <2>3. CASE ~Resumed(r)
    BY <2>3 DEF Resume
  <2>. QED
    BY <2>2, <2>3
<1> HIDE DEF given
<1>5. Known(Latest(f))' => Known(Latest(f))
  BY <1>1, <1>3, <1>4 DEF Known
<1>6. \A p \in Exchanges(f) : ExchangeOf(f, p)'
  <2> SUFFICES ASSUME NEW p \in Exchanges(f) PROVE ExchangeOf(f, p)'
    OBVIOUS
  <2>1. ExchangeOf(f, p)
    BY DEF Lasting, ExchangesLast
  <2>2. PICK w \in Requests : request[w].step = "waiting" /\ request[w].cookies.refresh = p.token
    BY <2>1 DEF ExchangeOf
  <2>3. request'[w] = request[w]
    BY <1>4, <2>2, ExchangeTokens
  <2>. QED
    BY <1>1, <1>2, <1>5, <2>1, <2>2, <2>3, ExchangeTokens DEF ExchangeOf
<1>7. ExchangesLast(f)'
  BY <1>6 DEF Aside, Lasting, ExchangesLast
<1>8. \A r \in Requests : RequestOf(f, request[r])'
  <2> SUFFICES ASSUME NEW r \in Requests PROVE RequestOf(f, request[r])'
    OBVIOUS
  <2>1. RequestOf(f, request[r])
    BY DEF Lasting
  <2>2. CASE Resumed(r)
    BY <1>4, <2>1, <2>2 DEF RequestOf
  <2>3. CASE ~Resumed(r)
    BY <1>4, <2>1, <2>3 DEF RequestOf, Aside
  <2>. QED
    BY <2>2, <2>3
<1>9. AtHome(f) => AtHome(f)'
  <2>1. \A r \in Requests : Carries(request[r], Latest(f)) => request'[r] = request[r]
    BY <1>4 DEF Carries
  <2>. QED
    BY <1>1, <2>1 DEF AtHome, Aside, Carries
<1>10. SigningIn(f) => SigningIn(f)'
  <2>1. \A r \in Requests : SignsInAs(f, request[r]) => request'[r] = request[r]
    BY <1>4 DEF SignsInAs
  <2>. QED
    BY <1>4, <2>1 DEF SigningIn, SignsInAs, Aside
<1>. QED
  BY <1>1, <1>7, <1>8, <1>9, <1>10 DEF Lasting

-----------------------------------------------------------------------------
(* Steps of the browser and the frontend's server.                         *)

\* What is shown of a session by its cookies.
LEMMA OfSession ==
  ASSUME TypeInv, AgreeInv, SideInv, NEW f \in Sessions, NEW c \in Cookies,
         Agrees(c), Full(c)
  PROVE  /\ c.who = f <=> c.refresh \in Tokens /\ Family(c.refresh) = f
         /\ c.refresh \in Tokens => c.refresh # None /\ Family(c.refresh) = c.who
BY NoToken DEF Agrees, Full, Cookies

LEMMA KeptBySend ==
  ASSUME TypeInv, NEW f \in Sessions, Lasting(f), NEW r \in Requests, Send(r), SideInv
  PROVE  Lasting(f)'
<1> DEFINE new == [Idle EXCEPT !.step = "sent", !.cookies = jar]
<1>1. Aside(f) /\ jar' = jar /\ request' = [request EXCEPT ![r] = new]
  BY DEF Send, Aside, rows, history, OfFamily, Exchanges
<1>2. request[r] = Idle
  BY DEF Send, SideInv, RequestKind
<1>3. /\ request[r].step = "idle" /\ new.kind = "call" /\ new.cookies = jar
      /\ new.answer = None
  BY <1>2 DEF Idle
<1>4. RequestOf(f, new) /\ ~Carries(request[r], Latest(f)) /\ ~SignsInAs(f, request[r])
  BY <1>3 DEF RequestOf, Carries, SignsInAs
<1> HIDE DEF new
<1>. QED
  BY <1>1, <1>3, <1>4, OneRequestAside

LEMMA KeptByForward ==
  ASSUME TypeInv, NEW f \in Sessions, Lasting(f), NEW r \in Requests,
         UseToken(r) \/ LoseLogout(r)
  PROVE  Lasting(f)'
<1> DEFINE new == [request[r] EXCEPT !.step = "forwarded"]
<1>1. Aside(f) /\ jar' = jar /\ request' = [request EXCEPT ![r] = new]
  BY DEF UseToken, LoseLogout, Aside, rows, history, OfFamily, Exchanges, TypeInv, TypeOK
<1>2. /\ request[r].step \in {"sent", "leaving"} /\ new.kind = request[r].kind
      /\ new.cookies = request[r].cookies /\ new.answer = request[r].answer
  BY DEF UseToken, LoseLogout, TypeInv, TypeOK, Request
<1>3. RequestOf(f, new) /\ ~Carries(request[r], Latest(f)) /\ ~SignsInAs(f, request[r])
  BY <1>2 DEF RequestOf, Carries, SignsInAs, Lasting
<1> HIDE DEF new
<1>. QED
  BY <1>1, <1>2, <1>3, OneRequestAside

\* A request joins the exchange of its token, or starts one for the last token;
\* for any other token of the session the session would not be unbroken.
LEMMA KeptByJoin ==
  ASSUME TypeInv, AgreeInv, SideInv, NEW f \in Sessions, Lasting(f),
         NEW r \in Requests, NEW retried \in BOOLEAN, RefreshSession(r, retried), Aside(f),
         request[r].kind = "call", request[r].step \in {"sent", "forwarded"},
         Carries(request[r], Latest(f)) => FALSE
  PROVE  Lasting(f)'
<1> DEFINE new == [request[r] EXCEPT !.step = "waiting", !.retried = retried]
<1>1. jar' = jar /\ request' = [request EXCEPT ![r] = new]
  BY DEF RefreshSession, TypeInv, TypeOK, Request
<1>2. /\ new.kind = "call" /\ new.cookies = request[r].cookies
      /\ new.answer = request[r].answer
  BY DEF TypeInv, TypeOK, Request
<1>3. RequestOf(f, new) /\ ~SignsInAs(f, request[r])
  BY <1>2 DEF RequestOf, SignsInAs, Lasting
<1> HIDE DEF new
<1>. QED
  BY <1>1, <1>2, <1>3, OneRequestAside

LEMMA KeptByStart ==
  ASSUME TypeInv, AgreeInv, SideInv, RowsInv, NEW f \in unbroken, Lasting(f),
         NEW r \in Requests, NEW retried \in BOOLEAN, RefreshSession(r, retried),
         ~Exchanging(request[r].cookies.refresh), f \in unbroken',
         request[r].kind = "call", Family(request[r].cookies.refresh) = f
  PROVE  Lasting(f)'
<1> DEFINE t == request[r].cookies.refresh
           new == [request[r] EXCEPT !.step = "waiting", !.retried = retried]
<1>0. PICK started :
        started = [token |-> t, stage |-> "sent", issued |-> None, heard |-> TRUE, since |-> 0]
  OBVIOUS
<1>1. f \in Sessions /\ t \in Tokens /\ t # None
  BY DEF RefreshSession, TypeInv, TypeOK, Request, Cookies
<1>2. t \notin over /\ renewals' = renewals \cup {started} /\ jar' = jar
        /\ UNCHANGED <<live, spent, count, over>>
  BY <1>0 DEF RefreshSession, rows
<1>3. request' = [request EXCEPT ![r] = new] /\ request[r] \in Request
  BY DEF RefreshSession, TypeInv, TypeOK, Request
<1>4. \A p \in Exchanges(f) : p.token # t
  BY DEF Lasting, ExchangesLast, ExchangeOf, Exchanges, Exchanging
<1>5. t = Latest(f)
  <2>1. t[1] = f /\ t[2] \in Nat /\ t = <<f, t[2]>> /\ count[f] \in Nat
    BY <1>1, NoToken DEF TypeInv, TypeOK
  <2>2. t[2] < count[f]
    BY <1>1, <2>1 DEF RowsInv, IssuedInv, RequestIssued, Issued
  <2>3. ~(t[2] < count[f] - 1)
    BY <1>1, <1>2, <1>4 DEF Lasting, Used
  <2>4. t[2] = count[f] - 1
    BY <2>1, <2>2, <2>3
  <2>. QED
    BY <2>1, <2>4 DEF Latest
<1>6. Exchanges(f) = {}
  <2>1. Known(Latest(f))
    BY <1>5 DEF Known
  <2>. QED
    BY <1>4, <1>5, <2>1 DEF Lasting, ExchangesLast, ExchangeOf
<1>7. Exchanges(f)' = {started}
  BY <1>0, <1>2, <1>6 DEF Exchanges
<1>8. /\ request'[r].kind = "call" /\ request'[r].cookies = request[r].cookies
      /\ request'[r].answer = request[r].answer /\ request'[r].step = "waiting"
      /\ \A q \in Requests : q # r => request'[q] = request[q]
  BY <1>3 DEF TypeInv, TypeOK, Request
<1>9. Latest(f)' = Latest(f)
  BY <1>2 DEF Latest
<1>10. RowsLast(f)' /\ Used(f)'
  BY <1>2, <1>6, <1>9 DEF Lasting, RowsLast, Used, OfFamily
<1>11. ExchangeOf(f, started)'
  BY <1>0, <1>2, <1>5, <1>8, <1>9 DEF ExchangeOf
<1>12. ExchangesLast(f)'
  BY <1>7, <1>11 DEF ExchangesLast
<1>13. \A q \in Requests : RequestOf(f, request[q])'
  <2> SUFFICES ASSUME NEW q \in Requests PROVE RequestOf(f, request[q])'
    OBVIOUS
  <2>1. RequestOf(f, request[q])
    BY DEF Lasting
  <2>. QED
    BY <1>2, <1>8, <2>1 DEF RequestOf
<1>14. request[r].cookies.who = f
  BY <1>1 DEF AgreeInv, RequestAgrees, Agrees
<1>15. AtHome(f)
  BY <1>14 DEF Lasting, SigningIn
<1>16. ~Carries(request[r], Latest(f))
  <2>1. RequestOf(f, request[r])
    BY DEF Lasting
  <2>. QED
    BY <1>2, <1>14, <2>1 DEF RequestOf, Carries
<1>17. AtHome(f)'
  <2>1. \A q \in Requests : Carries(request[q], Latest(f)) => Carries(request'[q], Latest(f))
    BY <1>8, <1>16
  <2>. QED
    BY <1>2, <1>6, <1>9, <1>15, <2>1 DEF AtHome, Carries
<1>. QED
  BY <1>10, <1>12, <1>13, <1>17 DEF Lasting

LEMMA KeptByRefresh ==
  ASSUME TypeInv, AgreeInv, SideInv, RowsInv, NEW f \in unbroken, Lasting(f),
         NEW r \in Requests, NEW retried \in BOOLEAN, RefreshSession(r, retried),
         request[r].kind = "call", request[r].step \in {"sent", "forwarded"},
         f \in unbroken'
  PROVE  Lasting(f)'
<1> DEFINE t == request[r].cookies.refresh
<1>1. f \in Sessions /\ t \in Tokens /\ t # None /\ Latest(f) \in Tokens
        /\ Latest(f) # None /\ Family(Latest(f)) = f
  BY LatestIs DEF RefreshSession, TypeInv, TypeOK, Request, Cookies, Lasting, RowsLast
<1>2. /\ request[r].cookies.who = Family(t) /\ RequestAgrees(request[r])
  BY <1>1 DEF AgreeInv, RequestAgrees, Agrees
<1>3. Carries(request[r], Latest(f)) => Family(t) = f /\ t \in over
  <2> SUFFICES ASSUME Carries(request[r], Latest(f)) PROVE Family(t) = f /\ t \in over
    OBVIOUS
  <2>1. request[r].answer # None /\ request[r].answer.who = f
    BY <1>1, <1>2 DEF Carries, RequestAgrees, Agrees
  <2>2. Family(t) = f
    BY <1>1, <1>2, <2>1, NoToken DEF RequestAgrees
  <2>. QED
    BY <1>2, <2>1, <2>2 DEF Lasting, RequestOf
<1>4. Exchanging(t) /\ Family(t) = f => t \notin over
  BY DEF Exchanging, Lasting, ExchangesLast, ExchangeOf, Exchanges
<1>5. CASE Exchanging(t)
  <2>1. Aside(f)
    BY <1>5 DEF RefreshSession, rows, Aside, OfFamily, Exchanges
  <2>. QED
    BY <1>1, <1>3, <1>4, <1>5, <2>1, KeptByJoin
<1>6. CASE ~Exchanging(t) /\ Family(t) # f
  <2>1. Aside(f)
    BY <1>6 DEF RefreshSession, rows, Aside, OfFamily, Exchanges
  <2>. QED
    BY <1>1, <1>3, <1>6, <2>1, KeptByJoin
<1>7. CASE ~Exchanging(t) /\ Family(t) = f
  BY <1>7, KeptByStart
<1>. QED
  BY <1>5, <1>6, <1>7

\* Another session is signed in to, or nobody's.
LEMMA KeptBySignIn ==
  ASSUME TypeInv, SideInv, NEW f \in Sessions, Lasting(f), NEW r \in Requests,
         (\E g \in Sessions : g # f /\ Login(r, g)) \/ SignInAccessOnly(r)
  PROVE  Lasting(f)'
<1>1. request[r] = Idle /\ Idle.step = "idle" /\ Idle.kind = "call"
  BY DEF Login, SignInAccessOnly, SideInv, RequestKind, Idle
<1>2. ~Carries(request[r], Latest(f)) /\ ~SignsInAs(f, request[r])
        /\ request[r].step # "waiting"
  BY <1>1 DEF Carries, SignsInAs
<1>3. Latest(f) # None /\ Family(Latest(f)) = f
  BY LatestIs DEF Lasting, RowsLast
<1>4. ASSUME NEW g \in Sessions, g # f, Login(r, g) PROVE Lasting(f)'
  <2> DEFINE new == [Idle EXCEPT !.kind = "login", !.step = "forwarded",
                                 !.cookies = jar, !.answer = StoreSession(<<g, 0>>)]
  <2>1. request' = [request EXCEPT ![r] = new] /\ jar' = jar
    BY <1>4 DEF Login
  <2>2. Aside(f)
    <3>1. live' = live \cup {<<g, 0>>} /\ Family(<<g, 0>>) # f
      BY <1>4 DEF Login, Family
    <3>2. OfFamily(f, live)' = OfFamily(f, live)
      BY <3>1 DEF OfFamily
    <3>3. count'[f] = count[f] /\ UNCHANGED <<spent, over, renewals>>
      BY <1>4 DEF Login, TypeInv, TypeOK
    <3>. QED
      BY <3>2, <3>3 DEF Aside, OfFamily, Exchanges
  <2>3. new.kind = "login" /\ new.cookies = jar /\ new.answer = StoreSession(<<g, 0>>)
    BY DEF Idle
  <2>4. new.answer.refresh # Latest(f)
    BY <1>3, <1>4, <2>3 DEF StoreSession, Family
  <2>5. RequestOf(f, new)
    BY <2>3 DEF RequestOf
  <2> HIDE DEF new
  <2>. QED
    BY <1>2, <2>1, <2>2, <2>3, <2>4, <2>5, OneRequestAside
<1>5. CASE SignInAccessOnly(r)
  <2> DEFINE new == [Idle EXCEPT !.kind = "access", !.step = "forwarded",
                                 !.cookies = jar, !.answer = AccessOnly(jar)]
  <2>1. request' = [request EXCEPT ![r] = new] /\ jar' = jar /\ Aside(f)
    BY <1>5 DEF SignInAccessOnly, Aside, OfFamily, Exchanges, rows, history
  <2>2. new.kind = "access" /\ new.cookies = jar /\ new.answer = AccessOnly(jar)
    BY DEF Idle
  <2>3. RequestOf(f, new) /\ new.answer.refresh # Latest(f)
    BY <1>3, <2>2 DEF RequestOf, AccessOnly
  <2> HIDE DEF new
  <2>. QED
    BY <1>2, <2>1, <2>2, <2>3, OneRequestAside
<1>. QED
  BY <1>4, <1>5

LEMMA KeptByLogout ==
  ASSUME TypeInv, SideInv, NEW f \in Sessions, Lasting(f), NEW r \in Requests,
         Logout(r), f \in unbroken'
  PROVE  Lasting(f)'
<1> DEFINE new == [Idle EXCEPT !.kind = "logout", !.cookies = jar,
                     !.answer = ClearSession,
                     !.step = IF jar.refresh = None THEN "forwarded" ELSE "leaving"]
<1>1. request[r] = Idle /\ Idle.step = "idle" /\ Idle.kind = "call"
  BY DEF Logout, SideInv, RequestKind, Idle
<1>2. ~Carries(request[r], Latest(f)) /\ ~SignsInAs(f, request[r])
        /\ request[r].step # "waiting"
  BY <1>1 DEF Carries, SignsInAs
<1>3. Latest(f) # None
  BY LatestIs DEF Lasting, RowsLast
<1>4. jar.who # f
  BY DEF Logout
<1>5. request' = [request EXCEPT ![r] = new] /\ jar' = jar /\ Aside(f)
  BY DEF Logout, Aside, OfFamily, Exchanges, rows
<1>6. new.kind = "logout" /\ new.cookies = jar /\ new.answer = ClearSession
  BY DEF Idle
<1>7. RequestOf(f, new) /\ new.answer.refresh # Latest(f)
  BY <1>3, <1>4, <1>6 DEF RequestOf, ClearSession
<1> HIDE DEF new
<1>. QED
  BY <1>2, <1>5, <1>6, <1>7, OneRequestAside

\* A family that goes is another session's.
LEMMA RevokeAside ==
  ASSUME NEW f, NEW g, g # f, NEW began, RevokeFamily(g, began)
  PROVE  OfFamily(f, live)' = OfFamily(f, live) /\ OfFamily(f, spent)' = OfFamily(f, spent)
BY DEF RevokeFamily, Seen, OfFamily

LEMMA KeptByLogoutUser ==
  ASSUME TypeInv, AgreeInv, SideInv, NEW f \in Sessions, Lasting(f), NEW r \in Requests,
         FindSession(r) \/ LogoutUser(r)
  PROVE  Lasting(f)'
<1> DEFINE t == request[r].cookies.refresh
<1>1. request[r].kind = "logout" /\ request[r].step \in {"leaving", "deleting"} /\ t \in Tokens
  BY DEF FindSession, LogoutUser, SideInv, RequestKind, TypeInv, LeavingInv
<1>2. request[r].cookies.who # f
  BY <1>1 DEF Lasting, RequestOf
<1>3. Family(t) # f
  BY <1>1, <1>2, NoToken DEF AgreeInv, RequestAgrees, Agrees
<1>4. /\ OfFamily(f, live)' = OfFamily(f, live) /\ OfFamily(f, spent)' = OfFamily(f, spent)
      /\ UNCHANGED <<count, over, renewals, jar>>
  <2>1. CASE FindSession(r)
    BY <2>1 DEF FindSession, OfFamily, rows
  <2>2. CASE LogoutUser(r)
    <3>1. PICK began : RevokeFamily(Family(t), began)
      BY <2>2 DEF LogoutUser
    <3>. QED
      BY <1>3, <2>2, <3>1, RevokeAside DEF LogoutUser
  <2>. QED
    BY <2>1, <2>2
<1>5. Aside(f) /\ jar' = jar
  BY <1>4 DEF Aside, OfFamily, Exchanges
<1>6. \E new : /\ request' = [request EXCEPT ![r] = new]
              /\ new.kind = "logout" /\ new.cookies = request[r].cookies
              /\ new.answer = request[r].answer
  <2>1. \E step, since :
          request' = [request EXCEPT ![r] = [request[r] EXCEPT !.step = step, !.since = since]]
    <3>1. CASE FindSession(r)
      BY <3>1, FindSessionMoves
    <3>2. CASE LogoutUser(r)
      BY <3>2, LogoutUserMoves
    <3>. QED
      BY <3>1, <3>2
  <2>2. PICK step, since :
          request' = [request EXCEPT ![r] = [request[r] EXCEPT !.step = step, !.since = since]]
    BY <2>1
  <2> DEFINE moved == [request[r] EXCEPT !.step = step, !.since = since]
  <2>3. /\ moved.kind = "logout" /\ moved.cookies = request[r].cookies
        /\ moved.answer = request[r].answer
    BY <1>1 DEF TypeInv, TypeOK, Request
  <2> HIDE DEF moved
  <2>4. request' = [request EXCEPT ![r] = moved]
    BY <2>2 DEF moved
  <2>. QED
    BY <2>3, <2>4
<1>7. PICK new : /\ request' = [request EXCEPT ![r] = new]
                 /\ new.kind = "logout" /\ new.cookies = request[r].cookies
                 /\ new.answer = request[r].answer
  BY <1>6
<1>8. RequestOf(f, new) /\ ~Carries(request[r], Latest(f)) /\ ~SignsInAs(f, request[r])
  BY <1>1, <1>2, <1>7 DEF RequestOf, Carries, SignsInAs
<1>. QED
  BY <1>1, <1>5, <1>7, <1>8, OneRequestAside

\* An answer without cookies arrives, or any answer that is lost.
LEMMA KeptByIdle ==
  ASSUME TypeInv, NEW f \in Sessions, Lasting(f), Aside(f), jar' = jar,
         NEW r \in Requests, request[r].step = "forwarded",
         request' = [request EXCEPT ![r] = Idle],
         ~Carries(request[r], Latest(f)), ~SignsInAs(f, request[r])
  PROVE  Lasting(f)'
<1>1. Idle.kind = "call" /\ Idle.cookies = ClearSession /\ Idle.answer = None
  BY DEF Idle
<1>2. RequestOf(f, Idle)
  BY <1>1 DEF RequestOf
<1>. QED
  BY <1>1, <1>2, OneRequestAside

LEMMA KeptByLoss ==
  ASSUME TypeInv, AgreeInv, NEW f \in Sessions, Lasting(f), NEW r \in Requests,
         LoseAnswer(r), f \in unbroken'
  PROVE  Lasting(f)'
<1>1. Aside(f) /\ jar' = jar
  BY DEF LoseAnswer, Aside, OfFamily, Exchanges, rows
<1>2. request[r].answer # None => request[r].answer.who # f
  BY DEF LoseAnswer
<1>3. Latest(f) # None /\ Family(Latest(f)) = f
  BY LatestIs DEF Lasting, RowsLast
<1>4. ~Carries(request[r], Latest(f))
  BY <1>2, <1>3 DEF Carries, AgreeInv, RequestAgrees, Agrees
<1>5. StoreSession(<<f, 0>>) # None /\ StoreSession(<<f, 0>>).who = f
  <2>1. <<f, 0>> \in Tokens
    BY DEF Tokens
  <2>. QED
    BY <2>1, CookieTypes, SessionsAssumption DEF StoreSession, Family
<1>6. ~SignsInAs(f, request[r])
  BY <1>2, <1>5 DEF SignsInAs
<1>. QED
  BY <1>1, <1>4, <1>6, KeptByIdle DEF LoseAnswer

-----------------------------------------------------------------------------
(* Answers that arrive.                                                    *)

\* What does not depend on whose the cookies are by then.
LEMMA DeliverKeeps ==
  ASSUME TypeInv, NEW f \in Sessions, Lasting(f), NEW r \in Requests, Deliver(r)
  PROVE  /\ RowsLast(f)' /\ Used(f)' /\ ExchangesLast(f)' /\ Latest(f)' = Latest(f)
         /\ \A q \in Requests : RequestOf(f, request[q])'
<1>1. Aside(f)
  BY DEF Deliver, Aside, OfFamily, Exchanges, rows
<1>2. RowsLast(f)' /\ Used(f)' /\ Latest(f)' = Latest(f)
  BY <1>1, AsideKeeps
<1>3. /\ request'[r] = Idle /\ \A q \in Requests : q # r => request'[q] = request[q]
      /\ Idle.kind = "call" /\ Idle.cookies = ClearSession /\ Idle.answer = None
      /\ ClearSession.refresh = None /\ over' = over /\ request[r].step = "forwarded"
  BY DEF Deliver, TypeInv, TypeOK, Idle, ClearSession
<1>4. Latest(f) # None
  BY LatestIs DEF Lasting, RowsLast
<1>5. Known(Latest(f))' => Known(Latest(f))
  <2>1. jar' = jar \/ (request[r].answer # None /\ jar' = request[r].answer)
    BY DEF Deliver
  <2>2. Latest(f)' = Latest(f)
    BY <1>2
  <2>3. jar'.refresh = Latest(f) => Known(Latest(f))
    BY <2>1 DEF Known
  <2>4. \A q \in Requests : request'[q].cookies.refresh = Latest(f) => Known(Latest(f))
    BY <1>3, <1>4 DEF Known
  <2>5. \A q \in Requests : request'[q].answer # None /\ request'[q].answer.refresh = Latest(f)
          => Known(Latest(f))
    BY <1>3 DEF Known
  <2>. QED
    BY <2>2, <2>3, <2>4, <2>5 DEF Known
<1>6. \A p \in Exchanges(f) : ExchangeOf(f, p)'
  <2> SUFFICES ASSUME NEW p \in Exchanges(f) PROVE ExchangeOf(f, p)'
    OBVIOUS
  <2>1. ExchangeOf(f, p)
    BY DEF Lasting, ExchangesLast
  <2>2. PICK w \in Requests : request[w].step = "waiting" /\ request[w].cookies.refresh = p.token
    BY <2>1 DEF ExchangeOf
  <2>3. request'[w] = request[w]
    BY <1>3, <2>2
  <2>. QED
    BY <1>2, <1>3, <1>5, <2>1, <2>2, <2>3 DEF ExchangeOf
<1>7. ExchangesLast(f)'
  BY <1>1, <1>6 DEF Aside, Lasting, ExchangesLast
<1>8. \A q \in Requests : RequestOf(f, request[q])'
  <2>1. \A q \in Requests : RequestOf(f, request'[q])
    BY <1>3 DEF Lasting, RequestOf
  <2>. QED
    BY <1>3, <2>1 DEF RequestOf
<1>. QED
  BY <1>2, <1>7, <1>8

\* The browser is signed in to the session: the answer is to a call sent in it,
\* and no older than what the browser holds.
LEMMA DeliverAtHome ==
  ASSUME TypeInv, AgreeInv, SideInv, RowsInv, NEW f \in Sessions, Lasting(f),
         NEW r \in Requests, Deliver(r), f \in unbroken', request[r].answer # None, AtHome(f)
  PROVE  AtHome(f)'
<1> DEFINE a == request[r].answer
<1>1. jar.who = f /\ request[r].kind \notin {"login", "access"} /\ ~Overtaken(r)
  BY DEF Deliver, AtHome
<1>2. request[r] \in Request /\ request[r].cookies.who = f
  BY <1>1 DEF Overtaken, TypeInv, TypeOK
<1>3. request[r].kind = "call"
  BY <1>1, <1>2 DEF Lasting, RequestOf, Request, Kinds
<1>4. a.who = f
  BY <1>2, <1>3 DEF Lasting, RequestOf
<1>5. a.refresh \in Tokens /\ Family(a.refresh) = f /\ a.refresh[2] < count[f]
  <2>1. Full(a) /\ Agrees(a) /\ Issued(a.refresh)
    BY DEF SideInv, RequestKind, AgreeInv, RequestAgrees, RowsInv, IssuedInv, RequestIssued
  <2>2. a.refresh \in Tokens
    BY <1>4, <2>1 DEF Full
  <2>. QED
    BY <1>4, <2>1, <2>2, NoToken DEF Agrees, Issued
<1>6. jar' = a /\ \A q \in Requests : q # r => request'[q] = request[q]
  BY DEF Deliver, TypeInv, TypeOK
<1>7. Latest(f)' = Latest(f) /\ Exchanges(f)' = Exchanges(f)
  BY DeliverKeeps DEF Deliver, Exchanges
<1>8. jar.refresh = Latest(f) => a.refresh = Latest(f)
  <2> SUFFICES ASSUME jar.refresh = Latest(f) PROVE a.refresh = Latest(f)
    OBVIOUS
  <2>1. jar.refresh # None /\ Family(jar.refresh) = f /\ a.refresh # None
    BY <1>5, LatestIs, NoToken DEF Lasting, RowsLast
  <2>2. ~(a.refresh[2] < jar.refresh[2])
    BY <1>1, <1>5, <2>1 DEF Overtaken
  <2>3. jar.refresh[2] = count[f] - 1 /\ count[f] \in Nat
    BY DEF Latest, TypeInv, TypeOK
  <2>4. a.refresh = <<f, a.refresh[2]>> /\ a.refresh[2] \in Nat
    BY <1>5, NoToken
  <2>5. a.refresh[2] = count[f] - 1
    BY <1>5, <2>2, <2>3, <2>4
  <2>. QED
    BY <2>4, <2>5 DEF Latest
<1>9. CASE jar.refresh = Latest(f)
  BY <1>4, <1>6, <1>7, <1>8, <1>9 DEF AtHome
<1>10. ASSUME NEW q \in Requests, Carries(request[q], Latest(f)) PROVE AtHome(f)'
  <2>1. CASE q = r
    BY <1>4, <1>6, <1>7, <1>10, <2>1 DEF AtHome, Carries
  <2>2. CASE q # r
    BY <1>4, <1>6, <1>7, <1>10, <2>2 DEF AtHome, Carries
  <2>. QED
    BY <2>1, <2>2
<1>11. CASE \E p \in Exchanges(f) : p.stage = "done"
  BY <1>4, <1>6, <1>7, <1>11 DEF AtHome
<1>. QED
  BY <1>9, <1>10, <1>11 DEF AtHome

\* The session is being signed in to: its answer arrives, or another one.
LEMMA DeliverSigningIn ==
  ASSUME TypeInv, AgreeInv, SideInv, RowsInv, NEW f \in Sessions, Lasting(f),
         NEW r \in Requests, Deliver(r), request[r].answer # None, SigningIn(f)
  PROVE  AtHome(f)' \/ SigningIn(f)'
<1> DEFINE a == request[r].answer
<1>1. jar' = a /\ request'[r] = Idle /\ \A q \in Requests : q # r => request'[q] = request[q]
  BY DEF Deliver, TypeInv, TypeOK
<1>2. Latest(f)' = Latest(f) /\ count' = count /\ Latest(f) = <<f, 0>>
  BY DeliverKeeps DEF Deliver, rows, Latest, SigningIn
<1>3. CASE a.who = f
  <2>1. Full(a) /\ Agrees(a) /\ Issued(a.refresh)
    BY DEF SideInv, RequestKind, AgreeInv, RequestAgrees, RowsInv, IssuedInv, RequestIssued
  <2>2. a.refresh \in Tokens /\ Family(a.refresh) = f
    BY <1>3, <2>1, NoToken DEF Full, Agrees
  <2>3. a.refresh = <<f, a.refresh[2]>> /\ a.refresh[2] \in Nat /\ a.refresh[2] < 1
    BY <2>1, <2>2, NoToken DEF Issued, SigningIn
  <2>4. a.refresh = Latest(f)
    BY <1>2, <2>3
  <2>. QED
    BY <1>1, <1>2, <1>3, <2>4 DEF AtHome
<1>4. CASE a.who # f
  <2>1. PICK q \in Requests : SignsInAs(f, request[q])
    BY DEF SigningIn
  <2>2. q # r
    BY <1>4, <2>1 DEF SignsInAs, StoreSession, Family
  <2>3. Idle.cookies.who # f
    BY NoToken DEF Idle, ClearSession
  <2>. QED
    BY <1>1, <1>2, <1>4, <2>1, <2>2, <2>3 DEF SigningIn, SignsInAs
<1>. QED
  BY <1>3, <1>4

LEMMA KeptByDeliver ==
  ASSUME TypeInv, AgreeInv, SideInv, RowsInv, NEW f \in Sessions, Lasting(f),
         NEW r \in Requests, Deliver(r), f \in unbroken'
  PROVE  Lasting(f)'
<1>1. CASE request[r].answer = None
  <2>1. Aside(f) /\ jar' = jar
    BY <1>1 DEF Deliver, Aside, OfFamily, Exchanges, rows
  <2>2. StoreSession(<<f, 0>>) # None
    <3>1. <<f, 0>> \in Tokens
      BY DEF Tokens
    <3>. QED
      BY <3>1, CookieTypes, SessionsAssumption
  <2>3. ~Carries(request[r], Latest(f)) /\ ~SignsInAs(f, request[r])
    BY <1>1, <2>2 DEF Carries, SignsInAs
  <2>. QED
    BY <2>1, <2>3, KeptByIdle DEF Deliver
<1>2. CASE request[r].answer # None
  BY <1>2, DeliverKeeps, DeliverAtHome, DeliverSigningIn DEF Lasting
<1>. QED
  BY <1>1, <1>2

-----------------------------------------------------------------------------
(* Steps of renewals, and a sign-in that begins a session.                 *)

\* A renewal of another session's token, or rows of another session.
LEMMA KeptByOthers ==
  ASSUME TypeInv, NEW f \in Sessions, Lasting(f), f \in unbroken',
         \/ \E p \in renewals : Family(p.token) # f /\ (ReadRow(p) \/ Rotate(p) \/ Refuse(p))
         \/ \E g \in Sessions : RevokeUserSessions(g)
  PROVE  Lasting(f)'
<1>1. UNCHANGED browser /\ over' = over
  BY DEF ReadRow, Rotate, Refuse, RevokeUserSessions, history
<1>2. ASSUME NEW p \in renewals, Family(p.token) # f, NEW new, new.token = p.token,
             renewals' \in {(renewals \ {p}) \cup {new}, renewals \ {p}}
      PROVE  Exchanges(f)' = Exchanges(f)
  BY <1>2 DEF Exchanges
<1>3. ASSUME NEW p \in renewals, Family(p.token) # f, ReadRow(p) PROVE Aside(f)
  <2>1. PICK new : /\ renewals' = (renewals \ {p}) \cup {new}
                   /\ \E stage, since : new = [p EXCEPT !.stage = stage, !.since = since]
    BY <1>3 DEF ReadRow
  <2>2. Exchanges(f)' = Exchanges(f)
    BY <1>3, <1>2, <2>1 DEF TypeInv, TypeOK, Renewal
  <2>. QED
    BY <1>3, <2>2 DEF ReadRow, Aside, OfFamily, rows, history
<1>4. ASSUME NEW p \in renewals, Family(p.token) # f, NEW issued, Committed(p, issued)
      PROVE  Exchanges(f)' = Exchanges(f)
  <2>1. PICK done : done = [p EXCEPT !.stage = "done", !.issued = issued, !.since = 0]
    OBVIOUS
  <2>2. done.token = p.token
    BY <2>1 DEF TypeInv, TypeOK, Renewal
  <2>3. renewals' \in {(renewals \ {p}) \cup {done}, renewals \ {p}}
    BY <1>4, <2>1 DEF Committed
  <2>. QED
    BY <1>4, <1>2, <2>2, <2>3
<1>5. ASSUME NEW p \in renewals, Family(p.token) # f, Rotate(p) PROVE Aside(f)
  <2> DEFINE g == Family(p.token)
             new == <<g, count[g]>>
  <2>1. g \in Sessions /\ g # f /\ Family(new) = g
    BY <1>5, CookieTypes DEF TypeInv, TypeOK, Renewal, Family
  <2>2. Exchanges(f)' = Exchanges(f)
    BY <1>4, <1>5 DEF Rotate
  <2>3. CASE HasRow(p.token)
    <3>1. /\ live' = (live \ {p.token}) \cup {new} /\ spent' = spent \cup {p.token}
          /\ count' = [count EXCEPT ![g] = @ + 1]
      BY <1>5, <2>3 DEF Rotate
    <3>2. OfFamily(f, live)' = OfFamily(f, live) /\ OfFamily(f, spent)' = OfFamily(f, spent)
      BY <2>1, <3>1 DEF OfFamily
    <3>3. count'[f] = count[f]
      BY <2>1, <3>1 DEF TypeInv, TypeOK
    <3>. QED
      BY <1>1, <2>2, <3>2, <3>3 DEF Aside, OfFamily
  <2>4. CASE ~HasRow(p.token)
    BY <1>1, <1>5, <2>2, <2>4 DEF Rotate, rows, Aside, OfFamily
  <2>. QED
    BY <2>3, <2>4
<1>6. ASSUME NEW p \in renewals, Family(p.token) # f, Refuse(p) PROVE Aside(f)
  <2>1. Exchanges(f)' = Exchanges(f)
    BY <1>4, <1>6 DEF Refuse
  <2>2. OfFamily(f, live)' = OfFamily(f, live) /\ OfFamily(f, spent)' = OfFamily(f, spent)
    <3>1. CASE \E began : RevokeFamily(Family(p.token), began)
      BY <1>6, <3>1, RevokeAside
    <3>2. CASE UNCHANGED <<live, spent, overlooked>>
      BY <3>2 DEF OfFamily
    <3>. QED
      BY <1>6, <3>1, <3>2 DEF Refuse
  <2>. QED
    BY <1>1, <1>6, <2>1, <2>2 DEF Refuse, Aside, OfFamily
<1>7. ASSUME NEW g \in Sessions, RevokeUserSessions(g) PROVE Aside(f)
  <2>1. g # f
    BY <1>7 DEF RevokeUserSessions
  <2>2. OfFamily(f, live)' = OfFamily(f, live) /\ OfFamily(f, spent)' = OfFamily(f, spent)
    BY <1>7, <2>1, RevokeAside DEF RevokeUserSessions
  <2>. QED
    BY <1>1, <1>7, <2>2 DEF RevokeUserSessions, Aside, OfFamily, Exchanges
<1>. QED
  BY <1>1, <1>3, <1>5, <1>6, <1>7, BrowserAside

LEMMA KeptByRead ==
  ASSUME TypeInv, NEW f \in Sessions, Lasting(f), NEW p \in Exchanges(f), ReadRow(p)
  PROVE  Lasting(f)'
<1>1. ExchangeOf(f, p) /\ p \in Renewal /\ p \in renewals /\ Family(p.token) = f
  BY ExchangeTokens DEF Lasting, ExchangesLast, Exchanges
<1>2. p.token = Latest(f) /\ Latest(f) \in Rows /\ Latest(f) \notin spent
  BY <1>1 DEF ReadRow, ExchangeOf, Lasting, RowsLast, OfFamily, Rows
<1>3. PICK new : new = [p EXCEPT !.stage = "rotate", !.since = 0]
  OBVIOUS
<1>4. renewals' = (renewals \ {p}) \cup {new} /\ UNCHANGED <<live, spent, count, over>>
      /\ jar' = jar /\ request' = request
  BY <1>2, <1>3 DEF ReadRow, browser, rows, history
<1>5. new.token = p.token /\ new.heard = p.heard /\ new.stage = "rotate"
  BY <1>1, <1>3 DEF Renewal
<1>6. Exchanges(f)' = {new}
  BY <1>1, <1>4, <1>5 DEF Exchanges, Lasting, ExchangesLast
<1>7. Latest(f)' = Latest(f)
  BY <1>4 DEF Latest
<1>8. RowsLast(f)' /\ Used(f)'
  <2>1. \A t : (\E q \in Exchanges(f) : q.token = t) => new.token = t
    BY <1>5 DEF Lasting, ExchangesLast
  <2>. QED
    BY <1>4, <1>6, <1>7, <2>1 DEF Lasting, RowsLast, Used, OfFamily
<1>9. ExchangeOf(f, new)'
  BY <1>1, <1>2, <1>4, <1>5, <1>7 DEF ExchangeOf
<1>10. ExchangesLast(f)'
  BY <1>6, <1>9 DEF ExchangesLast
<1>11. \A r \in Requests : RequestOf(f, request[r])'
  BY <1>4 DEF Lasting, RequestOf
<1>12. AtHome(f) => AtHome(f)'
  <2>1. ~\E q \in Exchanges(f) : q.stage = "done"
    BY DEF ReadRow, Lasting, ExchangesLast
  <2>. QED
    BY <1>4, <1>7, <2>1 DEF AtHome, Carries
<1>13. SigningIn(f) => SigningIn(f)'
  BY <1>4 DEF SigningIn, SignsInAs
<1>. QED
  BY <1>8, <1>10, <1>11, <1>12, <1>13 DEF Lasting

\* Whoever exchanges the session's token was sent in it.
LEMMA ExchangedAtHome ==
  ASSUME TypeInv, AgreeInv, NEW f \in Sessions, Lasting(f), NEW p \in Exchanges(f)
  PROVE  AtHome(f)
<1>1. PICK w \in Requests : request[w].cookies.refresh = p.token
  BY DEF Lasting, ExchangesLast, ExchangeOf
<1>2. request[w].cookies.who = f
  BY <1>1, ExchangeTokens DEF AgreeInv, RequestAgrees, Agrees
<1>. QED
  BY <1>2 DEF Lasting, SigningIn

LEMMA KeptByRotate ==
  ASSUME TypeInv, AgreeInv, SideInv, RowsInv, NEW f \in Sessions, Lasting(f),
         NEW p \in Exchanges(f), Rotate(p)
  PROVE  Lasting(f)'
<1>1. /\ ExchangeOf(f, p) /\ p \in Renewal /\ p \in renewals /\ Family(p.token) = f
      /\ p.token \in Tokens
  BY ExchangeTokens DEF Lasting, ExchangesLast, Exchanges
<1>2. p.token = Latest(f) /\ HasRow(p.token) /\ p.heard /\ p.token \notin over
  BY <1>1 DEF Rotate, ExchangeOf, Lasting, RowsLast, OfFamily, Rows, HasRow
<1>3. PICK new : new = <<f, count[f]>>
  OBVIOUS
<1>4. PICK done : done = [p EXCEPT !.stage = "done", !.issued = new, !.since = 0]
  OBVIOUS
<1>5. /\ renewals' = (renewals \ {p}) \cup {done}
      /\ live' = (live \ {p.token}) \cup {new} /\ spent' = spent \cup {p.token}
      /\ count'[f] = count[f] + 1
      /\ jar' = jar /\ request' = request /\ over' = over
  BY <1>1, <1>2, <1>3, <1>4 DEF Rotate, Committed, browser, history, TypeInv, TypeOK
<1>6. /\ done.token = p.token /\ done.heard = p.heard /\ done.stage = "done"
      /\ done.issued = new
  BY <1>1, <1>4 DEF Renewal
<1>7. count[f] \in Nat /\ new \in Tokens /\ Family(new) = f /\ new # p.token /\ ~Issued(new)
  <2>1. count[f] \in Nat
    BY DEF TypeInv, TypeOK
  <2>2. new[1] = f /\ new[2] = count[f]
    BY <1>3
  <2>3. p.token[2] = count[f] - 1
    BY <1>2 DEF Latest
  <2>. QED
    BY <1>3, <2>1, <2>2, <2>3 DEF Tokens, Family, Issued
<1>8. Latest(f)' = new
  BY <1>3, <1>5, <1>7 DEF Latest
<1>9. new \notin Rows \cup over
  BY <1>7 DEF SideInv
<1>10. RowsLast(f)'
  <2>1. OfFamily(f, live') = {new}
    BY <1>2, <1>5, <1>7 DEF Lasting, RowsLast, OfFamily
  <2>2. new \notin spent'
    BY <1>5, <1>7, <1>9 DEF Rows
  <2>. QED
    BY <1>5, <1>7, <1>8, <2>1, <2>2 DEF RowsLast, OfFamily
<1>11. Exchanges(f)' = {done}
  BY <1>1, <1>5, <1>6 DEF Exchanges, Lasting, ExchangesLast
<1>12. Used(f)'
  <2>1. ASSUME NEW t \in Tokens, Family(t) = f, t[2] < count[f] PROVE t \in over \/ t = p.token
    <3>1. t = <<f, t[2]>> /\ t[2] \in Nat
      BY <2>1, NoToken
    <3>2. CASE t[2] < count[f] - 1
      BY <2>1, <3>2 DEF Lasting, Used, ExchangesLast
    <3>3. CASE ~(t[2] < count[f] - 1)
      <4>1. t[2] = count[f] - 1
        BY <1>7, <2>1, <3>1, <3>3
      <4>. QED
        BY <1>2, <3>1, <4>1 DEF Latest
    <3>. QED
      BY <3>2, <3>3
  <2>2. \A t \in Tokens : Family(t) = f /\ t[2] < count'[f] - 1 => t \in over \/ t = p.token
    BY <1>5, <1>7, <2>1
  <2>. QED
    BY <1>5, <1>6, <1>8, <1>9, <1>11, <2>2 DEF Used
<1>13. ~Known(new)'
  <2>1. ~Known(new)
    BY <1>7 DEF Known, RowsInv, IssuedInv, RequestIssued
  <2>. QED
    BY <1>5, <2>1 DEF Known
<1>14. ExchangeOf(f, done)'
  BY <1>1, <1>2, <1>5, <1>6, <1>7, <1>8, <1>13 DEF ExchangeOf
<1>15. ExchangesLast(f)'
  BY <1>11, <1>14 DEF ExchangesLast
<1>16. \A r \in Requests : RequestOf(f, request[r])'
  BY <1>5 DEF Lasting, RequestOf
<1>17. AtHome(f)'
  BY <1>5, <1>6, <1>11, ExchangedAtHome DEF AtHome
<1>. QED
  BY <1>10, <1>12, <1>15, <1>16, <1>17 DEF Lasting

\* The API has issued the next token; the exchange hands it to whoever waits.
LEMMA KeptByEnd ==
  ASSUME TypeInv, AgreeInv, NEW f \in Sessions, Lasting(f),
         NEW p \in Exchanges(f), EndExchange(p)
  PROVE  Lasting(f)'
<1>1. /\ ExchangeOf(f, p) /\ p \in Renewal /\ p \in renewals /\ Family(p.token) = f
      /\ p.token \in Tokens
  BY ExchangeTokens DEF Lasting, ExchangesLast, Exchanges
<1>2. p.issued = Latest(f) /\ p.token # Latest(f)
  BY <1>1 DEF EndExchange, ExchangeOf
<1>3. Latest(f) # None /\ Latest(f) \in Tokens
  BY LatestIs DEF Lasting, RowsLast
<1>4. /\ renewals' = renewals \ {p} /\ over' = over \cup {p.token} /\ jar' = jar
      /\ UNCHANGED <<live, spent, count>>
  BY DEF EndExchange, rows
<1>5. Latest(f)' = Latest(f) /\ Exchanges(f)' = {}
  BY <1>4 DEF Latest, Exchanges, Lasting, ExchangesLast
<1> DEFINE Resumed(r) == request[r].step = "waiting" /\ request[r].cookies.refresh = p.token
<1>6. \A r \in Requests :
        /\ request'[r].cookies = request[r].cookies /\ request'[r].kind = request[r].kind
        /\ ~Resumed(r) => request'[r] = request[r]
        /\ Resumed(r) => /\ request'[r].answer = StoreSession(Latest(f))
                         /\ request'[r].step = "forwarded"
  <2> SUFFICES ASSUME NEW r \in Requests
               PROVE  /\ request'[r].cookies = request[r].cookies
                      /\ request'[r].kind = request[r].kind
                      /\ ~Resumed(r) => request'[r] = request[r]
                      /\ Resumed(r) => /\ request'[r].answer = StoreSession(Latest(f))
                                       /\ request'[r].step = "forwarded"
    OBVIOUS
  <2>1. request[r] \in Request
    BY DEF TypeInv, TypeOK
  <2>2. CASE Resumed(r)
    <3>1. request'[r] = [request[r] EXCEPT !.step = "forwarded",
                           !.answer = StoreSession(Latest(f))]
      BY <1>2, <1>3, <2>2 DEF EndExchange, Resume
    <3>. QED
      BY <2>1, <2>2, <3>1 DEF Request
  <2>3. CASE ~Resumed(r)
    BY <2>3 DEF EndExchange, Resume
  <2>. QED
    BY <2>2, <2>3
<1>7. /\ StoreSession(Latest(f)).who = f /\ StoreSession(Latest(f)).refresh = Latest(f)
      /\ StoreSession(Latest(f)) # None
  BY <1>3, LatestIs, CookieTypes, SessionsAssumption DEF Lasting, RowsLast, StoreSession
<1>8. RowsLast(f)'
  BY <1>4, <1>5 DEF Lasting, RowsLast, OfFamily
<1>9. Used(f)'
  <2>1. \A q \in Exchanges(f) : q = p
    BY DEF Lasting, ExchangesLast
  <2>. QED
    BY <1>2, <1>4, <1>5, <2>1 DEF Lasting, Used
<1>10. ExchangesLast(f)'
  BY <1>5 DEF ExchangesLast
<1>11. \A r \in Requests : RequestOf(f, request[r])'
  <2> SUFFICES ASSUME NEW r \in Requests PROVE RequestOf(f, request[r])'
    OBVIOUS
  <2>1. RequestOf(f, request[r])
    BY DEF Lasting
  <2>2. CASE Resumed(r)
    BY <1>4, <1>6, <1>7, <2>1, <2>2 DEF RequestOf
  <2>3. CASE ~Resumed(r)
    BY <1>4, <1>6, <2>1, <2>3 DEF RequestOf
  <2>. QED
    BY <2>2, <2>3
<1>12. AtHome(f)'
  <2>1. PICK w \in Requests : Resumed(w)
    BY <1>1 DEF ExchangeOf
  <2>2. Carries(request'[w], Latest(f))
    BY <1>6, <1>7, <2>1 DEF Carries
  <2>3. jar'.who = f
    BY <1>4, ExchangedAtHome DEF AtHome
  <2>. QED
    BY <1>5, <2>2, <2>3 DEF AtHome, Carries
<1>. QED
  BY <1>8, <1>9, <1>10, <1>11, <1>12 DEF Lasting

LEMMA KeptByOtherEnd ==
  ASSUME TypeInv, AgreeInv, NEW f \in Sessions, Lasting(f), f \in unbroken',
         NEW p \in renewals, (Family(p.token) # f /\ EndExchange(p)) \/ LoseRenewal(p)
  PROVE  Lasting(f)'
<1>1. p \in Renewal /\ p.token \in Tokens /\ p.issued \in Tokens \cup {None}
  BY DEF TypeInv, TypeOK, Renewal
<1>2. Family(p.token) # f
  BY DEF LoseRenewal
<1>3. Exchanges(f)' = Exchanges(f)
  <2>1. PICK deaf : deaf = [p EXCEPT !.heard = FALSE]
    OBVIOUS
  <2>2. deaf.token = p.token
    BY <1>1, <2>1 DEF Renewal
  <2>3. renewals' \in {renewals \ {p}, (renewals \ {p}) \cup {deaf}}
    BY <2>1 DEF EndExchange, LoseRenewal
  <2>. QED
    BY <1>2, <2>2, <2>3 DEF Exchanges
<1>4. /\ over' = over \cup {p.token} /\ jar' = jar /\ UNCHANGED <<live, spent, count>>
  BY DEF EndExchange, LoseRenewal, rows
<1>5. Aside(f)
  BY <1>2, <1>3, <1>4 DEF Aside, OfFamily
<1>6. p.issued # None => Family(p.issued) = Family(p.token)
  BY DEF AgreeInv
<1>7. Resume(p.token, p.issued) \/ Resume(p.token, None)
  BY DEF EndExchange, LoseRenewal
<1>. QED
  BY <1>1, <1>2, <1>4, <1>5, <1>6, <1>7, ResumeAside

\* Nobody has anything of a session that was never signed in to.
LEMMA BegunByLogin ==
  ASSUME TypeInv, AgreeInv, SideInv, RowsInv, NEW f \in Sessions, NEW r \in Requests,
         Login(r, f)
  PROVE  Lasting(f)'
<1>1. PICK new : new = [Idle EXCEPT !.kind = "login", !.step = "forwarded",
                          !.cookies = jar, !.answer = StoreSession(<<f, 0>>)]
  OBVIOUS
<1>2. /\ request' = [request EXCEPT ![r] = new] /\ count[f] = 0 /\ count'[f] = 1
      /\ live' = live \cup {<<f, 0>>} /\ UNCHANGED <<jar, renewals, spent, over>>
  BY <1>1 DEF Login, TypeInv, TypeOK
<1>3. /\ new.kind = "login" /\ new.step = "forwarded" /\ new.cookies = jar
      /\ new.answer = StoreSession(<<f, 0>>)
  BY <1>1 DEF Idle
<1>4. \A t \in Tokens : Issued(t) => Family(t) # f
  BY <1>2, NoToken DEF Issued
<1>5. \A c : Full(c) /\ Agrees(c) /\ Issued(c.refresh) => c.who # f
  BY <1>4, NoToken DEF Full, Agrees
<1>6. jar.who # f
  BY <1>5 DEF SideInv, AgreeInv, RowsInv, IssuedInv
<1>7. \A q \in Requests : request[q].cookies.who # f
  BY <1>5 DEF SideInv, RequestKind, AgreeInv, RequestAgrees, RowsInv, IssuedInv, RequestIssued
<1>8. request'[r] = new /\ \A q \in Requests : q # r => request'[q] = request[q]
  BY <1>2 DEF TypeInv, TypeOK
<1>9. Exchanges(f)' = {}
  BY <1>2, <1>4 DEF Exchanges, RowsInv, IssuedInv, TypeInv, TypeOK, Renewal
<1>10. Latest(f)' = <<f, 0>> /\ <<f, 0>> \in Tokens /\ Family(<<f, 0>>) = f
  BY <1>2 DEF Latest, Tokens, Family
<1>11. <<f, 0>> \notin Rows \cup over
  BY <1>4, <1>10 DEF SideInv
<1>12. RowsLast(f)'
  <2>1. OfFamily(f, live) = {}
    BY <1>4 DEF OfFamily, SideInv, Rows, TypeInv, TypeOK
  <2>2. OfFamily(f, live') = {<<f, 0>>}
    BY <1>2, <1>10, <2>1 DEF OfFamily
  <2>. QED
    BY <1>2, <1>10, <1>11, <2>2 DEF RowsLast, OfFamily, Rows
<1>13. Used(f)'
  <2>1. \A t \in Tokens : ~(t[2] < count'[f] - 1)
    BY <1>2, NoToken
  <2>. QED
    BY <1>2, <1>10, <1>11, <2>1 DEF Used
<1>14. ExchangesLast(f)'
  BY <1>9 DEF ExchangesLast
<1>15. \A q \in Requests : RequestOf(f, request[q])'
  BY <1>3, <1>6, <1>7, <1>8 DEF RequestOf
<1>16. SigningIn(f)'
  BY <1>2, <1>3, <1>6, <1>7, <1>8 DEF SigningIn, SignsInAs
<1>. QED
  BY <1>12, <1>13, <1>14, <1>15, <1>16 DEF Lasting

-----------------------------------------------------------------------------
\* Only a sign-in takes a session up, and nothing takes it up again.
LEMMA UnbrokenStep ==
  ASSUME Next, NEW f \in unbroken'
  PROVE  f \in unbroken \/ \E r \in Requests : Login(r, f)
BY DEF Next, Serve, Send, UseToken, Renew, Retry, RefreshSession, Login,
   SignInAccessOnly, Logout, FindSession, LogoutUser, Deliver, LoseAnswer, LoseLogout,
   ReadRow, Rotate, Refuse, EndExchange, LoseRenewal, RevokeUserSessions, history

LEMMA LastingStep ==
  TypeInv /\ TypeInv' /\ AgreeInv /\ SideInv /\ RowsInv /\ LastingInv /\ [Next]_vars => LastingInv'
<1> SUFFICES ASSUME TypeInv, TypeInv', AgreeInv, SideInv, RowsInv, LastingInv, [Next]_vars,
                    NEW f \in unbroken'
             PROVE  Lasting(f)'
  BY DEF LastingInv
<1>1. f \in Sessions
  BY DEF TypeInv, TypeOK
<1>2. ASSUME NEW r \in Requests, Login(r, f) PROVE Lasting(f)'
  BY <1>1, <1>2, BegunByLogin
<1>3. ASSUME f \in unbroken, Next, ~\E r \in Requests : Login(r, f) PROVE Lasting(f)'
  <2>1. Lasting(f)
    BY <1>3 DEF LastingInv
  <2>2. ASSUME NEW r \in Requests, NEW g \in Sessions, Login(r, g) PROVE Lasting(f)'
    BY <1>1, <1>3, <2>1, <2>2, KeptBySignIn
  <2>3. ASSUME NEW r \in Requests, Send(r) \/ UseToken(r) \/ LoseLogout(r)
        PROVE  Lasting(f)'
    BY <1>1, <2>1, <2>3, KeptBySend, KeptByForward
  <2>4. ASSUME NEW r \in Requests,
               SignInAccessOnly(r) \/ Logout(r) \/ FindSession(r) \/ LogoutUser(r)
        PROVE  Lasting(f)'
    BY <1>1, <2>1, <2>4, KeptBySignIn, KeptByLogout, KeptByLogoutUser
  <2>5. ASSUME NEW r \in Requests, Renew(r) \/ Retry(r) PROVE Lasting(f)'
    <3>1. request[r].kind = "call" /\ request[r].step \in {"sent", "forwarded"}
      BY <2>5 DEF Renew, Retry, SideInv, RequestKind
    <3>2. RefreshSession(r, TRUE) \/ RefreshSession(r, FALSE)
      BY <2>5 DEF Renew, Retry
    <3>. QED
      BY <1>3, <2>1, <3>1, <3>2, KeptByRefresh
  <2>6. ASSUME NEW r \in Requests, Deliver(r) \/ LoseAnswer(r) PROVE Lasting(f)'
    BY <1>1, <2>1, <2>6, KeptByDeliver, KeptByLoss
  <2>7. ASSUME NEW p \in renewals, ReadRow(p) \/ Rotate(p) \/ Refuse(p) PROVE Lasting(f)'
    <3>1. CASE Family(p.token) # f
      BY <1>1, <2>1, <2>7, <3>1, KeptByOthers
    <3>2. CASE Family(p.token) = f
      <4>1. p \in Exchanges(f)
        BY <3>2 DEF Exchanges
      <4>2. ~Refuse(p)
        BY <2>1, <4>1 DEF Refuse, Lasting, ExchangesLast, ExchangeOf
      <4>. QED
        BY <1>1, <2>1, <2>7, <4>1, <4>2, KeptByRead, KeptByRotate
    <3>. QED
      BY <3>1, <3>2
  <2>8. ASSUME NEW p \in renewals, EndExchange(p) \/ LoseRenewal(p) PROVE Lasting(f)'
    <3>1. CASE Family(p.token) = f /\ EndExchange(p)
      <4>1. p \in Exchanges(f)
        BY <3>1 DEF Exchanges
      <4>. QED
        BY <1>1, <2>1, <3>1, <4>1, KeptByEnd
    <3>2. CASE ~(Family(p.token) = f /\ EndExchange(p))
      BY <1>1, <2>1, <2>8, <3>2, KeptByOtherEnd
    <3>. QED
      BY <3>1, <3>2
  <2>9. ASSUME NEW g \in Sessions, RevokeUserSessions(g) PROVE Lasting(f)'
    BY <1>1, <2>1, <2>9, KeptByOthers
  <2>. QED
    BY <1>3, <2>2, <2>3, <2>4, <2>5, <2>6, <2>7, <2>8, <2>9 DEF Next, Serve
<1>4. CASE UNCHANGED vars
  <2>1. Lasting(f) /\ Aside(f) /\ UNCHANGED browser
    BY <1>4 DEF LastingInv, vars, rows, history, Aside, OfFamily, Exchanges
  <2>. QED
    BY <1>1, <2>1, BrowserAside
<1>. QED
  BY <1>2, <1>3, <1>4, UnbrokenStep

\* A session in use lasts, however many requests renew it at once and in whatever
\* order they are served and answered (server/session.ts, exchangeOnce).
THEOREM SessionAlwaysSurvives == Spec => []SessionSurvives
<1>1. Init => AgreeInv /\ RowsInv /\ SideInv /\ LastingInv
  BY FreshCookiesAgree, FreshCookiesFull, InitRows DEF Init, AgreeInv, SideInv, LastingInv, Rows
<1>2. TypeInv /\ TypeInv' /\ RowsInv /\ [Next]_vars => RowsInv'
  BY RowsKept
<1>3. TypeInv /\ TypeInv' /\ RowsInv /\ SideInv /\ [Next]_vars => SideInv'
  <2>1. SideInv /\ UNCHANGED vars => SideInv'
    BY DEF vars, browser, rows, history, SideInv, Rows, Issued
  <2>. QED
    BY <2>1, SideStep
<1>4. TypeInv /\ SideInv /\ LastingInv => SessionSurvives
  <2> SUFFICES ASSUME TypeInv, SideInv, NEW f \in unbroken, Lasting(f)
               PROVE  /\ jar.who = f \/ Arriving(f)
                      /\ OfFamily(f, live) # {}
                      /\ Quiet => jar.refresh \in live
    BY DEF SessionSurvives, LastingInv
  <2>1. SigningIn(f) => Arriving(f)
    BY DEF SigningIn, SignsInAs, Arriving, StoreSession, Family
  <2>2. OfFamily(f, live) = {Latest(f)} /\ Latest(f) \in live
    BY DEF Lasting, RowsLast, OfFamily
  <2>3. Quiet => ~SigningIn(f) /\ (AtHome(f) => jar.refresh = Latest(f))
    BY DEF Quiet, SigningIn, SignsInAs, AtHome, Carries, Exchanges
  <2>. QED
    BY <2>1, <2>2, <2>3 DEF Lasting, AtHome
<1>. QED
  BY <1>1, <1>2, <1>3, <1>4, TypeInit, TypeStep, AgreeStep, LastingStep, PTL DEF Spec

=============================================================================

------------------------ MODULE Notifications_proof ------------------------
(***************************************************************************)
(* For any number of mails, listeners, retries, stops and replays, a mail  *)
(* leaves twice only after a send that the SMTP host accepted and that     *)
(* then threw.                                                             *)
(*                                                                         *)
(* The claim alone does not say so: it is given back after a failure.  The *)
(* invariant adds that the listener between its claim and its release is   *)
(* alone with the mail, and that a mail which is not claimed, or whose     *)
(* send is under way or has failed, has been accepted only by sends that   *)
(* then threw.  What is not lost is followed from place to place: outbox,  *)
(* queue, the hand of a listener that owes it something, dead letter; a    *)
(* listener that only acknowledges a mail has left it to one that owes it. *)
(***************************************************************************)
EXTENDS Notifications, FiniteSetTheorems, TLAPS

SendTypes ==
  /\ claimed \subseteq Mails
  /\ hand \in [Listeners -> Hands]
  /\ sent \in [Mails -> Nat]
  /\ late \in [Mails -> Nat]

\* A listener between its claim and its release holds a claimed mail, alone.
Alone ==
  \A l \in Listeners :
    HadClaim(l) => /\ hand[l].mail \in claimed
                   /\ \A k \in Listeners :
                        HadClaim(k) /\ hand[k].mail = hand[l].mail => k = l

\* No send of the mail ended well so far.
OnlyLate(m) == sent[m] <= late[m]

Unsent ==
  /\ \A m \in Mails : m \notin claimed => OnlyLate(m)
  /\ \A l \in Listeners : HadClaim(l) => OnlyLate(hand[l].mail)

\* A listener at work has a mail: only an idle one has none.
Busy == \A l \in Listeners : hand[l].step # "idle" => hand[l].mail \in Mails

SafeInv == SendTypes /\ Busy /\ Alone /\ Unsent /\ TwiceOnlyAfterLateFailure

-----------------------------------------------------------------------------
\* At the start there are no claims and no deliveries.
LEMMA InitSafe == Init => SafeInv
BY NotificationsAssumption
   DEF Init, Idle, Hands, SafeInv, SendTypes, Busy, Alone, HadClaim, Unsent, OnlyLate,
       TwiceOnlyAfterLateFailure

\* The types of one listener's new work, and of the whole when it is taken up.
LEMMA HandTypes ==
  ASSUME SendTypes, NEW l \in Listeners, NEW new \in Hands, Set(l, new)
  PROVE  /\ hand' \in [Listeners -> Hands]
         /\ hand'[l] = new
         /\ \A k \in Listeners : k # l => hand'[k] = hand[k]
BY DEF SendTypes, Set

\* A step of one listener that touches no claim and no count keeps the invariant if
\* the listener does not come into a claim by it.
LEMMA QuietStep ==
  ASSUME SafeInv, NEW l \in Listeners, NEW new \in Hands, Set(l, new),
         UNCHANGED <<claimed, sent, late>>,
         new.step # "idle" => new.mail \in Mails,
         new.step \in {"send", "release"} => HadClaim(l) /\ new.mail = hand[l].mail
  PROVE  SafeInv'
<1>1. /\ hand' \in [Listeners -> Hands]
      /\ hand'[l] = new
      /\ \A k \in Listeners : k # l => hand'[k] = hand[k]
  BY HandTypes DEF SafeInv
<1>2. SendTypes' /\ Busy'
  BY <1>1 DEF SafeInv, SendTypes, Busy
<1>3. \A k \in Listeners : HadClaim(k)' => HadClaim(k) /\ hand'[k].mail = hand[k].mail
  BY <1>1 DEF HadClaim
<1>4. Alone'
  BY <1>3 DEF SafeInv, Alone
<1>5. Unsent' /\ TwiceOnlyAfterLateFailure'
  BY <1>3 DEF SafeInv, Unsent, OnlyLate, TwiceOnlyAfterLateFailure
<1> QED
  BY <1>2, <1>4, <1>5 DEF SafeInv

\* Nothing a listener works on changes: the steps of the sender and the broker.
LEMMA ElsewhereStep ==
  ASSUME SafeInv, UNCHANGED <<claimed, hand, sent, late>>
  PROVE  SafeInv'
BY DEF SafeInv, SendTypes, Busy, Alone, HadClaim, Unsent, OnlyLate, TwiceOnlyAfterLateFailure

\* Who wins the claim is alone with the mail, and nobody sent it well before.
LEMMA TryMarkSafe ==
  ASSUME SafeInv, NEW l \in Listeners, TryMark(l)
  PROVE  SafeInv'
<1> DEFINE m == hand[l].mail
<1>1. m \in Mails /\ hand[l] \in Hands /\ ~HadClaim(l)
  BY DEF SafeInv, SendTypes, Busy, TryMark, At, HadClaim
<1>2. CASE MayMark(m)
  <2> DEFINE new == [hand[l] EXCEPT !.step = "send"]
  <2>1. new \in Hands /\ new.step = "send" /\ new.mail = m
    BY <1>1 DEF Hands
  <2>2. Set(l, new) /\ claimed' = claimed \cup {m} /\ UNCHANGED <<sent, late>>
    BY <1>2 DEF TryMark, GoTo, history
  <2>3. /\ hand' \in [Listeners -> Hands]
        /\ hand'[l] = new
        /\ \A k \in Listeners : k # l => hand'[k] = hand[k]
    BY <2>1, <2>2, HandTypes DEF SafeInv
  <2>4. SendTypes' /\ Busy'
    BY <1>1, <2>1, <2>2, <2>3 DEF SafeInv, SendTypes, Busy
  <2>5. \A k \in Listeners : k # l /\ HadClaim(k)' =>
          HadClaim(k) /\ hand'[k] = hand[k] /\ hand[k].mail # m
    BY <1>2, <2>3 DEF HadClaim, SafeInv, Alone, MayMark
  <2>6. Alone'
    <3> SUFFICES ASSUME NEW k \in Listeners, HadClaim(k)'
                 PROVE  /\ hand'[k].mail \in claimed'
                        /\ \A n \in Listeners :
                             HadClaim(n)' /\ hand'[n].mail = hand'[k].mail => n = k
      BY DEF Alone
    <3> HIDE DEF m, new
    <3>1. CASE k = l
      BY <2>1, <2>2, <2>3, <2>5, <3>1
    <3>2. CASE k # l
      <4>1. HadClaim(k) /\ hand'[k] = hand[k] /\ hand[k].mail # m /\ hand[k].mail \in claimed
        BY <2>5, <3>2 DEF SafeInv, Alone
      <4>2. \A n \in Listeners : HadClaim(n) /\ hand[n].mail = hand[k].mail => n = k
        BY <4>1 DEF SafeInv, Alone
      <4> QED
        BY <2>1, <2>2, <2>3, <2>5, <4>1, <4>2
    <3> QED
      BY <3>1, <3>2
  <2>7. Unsent'
    BY <1>1, <1>2, <2>1, <2>2, <2>3, <2>5 DEF SafeInv, Unsent, OnlyLate, MayMark
  <2>8. TwiceOnlyAfterLateFailure'
    BY <2>2 DEF SafeInv, TwiceOnlyAfterLateFailure
  <2> QED
    BY <2>4, <2>6, <2>7, <2>8 DEF SafeInv
<1>3. CASE ~MayMark(m)
  <2> DEFINE new == [hand[l] EXCEPT !.step = "ack"]
  <2>1. new \in Hands /\ new.step = "ack" /\ new.mail = m
    BY <1>1 DEF Hands
  <2>2. Set(l, new) /\ UNCHANGED <<claimed, sent, late>>
    BY <1>3 DEF TryMark, GoTo, history
  <2> QED
    BY <1>1, <2>1, <2>2, QuietStep
<1> QED
  BY <1>2, <1>3

\* The database breaks under the claim: nobody comes to send by it.
LEMMA TryMarkThrowsSafe ==
  ASSUME SafeInv, NEW l \in Listeners, TryMarkThrows(l)
  PROVE  SafeInv'
<1> DEFINE m == hand[l].mail
           new == [hand[l] EXCEPT !.step = "failed", !.passing = TRUE]
<1>1. m \in Mails /\ hand[l] \in Hands /\ ~HadClaim(l)
  BY DEF SafeInv, SendTypes, Busy, TryMarkThrows, At, HadClaim
<1>2. new \in Hands /\ new.step = "failed" /\ new.mail = m
  BY <1>1 DEF Hands
<1>3. Set(l, new) /\ UNCHANGED <<sent, late>>
  BY DEF TryMarkThrows, Throw
<1>4. CASE UNCHANGED claimed
  BY <1>1, <1>2, <1>3, <1>4, QuietStep
<1>5. CASE claimed' = claimed \cup {m}
  <2>1. /\ hand' \in [Listeners -> Hands]
        /\ hand'[l] = new
        /\ \A k \in Listeners : k # l => hand'[k] = hand[k]
    BY <1>2, <1>3, HandTypes DEF SafeInv
  <2>2. SendTypes' /\ Busy'
    BY <1>1, <1>2, <1>3, <1>5, <2>1 DEF SafeInv, SendTypes, Busy
  <2>3. \A k \in Listeners : HadClaim(k)' => HadClaim(k) /\ hand'[k] = hand[k]
    BY <1>2, <2>1 DEF HadClaim
  <2>4. Alone' /\ Unsent' /\ TwiceOnlyAfterLateFailure'
    BY <1>3, <1>5, <2>3 DEF SafeInv, Alone, Unsent, OnlyLate, TwiceOnlyAfterLateFailure
  <2> QED
    BY <2>2, <2>4 DEF SafeInv
<1> QED
  BY <1>4, <1>5 DEF TryMarkThrows

\* The host accepts a mail that nobody sent well before, and no other listener is
\* between its claim and its release of that mail.
LEMMA SendSafe ==
  ASSUME SafeInv, NEW l \in Listeners, Send(l)
  PROVE  SafeInv'
<1> DEFINE m == hand[l].mail
           new == [hand[l] EXCEPT !.step = "ack"]
<1>1. m \in Mails /\ hand[l] \in Hands /\ HadClaim(l)
  BY DEF SafeInv, SendTypes, Busy, Send, At, HadClaim
<1>2. new \in Hands /\ new.step = "ack" /\ new.mail = m
  BY <1>1 DEF Hands
<1>3. /\ Set(l, new)
      /\ sent' = [sent EXCEPT ![m] = @ + 1]
      /\ UNCHANGED <<claimed, late>>
  BY DEF Send, GoTo
<1>4. /\ hand' \in [Listeners -> Hands]
      /\ hand'[l] = new
      /\ \A k \in Listeners : k # l => hand'[k] = hand[k]
  BY <1>2, <1>3, HandTypes DEF SafeInv
<1>5. SendTypes' /\ Busy'
  <2>1. sent[m] + 1 \in Nat
    BY <1>1 DEF SafeInv, SendTypes
  <2>2. sent' \in [Mails -> Nat]
    BY <1>1, <1>3, <2>1 DEF SafeInv, SendTypes
  <2>3. SendTypes'
    BY <1>3, <1>4, <2>2 DEF SafeInv, SendTypes
  <2>4. Busy'
    BY <1>1, <1>2, <1>4 DEF SafeInv, Busy
  <2> QED
    BY <2>3, <2>4
<1>6. \A k \in Listeners : HadClaim(k)' =>
        HadClaim(k) /\ hand'[k] = hand[k] /\ hand[k].mail # m
  BY <1>1, <1>2, <1>4 DEF HadClaim, SafeInv, Alone
<1>7. Alone'
  BY <1>3, <1>6 DEF SafeInv, Alone
<1>8. m \in claimed /\ sent[m] <= late[m] /\ sent'[m] = sent[m] + 1
  BY <1>1, <1>3 DEF SafeInv, Alone, Unsent, OnlyLate, SendTypes
<1>9. \A n \in Mails : n # m => sent'[n] = sent[n]
  BY <1>3 DEF SafeInv, SendTypes
<1>10. Unsent'
  BY <1>3, <1>5, <1>6, <1>8, <1>9 DEF SafeInv, Unsent, OnlyLate, SendTypes, HadClaim, Busy
<1>11. TwiceOnlyAfterLateFailure'
  BY <1>1, <1>3, <1>8, <1>9 DEF SafeInv, SendTypes, TwiceOnlyAfterLateFailure
<1> QED
  BY <1>5, <1>7, <1>10, <1>11 DEF SafeInv

\* An accepted mail whose send throws is counted late together with its sending.
LEMMA SendThrowsLateSafe ==
  ASSUME SafeInv, NEW l \in Listeners, SendThrowsLate(l)
  PROVE  SafeInv'
<1> DEFINE m == hand[l].mail
           new == [hand[l] EXCEPT !.step = "release", !.passing = TRUE]
<1>1. m \in Mails /\ hand[l] \in Hands /\ HadClaim(l)
  BY DEF SafeInv, SendTypes, Busy, SendThrowsLate, At, HadClaim
<1>2. new \in Hands /\ new.step = "release" /\ new.mail = m
  BY <1>1 DEF Hands
<1>3. /\ Set(l, new)
      /\ sent' = [sent EXCEPT ![m] = @ + 1]
      /\ late' = [late EXCEPT ![m] = @ + 1]
      /\ UNCHANGED claimed
  BY DEF SendThrowsLate
<1>4. /\ hand' \in [Listeners -> Hands]
      /\ hand'[l] = new
      /\ \A k \in Listeners : k # l => hand'[k] = hand[k]
  BY <1>2, <1>3, HandTypes DEF SafeInv
<1>5. SendTypes' /\ Busy'
  <2>1. sent[m] + 1 \in Nat /\ late[m] + 1 \in Nat
    BY <1>1 DEF SafeInv, SendTypes
  <2>2. sent' \in [Mails -> Nat] /\ late' \in [Mails -> Nat]
    BY <1>1, <1>3, <2>1 DEF SafeInv, SendTypes
  <2>3. SendTypes'
    BY <1>3, <1>4, <2>2 DEF SafeInv, SendTypes
  <2>4. Busy'
    BY <1>1, <1>2, <1>4 DEF SafeInv, Busy
  <2> QED
    BY <2>3, <2>4
<1>6. \A k \in Listeners : HadClaim(k)' => HadClaim(k) /\ hand'[k].mail = hand[k].mail
  BY <1>1, <1>2, <1>4 DEF HadClaim
<1>7. Alone'
  BY <1>3, <1>6 DEF SafeInv, Alone
<1>8. \A n \in Mails : /\ sent[n] \in Nat /\ late[n] \in Nat
                       /\ sent'[n] <= late'[n] <=> sent[n] <= late[n]
                       /\ sent'[n] <= late'[n] + 1 <=> sent[n] <= late[n] + 1
  BY <1>1, <1>3 DEF SafeInv, SendTypes
<1>9. \A k \in Listeners : HadClaim(k)' => hand'[k].mail \in Mails
  BY <1>5 DEF Busy, HadClaim
<1>10. Unsent'
  BY <1>3, <1>6, <1>8, <1>9 DEF SafeInv, Unsent, OnlyLate
<1>11. TwiceOnlyAfterLateFailure'
  BY <1>8 DEF SafeInv, TwiceOnlyAfterLateFailure
<1> QED
  BY <1>5, <1>7, <1>10, <1>11 DEF SafeInv

\* A claim given back is the listener's own, and its mail has only been sent late.
LEMMA ReleasedSafe ==
  ASSUME SafeInv, NEW l \in Listeners, At(l, "release"), NEW new \in Hands,
         new.step = "failed", new.mail = hand[l].mail,
         Set(l, new), claimed' = Released(hand[l].mail), UNCHANGED <<sent, late>>
  PROVE  SafeInv'
<1> DEFINE m == hand[l].mail
<1>1. m \in Mails /\ HadClaim(l)
  BY DEF SafeInv, Busy, At, HadClaim
<1>2. /\ hand' \in [Listeners -> Hands]
      /\ hand'[l] = new
      /\ \A k \in Listeners : k # l => hand'[k] = hand[k]
  BY HandTypes DEF SafeInv
<1>3. claimed' = claimed \ {m}
  BY DEF Released
<1>4. SendTypes' /\ Busy'
  BY <1>1, <1>2, <1>3 DEF SafeInv, SendTypes, Busy
<1>5. \A k \in Listeners : HadClaim(k)' =>
        HadClaim(k) /\ hand'[k] = hand[k] /\ hand[k].mail # m
  BY <1>1, <1>2 DEF HadClaim, SafeInv, Alone
<1>6. Alone'
  BY <1>3, <1>5 DEF SafeInv, Alone
<1>7. OnlyLate(m)
  BY <1>1 DEF SafeInv, Unsent
<1>8. Unsent' /\ TwiceOnlyAfterLateFailure'
  BY <1>3, <1>5, <1>7 DEF SafeInv, Unsent, OnlyLate, TwiceOnlyAfterLateFailure
<1> QED
  BY <1>4, <1>6, <1>8 DEF SafeInv

\* A stop leaves claims and counts alone and no listener at work.
LEMMA CrashSafe ==
  ASSUME SafeInv, Crash
  PROVE  SafeInv'
BY NotificationsAssumption
   DEF Crash, SafeInv, SendTypes, Busy, Alone, HadClaim, Unsent, OnlyLate,
       TwiceOnlyAfterLateFailure, Idle, Hands

-----------------------------------------------------------------------------
\* Every step keeps the invariant.
LEMMA StepSafe == SafeInv /\ [Next]_vars => SafeInv'
<1> SUFFICES ASSUME SafeInv, [Next]_vars PROVE SafeInv'
  OBVIOUS
<1>1. ASSUME NEW m \in Mails, Commit(m) \/ Relay(m) \/ Replay(m) PROVE SafeInv'
  <2>1. UNCHANGED <<claimed, hand, sent, late>>
    BY <1>1 DEF Commit, Relay, Replay, history
  <2> QED
    BY <2>1, ElsewhereStep
<1>2. ASSUME NEW l \in Listeners, NEW m \in Mails, Receive(l, m) PROVE SafeInv'
  <2> DEFINE new == [mail |-> m, step |-> "mark", tries |-> 0, passing |-> FALSE]
  <2>1. new \in Hands /\ Set(l, new) /\ UNCHANGED <<claimed, sent, late>>
    BY <1>2, NotificationsAssumption DEF Receive, Hands, history
  <2> QED
    BY <2>1, QuietStep
<1>3. ASSUME NEW l \in Listeners, Deliver(l) PROVE SafeInv'
  <2>1. hand[l] \in Hands
    BY DEF SafeInv, SendTypes
  <2>2. CASE TryMark(l)
    BY <2>2, TryMarkSafe
  <2>3. CASE TryMarkThrows(l)
    BY <2>3, TryMarkThrowsSafe
  <2>4. CASE Send(l)
    BY <2>4, SendSafe
  <2>5. CASE SendThrows(l)
    <3>1. PICK passing \in BOOLEAN :
            Set(l, [hand[l] EXCEPT !.step = "release", !.passing = passing])
      BY <2>5 DEF SendThrows
    <3> DEFINE new == [hand[l] EXCEPT !.step = "release", !.passing = passing]
    <3>2. new \in Hands /\ new.mail = hand[l].mail /\ Set(l, new)
      BY <2>1, <3>1 DEF Hands
    <3>3. HadClaim(l) /\ hand[l].mail \in Mails /\ UNCHANGED <<claimed, sent, late>>
      BY <2>5 DEF SendThrows, At, HadClaim, SafeInv, Busy, history
    <3> QED
      BY <3>2, <3>3, QuietStep
  <2>6. CASE SendThrowsLate(l)
    BY <2>6, SendThrowsLateSafe
  <2>7. CASE Release(l)
    <3> DEFINE new == [hand[l] EXCEPT !.step = "failed"]
    <3>1. new \in Hands /\ new.step = "failed" /\ new.mail = hand[l].mail
      BY <2>1 DEF Hands
    <3>2. /\ At(l, "release") /\ Set(l, new)
          /\ claimed' = Released(hand[l].mail) /\ UNCHANGED <<sent, late>>
      BY <2>7 DEF Release, GoTo, history
    <3> QED
      BY <3>1, <3>2, ReleasedSafe
  <2>8. CASE ReleaseThrows(l)
    <3> DEFINE new == [hand[l] EXCEPT !.step = "failed", !.passing = TRUE]
    <3>1. new \in Hands /\ new.step = "failed" /\ new.mail = hand[l].mail
      BY <2>1 DEF Hands
    <3>2. At(l, "release") /\ Set(l, new) /\ UNCHANGED <<sent, late>>
      BY <2>8 DEF ReleaseThrows, Throw
    <3>3. CASE claimed' = Released(hand[l].mail)
      BY <3>1, <3>2, <3>3, ReleasedSafe
    <3>4. CASE UNCHANGED claimed
      <4>1. hand[l].mail \in Mails
        BY <3>2 DEF At, SafeInv, Busy
      <4> QED
        BY <3>1, <3>2, <3>4, <4>1, QuietStep
    <3> QED
      BY <2>8, <3>3, <3>4 DEF ReleaseThrows
  <2>9. CASE Retry(l)
    <3> DEFINE new == [hand[l] EXCEPT !.step = "mark", !.tries = @ + 1, !.passing = FALSE]
    <3>1. hand[l].tries + 1 \in 0..Cooldowns
      BY <2>1, <2>9, NotificationsAssumption DEF Retry, MayRetry, Hands
    <3>2. new \in Hands /\ new.step = "mark" /\ new.mail = hand[l].mail
      BY <2>1, <3>1 DEF Hands
    <3>3. Set(l, new) /\ hand[l].mail \in Mails /\ UNCHANGED <<claimed, sent, late>>
      BY <2>9 DEF Retry, At, SafeInv, Busy, history
    <3> QED
      BY <3>2, <3>3, QuietStep
  <2>10. CASE MoveToErrorQueue(l) \/ Acknowledge(l)
    <3>1. Idle \in Hands /\ Idle.step = "idle"
      BY NotificationsAssumption DEF Idle, Hands
    <3>2. Set(l, Idle) /\ UNCHANGED <<claimed, sent, late>>
      BY <2>10 DEF MoveToErrorQueue, Acknowledge, history
    <3> QED
      BY <3>1, <3>2, QuietStep
  <2> QED
    BY <1>3, <2>2, <2>3, <2>4, <2>5, <2>6, <2>7, <2>8, <2>9, <2>10 DEF Deliver
<1>4. ASSUME Crash PROVE SafeInv'
  BY <1>4, CrashSafe
<1>5. ASSUME UNCHANGED vars PROVE SafeInv'
  <2>1. UNCHANGED <<claimed, hand, sent, late>>
    BY <1>5 DEF vars
  <2> QED
    BY <2>1, ElsewhereStep
<1> QED
  BY <1>1, <1>2, <1>3, <1>4, <1>5 DEF Next

\* A mail leaves the building again only after a send that was accepted and threw.
THEOREM NoSilentDuplicate == Spec => []TwiceOnlyAfterLateFailure
<1>1. SafeInv => TwiceOnlyAfterLateFailure
  BY DEF SafeInv
<1> QED
  BY InitSafe, StepSafe, <1>1, PTL DEF Spec

-----------------------------------------------------------------------------
(* Types.                                                                  *)

\* A mail is committed once and relayed no more often than the bound allows.
RelayInv ==
  /\ outbox \subseteq committed
  /\ \A m \in Mails \ committed : relayed[m] = 0
  /\ \A m \in outbox : relayed[m] < MaxRelays

\* A listener without a mail is idle in every respect.
Resting == \A l \in Listeners : hand[l].step = "idle" => hand[l] = Idle

TypeInv == TypeOK /\ RelayInv /\ Resting

\* The types that a step of the sender or the broker can change.
LEMMA SenderTypes ==
  ASSUME TypeInv, NEW m \in Mails, Commit(m) \/ Relay(m) \/ Replay(m)
  PROVE  TypeInv'
<1>1. queue[m] + 1 \in Nat /\ relayed[m] \in Nat
  BY DEF TypeInv, TypeOK
<1>2. CASE Commit(m)
  BY <1>2, NotificationsAssumption
  DEF Commit, TypeInv, TypeOK, RelayInv, Resting, bounds, history
<1>3. CASE Relay(m)
  <2>1. relayed[m] < MaxRelays /\ m \in committed
    BY <1>3 DEF Relay, TypeInv, RelayInv
  <2>2. relayed[m] + 1 \in 0..MaxRelays
    BY <1>1, <2>1, NotificationsAssumption
  <2>3. /\ relayed' \in [Mails -> 0..MaxRelays] /\ queue' \in [Mails -> Nat]
        /\ relayed'[m] = relayed[m] + 1 /\ \A n \in Mails : n # m => relayed'[n] = relayed[n]
    BY <1>1, <1>3, <2>2 DEF Relay, TypeInv, TypeOK
  <2>4. outbox' \subseteq outbox /\ (m \in outbox' => relayed'[m] < MaxRelays)
    BY <1>3 DEF Relay
  <2>5. TypeOK'
    BY <1>3, <2>3, <2>4 DEF Relay, TypeInv, TypeOK, bounds, history
  <2>6. RelayInv'
    BY <1>3, <2>1, <2>3, <2>4 DEF Relay, TypeInv, TypeOK, RelayInv
  <2> QED
    BY <1>3, <2>5, <2>6 DEF TypeInv, Resting, Relay
<1>4. CASE Replay(m)
  <2>1. replays + 1 \in 0..MaxReplays
    BY <1>4, NotificationsAssumption DEF Replay, TypeInv, TypeOK
  <2> QED
    BY <1>1, <1>4, <2>1 DEF Replay, TypeInv, TypeOK, RelayInv, Resting, sender, history
<1> QED
  BY <1>2, <1>3, <1>4

\* What a listener does next with its mail, or nothing at all.
LEMMA DeliverHands ==
  ASSUME TypeOK, NEW l \in Listeners, Deliver(l)
  PROVE  \E new \in Hands : Set(l, new) /\ (new.step = "idle" => new = Idle)
<1>1. hand[l] \in Hands
  BY DEF TypeOK
<1> DEFINE To(step) == [hand[l] EXCEPT !.step = step]
           Out(step, passing) == [hand[l] EXCEPT !.step = step, !.passing = passing]
           Again == [hand[l] EXCEPT !.step = "mark", !.tries = @ + 1, !.passing = FALSE]
<1>2. \A step \in {"send", "ack", "failed"} : To(step) \in Hands /\ To(step).step = step
  BY <1>1 DEF Hands
<1>3. \A step \in {"release", "failed"}, passing \in BOOLEAN :
        Out(step, passing) \in Hands /\ Out(step, passing).step = step
  BY <1>1 DEF Hands
<1>4. Idle \in Hands
  BY NotificationsAssumption DEF Idle, Hands
<1>5. CASE TryMark(l) \/ Send(l) \/ Release(l)
  BY <1>2, <1>5 DEF TryMark, Send, Release, GoTo
<1>6. CASE TryMarkThrows(l) \/ SendThrows(l) \/ SendThrowsLate(l) \/ ReleaseThrows(l)
  BY <1>3, <1>6 DEF TryMarkThrows, SendThrows, SendThrowsLate, ReleaseThrows, Throw
<1>7. CASE Retry(l)
  <2>1. hand[l].tries + 1 \in 0..Cooldowns
    BY <1>1, <1>7, NotificationsAssumption DEF Retry, MayRetry, Hands
  <2>2. Again \in Hands /\ Again.step = "mark"
    BY <1>1, <2>1 DEF Hands
  <2> QED
    BY <1>7, <2>2 DEF Retry
<1>8. CASE MoveToErrorQueue(l) \/ Acknowledge(l)
  BY <1>4, <1>8 DEF MoveToErrorQueue, Acknowledge
<1> QED
  BY <1>5, <1>6, <1>7, <1>8 DEF Deliver

\* A listener's step, or a stop, leaves the sender's side; what it holds and what
\* the host accepted are typed by SafeInv.
LEMMA ListenerTypes ==
  ASSUME TypeInv, SafeInv, SafeInv', NEW l \in Listeners,
         Deliver(l) \/ \E m \in Mails : Receive(l, m)
  PROVE  TypeInv'
<1>1. hand[l].step # "idle" => hand[l].mail \in Mails
  BY DEF SafeInv, Busy
<1>2. UNCHANGED <<outbox, relayed, committed, crashes, replays>>
  BY DEF Deliver, Receive, TryMark, TryMarkThrows, Send, SendThrows, SendThrowsLate, Release,
         ReleaseThrows, Retry, MoveToErrorQueue, Acknowledge, sender, bounds
<1>3. queue' \in [Mails -> Nat]
  <2>1. CASE Deliver(l)
    BY <2>1 DEF Deliver, TryMark, TryMarkThrows, Send, SendThrows, SendThrowsLate, Release,
                ReleaseThrows, Retry, MoveToErrorQueue, Acknowledge, TypeInv, TypeOK
  <2>2. ASSUME NEW m \in Mails, Receive(l, m) PROVE queue' \in [Mails -> Nat]
    <3>1. queue[m] - 1 \in Nat
      BY <2>2 DEF Receive, TypeInv, TypeOK
    <3> QED
      BY <2>2, <3>1 DEF Receive, TypeInv, TypeOK
  <2> QED
    BY <2>1, <2>2
<1>4. dead' \subseteq Mails /\ orphaned' \subseteq Mails
  BY <1>1 DEF Deliver, Receive, TryMark, TryMarkThrows, Send, SendThrows, SendThrowsLate, Release,
         ReleaseThrows, Retry, MoveToErrorQueue, Acknowledge, DeadLetters, At, history,
         TypeInv, TypeOK
<1>5. Resting'
  <2>1. CASE \E m \in Mails : Receive(l, m)
    BY <2>1 DEF Receive, Set, TypeInv, TypeOK, Resting
  <2>2. CASE Deliver(l)
    <3>1. PICK new \in Hands : Set(l, new) /\ (new.step = "idle" => new = Idle)
      BY <2>2, DeliverHands DEF SafeInv, TypeInv, TypeOK
    <3> QED
      BY <3>1 DEF Set, TypeInv, TypeOK, Resting
  <2> QED
    BY <2>1, <2>2
<1> QED
  BY <1>2, <1>3, <1>4, <1>5 DEF TypeInv, TypeOK, RelayInv, SafeInv, SendTypes

LEMMA CrashTypes ==
  ASSUME TypeInv, SafeInv, SafeInv', Crash
  PROVE  TypeInv'
<1>1. PICK back \in SUBSET {l \in Listeners : hand[l] # Idle} :
        /\ queue' = [m \in Mails |-> queue[m] + Cardinality(InHand(m) \cap back)]
        /\ orphaned' = orphaned \cup
             {hand[l].mail : l \in {k \in Listeners : hand[k] # Idle /\
                                      (HadClaim(k) \/ (k \notin back /\ ~At(k, "ack")))}}
  BY DEF Crash
<1>2. \A m \in Mails : queue[m] + Cardinality(InHand(m) \cap back) \in Nat
  <2> SUFFICES ASSUME NEW m \in Mails PROVE queue[m] + Cardinality(InHand(m) \cap back) \in Nat
    OBVIOUS
  <2>1. IsFiniteSet(InHand(m) \cap back)
    BY NotificationsAssumption, FS_Subset DEF InHand
  <2>2. Cardinality(InHand(m) \cap back) \in Nat
    BY <2>1, FS_CardinalityType
  <2> QED
    BY <2>2 DEF TypeInv, TypeOK
<1>3. \A l \in Listeners : hand[l] # Idle => hand[l].mail \in Mails
  <2> SUFFICES ASSUME NEW l \in Listeners, hand[l] # Idle PROVE hand[l].mail \in Mails
    OBVIOUS
  <2>1. hand[l].step # "idle"
    BY DEF TypeInv, Resting
  <2> QED
    BY <2>1 DEF SafeInv, Busy
<1>4. queue' \in [Mails -> Nat]
  BY <1>1, <1>2
<1>5. orphaned' \subseteq Mails
  BY <1>1, <1>3 DEF TypeInv, TypeOK
<1>6. crashes' \in 0..MaxCrashes
  BY NotificationsAssumption DEF Crash, TypeInv, TypeOK
<1>7. hand' = [l \in Listeners |-> Idle] /\ UNCHANGED <<outbox, relayed, committed, dead, replays>>
  BY DEF Crash, sender
<1>8. TypeOK'
  BY <1>4, <1>5, <1>6, <1>7 DEF TypeInv, TypeOK, SafeInv, SendTypes
<1>9. RelayInv' /\ Resting'
  BY <1>7 DEF TypeInv, RelayInv, Resting
<1> QED
  BY <1>8, <1>9 DEF TypeInv

LEMMA InitTypes == Init => TypeInv
BY NotificationsAssumption DEF Init, TypeInv, TypeOK, RelayInv, Resting, Idle, Hands

LEMMA StepTypes == TypeInv /\ SafeInv /\ SafeInv' /\ [Next]_vars => TypeInv'
<1> SUFFICES ASSUME TypeInv, SafeInv, SafeInv', [Next]_vars PROVE TypeInv'
  OBVIOUS
<1>1. CASE \E m \in Mails : Commit(m) \/ Relay(m) \/ Replay(m)
  BY <1>1, SenderTypes
<1>2. CASE \E l \in Listeners : Deliver(l) \/ \E m \in Mails : Receive(l, m)
  BY <1>2, ListenerTypes
<1>3. CASE Crash
  BY <1>3, CrashTypes
<1>4. CASE UNCHANGED vars
  BY <1>4 DEF vars, TypeInv, TypeOK, RelayInv, Resting
<1> QED
  BY <1>1, <1>2, <1>3, <1>4 DEF Next

\* The outbox, the broker, the claims and the listeners keep their types, and no
\* mail is relayed or retried more often than it may be.
THEOREM TypeCorrect == Spec => []TypeOK
<1>1. TypeInv => TypeOK
  BY DEF TypeInv
<1> QED
  BY InitSafe, StepSafe, InitTypes, StepTypes, <1>1, PTL DEF Spec

-----------------------------------------------------------------------------
(* Nothing is lost without a trace.                                        *)

\* A committed mail is on its way, or what became of it is known.  A listener that
\* only has to acknowledge it is no trace: it may have left it to another one.
Traced(m) ==
  \/ m \in outbox \/ queue[m] > 0 \/ m \in dead
  \/ sent[m] > 0 \/ m \in orphaned
  \/ \E l \in Listeners : Owes(l, m)

TraceInv == (\A m \in committed : Traced(m)) /\ ClaimServed

\* A step keeps the trace when it takes nothing back and whoever owed a mail
\* still does, or what became of the mail is known.
LEMMA KeepsTrace ==
  ASSUME TypeInv, TypeInv', TraceInv,
         \A m \in committed' \ committed : m \in outbox',
         \A m \in Mails :
           \/ m \in outbox' \/ queue'[m] > 0 \/ m \in dead' \/ sent'[m] > 0 \/ m \in orphaned'
           \/ \E l \in Listeners : Owes(l, m)'
           \/ /\ m \notin outbox /\ ~(queue[m] > 0) /\ m \notin dead
              /\ ~(sent[m] > 0) /\ m \notin orphaned
              /\ \A l \in Listeners : ~Owes(l, m),
         \A m \in claimed' :
           \/ sent'[m] > 0 \/ m \in orphaned'
           \/ \E l \in Listeners : hand'[l].mail = m /\ HadClaim(l)'
  PROVE  TraceInv'
<1>1. \A m \in committed' : Traced(m)'
  <2> SUFFICES ASSUME NEW m \in committed' PROVE Traced(m)'
    OBVIOUS
  <2>1. CASE m \notin committed
    BY <2>1 DEF Traced
  <2>2. CASE m \in committed
    <3>1. Traced(m) /\ m \in Mails
      BY <2>2 DEF TraceInv, TypeInv, TypeOK
    <3> QED
      BY <3>1 DEF Traced
  <2> QED
    BY <2>1, <2>2
<1>2. ClaimServed'
  BY DEF ClaimServed
<1> QED
  BY <1>1, <1>2 DEF TraceInv

\* The sender and the broker pass a mail on from one place to the next.
LEMMA SenderTraces ==
  ASSUME TypeInv, TypeInv', TraceInv, NEW m \in Mails, Commit(m) \/ Relay(m) \/ Replay(m)
  PROVE  TraceInv'
<1>1. UNCHANGED <<sent, orphaned, claimed, hand>>
  BY DEF Commit, Relay, Replay, history
<1>2. \A n \in committed' \ committed : n \in outbox'
  BY DEF Commit, Relay, Replay, sender
<1>3. queue[m] \in Nat
  BY DEF TypeInv, TypeOK
<1>4. ASSUME NEW n \in Mails
      PROVE  /\ n \in outbox => n \in outbox' \/ queue'[n] > 0
             /\ queue[n] > 0 => queue'[n] > 0
             /\ n \in dead => n \in dead' \/ queue'[n] > 0
  <2>1. CASE Commit(m)
    BY <2>1 DEF Commit
  <2>2. CASE Relay(m)
    BY <1>3, <2>2 DEF Relay, TypeInv, TypeOK
  <2>3. CASE Replay(m)
    BY <1>3, <2>3 DEF Replay, TypeInv, TypeOK, sender
  <2> QED
    BY <2>1, <2>2, <2>3
<1>5. \A n \in claimed' :
        \/ sent'[n] > 0 \/ n \in orphaned'
        \/ \E l \in Listeners : hand'[l].mail = n /\ HadClaim(l)'
  BY <1>1 DEF TraceInv, ClaimServed, HadClaim
<1>6. \A n \in Mails : \A l \in Listeners : Owes(l, n)' <=> Owes(l, n)
  BY <1>1 DEF Owes
<1> QED
  BY <1>1, <1>2, <1>4, <1>5, <1>6, KeepsTrace

\* A listener passes its mail on, says what became of it, or leaves it to another.
LEMMA ListenerTraces ==
  ASSUME TypeInv, TypeInv', TraceInv, NEW l \in Listeners, NEW new \in Hands, Set(l, new),
         UNCHANGED <<outbox, committed>>, dead \subseteq dead', orphaned \subseteq orphaned',
         \A m \in Mails : /\ queue[m] > 0 => queue'[m] > 0 \/ Owes(l, m)'
                          /\ sent[m] > 0 => sent'[m] > 0,
         \A m \in Mails :
           Owes(l, m) => \/ Owes(l, m)' \/ m \in dead' \/ sent'[m] > 0 \/ m \in orphaned'
                         \/ \E k \in Listeners \ {l} : Owes(k, m),
         \A m \in claimed' :
           \/ m \in claimed /\ ~(HadClaim(l) /\ hand[l].mail = m)
           \/ sent'[m] > 0 \/ m \in orphaned'
           \/ HadClaim(l)' /\ hand'[l].mail = m
  PROVE  TraceInv'
<1>1. hand'[l] = new /\ \A k \in Listeners \ {l} : hand'[k] = hand[k]
  BY DEF Set, TypeInv, TypeOK
<1>2. ASSUME NEW m \in Mails, NEW k \in Listeners, Owes(k, m)
      PROVE  \/ m \in dead' \/ sent'[m] > 0 \/ m \in orphaned'
             \/ \E j \in Listeners : Owes(j, m)'
  <2>1. \A j \in Listeners \ {l} : Owes(j, m) => Owes(j, m)'
    BY <1>1 DEF Owes
  <2> QED
    BY <1>2, <2>1
<1>3. ASSUME NEW m \in claimed'
      PROVE  \/ sent'[m] > 0 \/ m \in orphaned'
             \/ \E k \in Listeners : hand'[k].mail = m /\ HadClaim(k)'
  <2>1. CASE m \in claimed /\ ~(HadClaim(l) /\ hand[l].mail = m)
    <3>1. m \in Mails
      BY <2>1 DEF TypeInv, TypeOK
    <3>2. sent[m] > 0 \/ m \in orphaned \/ \E k \in Listeners \ {l} : hand[k].mail = m /\ HadClaim(k)
      BY <2>1 DEF TraceInv, ClaimServed
    <3>3. \A k \in Listeners \ {l} : HadClaim(k)' <=> HadClaim(k)
      BY <1>1 DEF HadClaim
    <3> QED
      BY <1>1, <3>1, <3>2, <3>3
  <2>2. CASE ~(m \in claimed /\ ~(HadClaim(l) /\ hand[l].mail = m))
    BY <2>2
  <2> QED
    BY <2>1, <2>2
<1>4. \A m \in Mails :
        \/ m \in outbox' \/ queue'[m] > 0 \/ m \in dead' \/ sent'[m] > 0 \/ m \in orphaned'
        \/ \E k \in Listeners : Owes(k, m)'
        \/ /\ m \notin outbox /\ ~(queue[m] > 0) /\ m \notin dead
           /\ ~(sent[m] > 0) /\ m \notin orphaned
           /\ \A k \in Listeners : ~Owes(k, m)
  BY <1>2
<1>5. committed' \ committed = {}
  OBVIOUS
<1> QED
  BY <1>3, <1>4, <1>5, KeepsTrace

LEMMA ReceiveTraces ==
  ASSUME TypeInv, TypeInv', TraceInv, NEW l \in Listeners, NEW m \in Mails, Receive(l, m)
  PROVE  TraceInv'
<1> DEFINE new == [mail |-> m, step |-> "mark", tries |-> 0, passing |-> FALSE]
<1>1. new \in Hands /\ Set(l, new)
  BY NotificationsAssumption DEF Receive, Hands
<1>2. Owes(l, m)'
  BY <1>1 DEF Set, Owes, TypeInv, TypeOK
<1>3. \A n \in Mails : queue[n] > 0 => queue'[n] > 0 \/ Owes(l, n)'
  BY <1>2 DEF Receive, TypeInv, TypeOK
<1>4. \A n \in Mails : ~Owes(l, n)
  BY DEF Receive, Owes, Idle
<1>5. ~HadClaim(l)
  BY DEF Receive, HadClaim, Idle
<1> QED
  BY <1>1, <1>3, <1>4, <1>5, ListenerTraces DEF Receive, sender, history

LEMMA DeliverTraces ==
  ASSUME TypeInv, TypeInv', SafeInv, TraceInv, NEW l \in Listeners, Deliver(l)
  PROVE  TraceInv'
<1> DEFINE m == hand[l].mail
<1>1. PICK new \in Hands : Set(l, new) /\ (new.step = "idle" => new = Idle)
  BY DeliverHands DEF TypeInv
<1>2. hand'[l] = new /\ hand[l] \in Hands /\ (hand[l].step # "idle" => m \in Mails)
  BY <1>1 DEF Set, TypeInv, TypeOK, SafeInv, Busy
<1>3. UNCHANGED <<outbox, committed, queue>> /\ dead \subseteq dead' /\ orphaned \subseteq orphaned'
  BY DEF Deliver, TryMark, TryMarkThrows, Send, SendThrows, SendThrowsLate, Release,
         ReleaseThrows, Retry, MoveToErrorQueue, Acknowledge, DeadLetters, sender, history
<1>4. \A n \in Mails : sent[n] \in Nat /\ (sent[n] > 0 => sent'[n] > 0)
  <2>1. CASE Send(l) \/ SendThrowsLate(l)
    BY <1>2, <2>1 DEF Send, SendThrowsLate, At, TypeInv, TypeOK
  <2>2. CASE ~(Send(l) \/ SendThrowsLate(l))
    <3>1. sent' = sent
      BY <2>2 DEF Deliver, TryMark, TryMarkThrows, SendThrows, Release, ReleaseThrows, Retry,
                  MoveToErrorQueue, Acknowledge, history
    <3> QED
      BY <3>1 DEF TypeInv, TypeOK
  <2> QED
    BY <2>1, <2>2
\* What the step does with the mail in hand, and with the claims.
<1>5. /\ hand[l].step \in {"mark", "send", "release", "failed"}
           => \/ new.mail = m /\ new.step \in {"mark", "send", "release", "failed"}
              \/ m \in dead' \/ sent'[m] > 0 \/ m \in orphaned'
              \/ m \in claimed /\ hand[l].step = "mark"
      /\ \A n \in claimed' :
           \/ n \in claimed /\ ~(HadClaim(l) /\ m = n)
           \/ sent'[n] > 0 \/ n \in orphaned'
           \/ new.step \in {"send", "release"} /\ new.mail = n
  <2>1. CASE TryMark(l)
    BY <1>1, <1>2, <2>1 DEF TryMark, MayMark, GoTo, Set, At, HadClaim, TypeInv, TypeOK, Hands
  <2>2. CASE TryMarkThrows(l)
    <3>1. new = [hand[l] EXCEPT !.step = "failed", !.passing = TRUE] /\ ~HadClaim(l)
      BY <1>1, <1>2, <2>2 DEF TryMarkThrows, Throw, Set, At, HadClaim, TypeInv, TypeOK
    <3>2. new.step = "failed" /\ new.mail = m
      BY <1>2, <3>1 DEF Hands
    <3>3. claimed' = claimed \/ (claimed' = claimed \cup {m} /\ m \in orphaned')
      BY <2>2 DEF TryMarkThrows
    <3> QED
      BY <3>1, <3>2, <3>3
  <2>3. CASE Send(l)
    BY <1>1, <1>2, <1>4, <2>3 DEF Send, GoTo, Set, At, HadClaim, TypeInv, TypeOK, Hands
  <2>4. CASE SendThrows(l)
    <3>1. PICK passing \in BOOLEAN :
            Set(l, [hand[l] EXCEPT !.step = "release", !.passing = passing])
      BY <2>4 DEF SendThrows
    <3>2. new.step = "release" /\ new.mail = m /\ claimed' = claimed /\ HadClaim(l)
      BY <1>2, <2>4, <3>1 DEF SendThrows, Set, At, HadClaim, TypeInv, TypeOK, Hands
    <3> QED
      BY <3>2
  <2>5. CASE SendThrowsLate(l)
    BY <1>1, <1>2, <1>4, <2>5 DEF SendThrowsLate, Set, At, HadClaim, TypeInv, TypeOK, Hands
  <2>6. CASE Release(l)
    BY <1>1, <1>2, <2>6 DEF Release, Released, GoTo, Set, At, HadClaim, TypeInv, TypeOK, Hands
  <2>7. CASE ReleaseThrows(l)
    <3>1. new = [hand[l] EXCEPT !.step = "failed", !.passing = TRUE]
      BY <1>1, <1>2, <2>7 DEF ReleaseThrows, Throw, Set, At, TypeInv, TypeOK
    <3>2. new.step = "failed" /\ new.mail = m
      BY <1>2, <3>1 DEF Hands
    <3>3. claimed' = claimed \ {m} \/ (claimed' = claimed /\ m \in orphaned')
      BY <2>7 DEF ReleaseThrows, Released
    <3> QED
      BY <3>2, <3>3
  <2>8. CASE Retry(l)
    <3>1. new = [hand[l] EXCEPT !.step = "mark", !.tries = @ + 1, !.passing = FALSE]
      BY <1>1, <1>2, <2>8 DEF Retry, Set, TypeInv, TypeOK
    <3>2. new.step = "mark" /\ new.mail = m
      BY <1>2, <3>1 DEF Hands
    <3>3. claimed' = claimed /\ ~HadClaim(l)
      BY <2>8 DEF Retry, At, HadClaim
    <3> QED
      BY <3>2, <3>3
  <2>9. CASE MoveToErrorQueue(l)
    BY <1>1, <1>2, <2>9 DEF MoveToErrorQueue, DeadLetters, Set, At, HadClaim, history
  <2>10. CASE Acknowledge(l)
    BY <1>1, <1>2, <2>10 DEF Acknowledge, Set, At, HadClaim, history
  <2> QED
    BY <2>1, <2>2, <2>3, <2>4, <2>5, <2>6, <2>7, <2>8, <2>9, <2>10 DEF Deliver
<1>6. ASSUME NEW n \in Mails, Owes(l, n)
      PROVE  \/ Owes(l, n)' \/ n \in dead' \/ sent'[n] > 0 \/ n \in orphaned'
             \/ \E k \in Listeners \ {l} : Owes(k, n)
  <2>1. n = m /\ hand[l].step \in {"mark", "send", "release", "failed"}
    BY <1>6 DEF Owes
  <2>2. CASE m \in claimed /\ hand[l].step = "mark"
    <3>1. ~HadClaim(l)
      BY <2>2 DEF HadClaim
    <3>2. sent[n] > 0 \/ n \in orphaned \/ \E k \in Listeners \ {l} : hand[k].mail = n /\ HadClaim(k)
      BY <2>1, <2>2, <3>1 DEF TraceInv, ClaimServed
    <3> QED
      BY <1>3, <1>4, <3>2 DEF HadClaim, Owes
  <2>3. CASE ~(m \in claimed /\ hand[l].step = "mark")
    BY <1>2, <1>5, <2>1, <2>3 DEF Owes
  <2> QED
    BY <2>2, <2>3
<1>7. HadClaim(l)' <=> new.step \in {"send", "release"}
  BY <1>2 DEF HadClaim
<1>8. \A n \in claimed' :
        \/ n \in claimed /\ ~(HadClaim(l) /\ hand[l].mail = n)
        \/ sent'[n] > 0 \/ n \in orphaned'
        \/ HadClaim(l)' /\ hand'[l].mail = n
  BY <1>2, <1>5, <1>7
<1>9. \A n \in Mails : /\ queue[n] > 0 => queue'[n] > 0 \/ Owes(l, n)'
                       /\ sent[n] > 0 => sent'[n] > 0
  BY <1>3, <1>4
<1> QED
  BY <1>1, <1>3, <1>6, <1>8, <1>9, ListenerTraces

\* A stop hands back what was in hand, or marks it: only what was to be
\* acknowledged goes without a trace, and that one leaves one elsewhere.
LEMMA CrashTraces ==
  ASSUME TypeInv, TypeInv', TraceInv, Crash
  PROVE  TraceInv'
<1>1. PICK back \in SUBSET {l \in Listeners : hand[l] # Idle} :
        /\ queue' = [m \in Mails |-> queue[m] + Cardinality(InHand(m) \cap back)]
        /\ orphaned' = orphaned \cup
             {hand[l].mail : l \in {k \in Listeners : hand[k] # Idle /\
                                      (HadClaim(k) \/ (k \notin back /\ ~At(k, "ack")))}}
  BY DEF Crash
<1>2. UNCHANGED <<outbox, committed, dead, claimed, sent>> /\ orphaned \subseteq orphaned'
  BY <1>1 DEF Crash, sender
<1>3. ASSUME NEW m \in Mails
      PROVE  /\ queue[m] \in Nat /\ Cardinality(InHand(m) \cap back) \in Nat
             /\ queue'[m] = queue[m] + Cardinality(InHand(m) \cap back)
             /\ InHand(m) \cap back # {} => Cardinality(InHand(m) \cap back) # 0
  <2>1. IsFiniteSet(InHand(m) \cap back)
    BY NotificationsAssumption, FS_Subset DEF InHand
  <2>2. Cardinality(InHand(m) \cap back) \in Nat
    BY <2>1, FS_CardinalityType
  <2>3. InHand(m) \cap back # {} => Cardinality(InHand(m) \cap back) # 0
    BY <2>1, FS_EmptySet
  <2> QED
    BY <1>1, <2>2, <2>3 DEF TypeInv, TypeOK
<1>4. ASSUME NEW m \in Mails, NEW l \in Listeners, Owes(l, m)
      PROVE  queue'[m] > 0 \/ m \in orphaned'
  <2>1. hand[l] # Idle /\ hand[l].mail = m /\ ~At(l, "ack")
    BY <1>4 DEF Owes, Idle, At
  <2>2. CASE l \in back
    <3>1. InHand(m) \cap back # {}
      BY <2>1, <2>2 DEF InHand
    <3>2. /\ queue[m] \in Nat /\ Cardinality(InHand(m) \cap back) \in Nat
          /\ queue'[m] = queue[m] + Cardinality(InHand(m) \cap back)
          /\ Cardinality(InHand(m) \cap back) # 0
      BY <1>3, <3>1
    <3> QED
      BY <3>2
  <2>3. CASE l \notin back
    BY <1>1, <2>1, <2>3
  <2> QED
    BY <2>2, <2>3
<1>5. ASSUME NEW m \in Mails, queue[m] > 0 PROVE queue'[m] > 0
  <2>1. /\ queue[m] \in Nat /\ Cardinality(InHand(m) \cap back) \in Nat
        /\ queue'[m] = queue[m] + Cardinality(InHand(m) \cap back)
    BY <1>3
  <2> QED
    BY <1>5, <2>1
<1>6. ASSUME NEW m \in claimed' PROVE sent'[m] > 0 \/ m \in orphaned'
  <2>1. CASE \E l \in Listeners : hand[l].mail = m /\ HadClaim(l)
    <3>1. PICK l \in Listeners : hand[l].mail = m /\ HadClaim(l)
      BY <2>1
    <3>2. hand[l] # Idle
      BY <3>1 DEF HadClaim, Idle
    <3> QED
      BY <1>1, <3>1, <3>2
  <2>2. CASE sent[m] > 0 \/ m \in orphaned
    BY <1>2, <2>2
  <2> QED
    BY <1>2, <2>1, <2>2 DEF TraceInv, ClaimServed
<1>7. \A m \in Mails :
        \/ m \in outbox' \/ queue'[m] > 0 \/ m \in dead' \/ sent'[m] > 0 \/ m \in orphaned'
        \/ \E l \in Listeners : Owes(l, m)'
        \/ /\ m \notin outbox /\ ~(queue[m] > 0) /\ m \notin dead
           /\ ~(sent[m] > 0) /\ m \notin orphaned
           /\ \A l \in Listeners : ~Owes(l, m)
  BY <1>2, <1>4, <1>5
<1> QED
  BY <1>2, <1>6, <1>7, KeepsTrace

LEMMA StepTraces == TypeInv /\ TypeInv' /\ SafeInv /\ TraceInv /\ [Next]_vars => TraceInv'
<1> SUFFICES ASSUME TypeInv, TypeInv', SafeInv, TraceInv, [Next]_vars PROVE TraceInv'
  OBVIOUS
<1>1. CASE \E m \in Mails : Commit(m) \/ Relay(m) \/ Replay(m)
  BY <1>1, SenderTraces
<1>2. CASE \E l \in Listeners : \E m \in Mails : Receive(l, m)
  BY <1>2, ReceiveTraces
<1>3. CASE \E l \in Listeners : Deliver(l)
  BY <1>3, DeliverTraces
<1>4. CASE Crash
  BY <1>4, CrashTraces
<1>5. CASE UNCHANGED vars
  BY <1>5 DEF vars, TraceInv, Traced, Owes, ClaimServed, HadClaim
<1> QED
  BY <1>1, <1>2, <1>3, <1>4, <1>5 DEF Next

LEMMA InitTraces == Init => TraceInv
BY DEF Init, TraceInv, ClaimServed

LEMMA TracedIsAccounted == TypeInv /\ TraceInv => Accounted
<1> SUFFICES ASSUME TypeInv, TraceInv, NEW m \in committed, m \notin outbox, Copies(m) = 0
             PROVE  sent[m] > 0 \/ m \in dead \/ m \in orphaned
  BY DEF Accounted
<1>1. m \in Mails /\ queue[m] \in Nat
  BY DEF TypeInv, TypeOK
<1>2. IsFiniteSet(InHand(m))
  BY NotificationsAssumption, FS_Subset DEF InHand
<1>3. Cardinality(InHand(m)) \in Nat
  BY <1>2, FS_CardinalityType
<1>4. queue[m] = 0 /\ Cardinality(InHand(m)) = 0
  BY <1>1, <1>3 DEF Copies
<1>5. InHand(m) = {}
  BY <1>2, <1>4, FS_EmptySet
<1>6. \A l \in Listeners : ~Owes(l, m)
  BY <1>5 DEF InHand, Owes
<1> QED
  BY <1>4, <1>6 DEF TraceInv, Traced

\* A committed mail that is nowhere any more was sent, or is a dead letter, or was
\* taken by a stop or a failure of the claims database.
THEOREM NothingUnaccounted == Spec => []Accounted
BY InitSafe, StepSafe, InitTypes, StepTypes, InitTraces, StepTraces, TracedIsAccounted,
   PTL DEF Spec

\* No claim is left for a mail that was not sent and that nobody is sending, but by
\* a stop or a failure of the claims database.
THEOREM NoIdleClaim == Spec => []ClaimServed
<1>1. TraceInv => ClaimServed
  BY DEF TraceInv
<1> QED
  BY InitSafe, StepSafe, InitTypes, StepTypes, InitTraces, StepTraces, <1>1, PTL DEF Spec
-----------------------------------------------------------------------------
(* Every mail goes on.                                                     *)

LEMMA LeftBefore ==
  ASSUME NEW l \in Listeners
  PROVE  /\ hand[l].step = "mark" => StepsLeft(l) = 6 * (Cooldowns - hand[l].tries) + 4
         /\ hand[l].step = "send" => StepsLeft(l) = 6 * (Cooldowns - hand[l].tries) + 3
         /\ hand[l].step = "release" => StepsLeft(l) = 6 * (Cooldowns - hand[l].tries) + 2
         /\ hand[l].step = "failed" => StepsLeft(l) = 6 * (Cooldowns - hand[l].tries) + 1
BY DEF StepsLeft, At

LEMMA LeftAfter ==
  ASSUME NEW l \in Listeners
  PROVE  /\ hand'[l].step = "mark" => StepsLeft(l)' = 6 * (Cooldowns - hand'[l].tries) + 4
         /\ hand'[l].step = "send" => StepsLeft(l)' = 6 * (Cooldowns - hand'[l].tries) + 3
         /\ hand'[l].step = "release" => StepsLeft(l)' = 6 * (Cooldowns - hand'[l].tries) + 2
         /\ hand'[l].step = "failed" => StepsLeft(l)' = 6 * (Cooldowns - hand'[l].tries) + 1
BY DEF StepsLeft, At

\* Each step of a delivery is another one than the last.
LEMMA DeliverMoves ==
  ASSUME TypeOK, NEW l \in Listeners, Deliver(l)
  PROVE  hand'[l].step # hand[l].step
<1>1. hand[l] \in Hands
  BY DEF TypeOK
<1>2. CASE TryMark(l)
  BY <1>1, <1>2 DEF TryMark, GoTo, Set, At, TypeOK, Hands
<1>3. CASE Send(l) \/ Release(l)
  BY <1>1, <1>3 DEF Send, Release, GoTo, Set, At, TypeOK, Hands
<1>4. CASE TryMarkThrows(l) \/ ReleaseThrows(l)
  <2>1. CASE TryMarkThrows(l)
    BY <1>1, <2>1 DEF TryMarkThrows, Throw, Set, At, TypeOK, Hands
  <2>2. CASE ReleaseThrows(l)
    BY <1>1, <2>2 DEF ReleaseThrows, Throw, Set, At, TypeOK, Hands
  <2> QED
    BY <1>4, <2>1, <2>2
<1>5. CASE SendThrowsLate(l)
  BY <1>1, <1>5 DEF SendThrowsLate, Set, At, TypeOK, Hands
<1>6. CASE SendThrows(l)
  <2>1. PICK passing \in BOOLEAN :
          Set(l, [hand[l] EXCEPT !.step = "release", !.passing = passing])
    BY <1>6 DEF SendThrows
  <2> QED
    BY <1>1, <1>6, <2>1 DEF SendThrows, Set, At, TypeOK, Hands
<1>7. CASE Retry(l)
  BY <1>1, <1>7 DEF Retry, Set, At, TypeOK, Hands
<1>8. CASE MoveToErrorQueue(l) \/ Acknowledge(l)
  BY <1>8 DEF MoveToErrorQueue, Acknowledge, Set, At, TypeOK, Idle
<1> QED
  BY <1>2, <1>3, <1>4, <1>5, <1>6, <1>7, <1>8 DEF Deliver

\* Whoever's hand stays as it is took no step of its own.
LEMMA Untouched ==
  ASSUME TypeOK, NEW l \in Listeners, hand'[l] = hand[l], NEW m
  PROVE  Nearer(l, m)
BY DeliverMoves DEF Nearer

\* A step that keeps the mail in hand and the tries, and goes on in the order
\* mark, send, release, failed.
LEMMA SameTryNearer ==
  ASSUME TypeOK, NEW l \in Listeners, NEW m, Owes(l, m),
         hand'[l].mail = m, hand'[l].tries = hand[l].tries,
         \/ hand[l].step = "mark" /\ hand'[l].step \in {"send", "failed"}
         \/ hand[l].step = "send" /\ hand'[l].step = "release"
         \/ hand[l].step = "release" /\ hand'[l].step = "failed"
  PROVE  Nearer(l, m)
<1>1. Owes(l, m)'
  BY DEF Owes
<1>2. PICK left \in Int : left = 6 * (Cooldowns - hand[l].tries)
  BY NotificationsAssumption DEF TypeOK, Hands
<1>3. left = 6 * (Cooldowns - hand'[l].tries)
  BY <1>2
<1>4. StepsLeft(l)' < StepsLeft(l)
  <2>1. CASE hand[l].step = "mark" /\ hand'[l].step = "send"
    BY <1>2, <1>3, <2>1, LeftBefore, LeftAfter
  <2>2. CASE hand[l].step = "mark" /\ hand'[l].step = "failed"
    BY <1>2, <1>3, <2>2, LeftBefore, LeftAfter
  <2>3. CASE hand[l].step = "send" /\ hand'[l].step = "release"
    BY <1>2, <1>3, <2>3, LeftBefore, LeftAfter
  <2>4. CASE hand[l].step = "release" /\ hand'[l].step = "failed"
    BY <1>2, <1>3, <2>4, LeftBefore, LeftAfter
  <2> QED
    BY <2>1, <2>2, <2>3, <2>4
<1> QED
  BY <1>1, <1>4 DEF Nearer

\* A retry starts over with one try less to come.
LEMMA RetryNearer ==
  ASSUME TypeOK, NEW l \in Listeners, NEW m, Owes(l, m), Retry(l)
  PROVE  Nearer(l, m)
<1>1. hand[l] \in Hands
  BY DEF TypeOK
<1>2. /\ hand[l].step = "failed" /\ hand'[l].step = "mark" /\ hand'[l].mail = m
      /\ hand'[l].tries = hand[l].tries + 1
  BY <1>1 DEF Retry, At, Set, TypeOK, Hands, Owes
<1>3. Owes(l, m)'
  BY <1>2 DEF Owes
<1>4. PICK t \in Nat : t = hand[l].tries
  BY <1>1 DEF Hands
<1>5. StepsLeft(l) = 6 * (Cooldowns - t) + 1
  BY <1>2, <1>4, LeftBefore
<1>6. StepsLeft(l)' = 6 * (Cooldowns - (t + 1)) + 4
  BY <1>2, <1>4, LeftAfter
<1> QED
  BY <1>3, <1>5, <1>6, NotificationsAssumption DEF Nearer

\* A listener's own step: on in its order, over again with one try less, settled,
\* or left to the one who has the claim.
LEMMA DeliverNearer ==
  ASSUME TypeInv, SafeInv, TraceInv, NEW l \in Listeners, NEW m \in Mails,
         Owes(l, m), Deliver(l)
  PROVE  Nearer(l, m)
<1>1. TypeOK /\ hand[l] \in Hands /\ hand[l].mail = m
  BY DEF TypeInv, TypeOK, Owes
<1>2. CASE TryMark(l)
  <2>1. CASE MayMark(m)
    <3>1. /\ hand[l].step = "mark" /\ hand'[l].step = "send" /\ hand'[l].mail = m
          /\ hand'[l].tries = hand[l].tries
      BY <1>1, <1>2, <2>1 DEF TryMark, GoTo, Set, At, TypeOK, Hands
    <3> QED
      BY <1>1, <3>1, SameTryNearer
  <2>2. CASE ~MayMark(m)
    <3>1. m \in claimed /\ ~HadClaim(l)
      BY <1>2, <2>2 DEF MayMark, TryMark, At, HadClaim
    <3>2. UNCHANGED <<sent, orphaned>> /\ \A k \in Listeners \ {l} : hand'[k] = hand[k]
      BY <1>1, <1>2, <2>2 DEF TryMark, GoTo, Set, TypeOK, history
    <3>3. CASE sent[m] > 0 \/ m \in orphaned
      BY <3>2, <3>3 DEF Nearer, Settled
    <3>4. CASE \E k \in Listeners : hand[k].mail = m /\ HadClaim(k)
      <4>1. PICK k \in Listeners \ {l} : hand[k].mail = m /\ HadClaim(k)
        BY <3>1, <3>4
      <4>2. Owes(k, m)' /\ HadClaim(k)
        BY <3>2, <4>1 DEF Owes, HadClaim
      <4> QED
        BY <4>2 DEF Nearer
    <3> QED
      BY <3>1, <3>3, <3>4 DEF TraceInv, ClaimServed
  <2> QED
    BY <2>1, <2>2
<1>3. CASE TryMarkThrows(l)
  <2>1. /\ hand[l].step = "mark" /\ hand'[l].step = "failed" /\ hand'[l].mail = m
        /\ hand'[l].tries = hand[l].tries
    BY <1>1, <1>3 DEF TryMarkThrows, Throw, Set, At, TypeOK, Hands
  <2> QED
    BY <1>1, <2>1, SameTryNearer
<1>4. CASE Send(l)
  <2>1. sent'[m] = sent[m] + 1 /\ sent[m] \in Nat
    BY <1>1, <1>4 DEF Send, TypeOK
  <2> QED
    BY <2>1 DEF Nearer, Settled
<1>5. CASE SendThrows(l)
  <2>1. PICK passing \in BOOLEAN :
          Set(l, [hand[l] EXCEPT !.step = "release", !.passing = passing])
    BY <1>5 DEF SendThrows
  <2>2. /\ hand[l].step = "send" /\ hand'[l].step = "release" /\ hand'[l].mail = m
        /\ hand'[l].tries = hand[l].tries
    BY <1>1, <1>5, <2>1 DEF SendThrows, Set, At, TypeOK, Hands
  <2> QED
    BY <1>1, <2>2, SameTryNearer
<1>6. CASE SendThrowsLate(l)
  <2>1. sent'[m] = sent[m] + 1 /\ sent[m] \in Nat
    BY <1>1, <1>6 DEF SendThrowsLate, TypeOK
  <2> QED
    BY <2>1 DEF Nearer, Settled
<1>7. CASE Release(l) \/ ReleaseThrows(l)
  <2>1. /\ hand[l].step = "release" /\ hand'[l].step = "failed" /\ hand'[l].mail = m
        /\ hand'[l].tries = hand[l].tries
    <3>1. CASE Release(l)
      BY <1>1, <3>1 DEF Release, GoTo, Set, At, TypeOK, Hands
    <3>2. CASE ReleaseThrows(l)
      BY <1>1, <3>2 DEF ReleaseThrows, Throw, Set, At, TypeOK, Hands
    <3> QED
      BY <1>7, <3>1, <3>2
  <2> QED
    BY <1>1, <2>1, SameTryNearer
<1>8. CASE Retry(l)
  BY <1>1, <1>8, RetryNearer
<1>9. CASE MoveToErrorQueue(l)
  BY <1>1, <1>9 DEF MoveToErrorQueue, DeadLetters, Nearer, Settled
<1>10. CASE Acknowledge(l)
  BY <1>10 DEF Acknowledge, At, Owes
<1> QED
  BY <1>2, <1>3, <1>4, <1>5, <1>6, <1>7, <1>8, <1>9, <1>10 DEF Deliver

\* What a stop does to the queue and to what the listeners had in hand.
LEMMA CrashNearer ==
  ASSUME TypeOK, NEW m \in Mails, Crash
  PROVE  /\ queue'[m] >= queue[m]
         /\ \A l \in Listeners : Owes(l, m) => Nearer(l, m)
<1>1. PICK back \in SUBSET {l \in Listeners : hand[l] # Idle} :
        /\ queue' = [n \in Mails |-> queue[n] + Cardinality(InHand(n) \cap back)]
        /\ orphaned' = orphaned \cup
             {hand[l].mail : l \in {k \in Listeners : hand[k] # Idle /\
                                      (HadClaim(k) \/ (k \notin back /\ ~At(k, "ack")))}}
  BY DEF Crash
<1>2. IsFiniteSet(InHand(m) \cap back)
  BY NotificationsAssumption, FS_Subset DEF InHand
<1>3. PICK n \in Nat : n = Cardinality(InHand(m) \cap back)
  BY <1>2, FS_CardinalityType
<1>4. queue[m] \in Nat /\ queue'[m] = queue[m] + n
  BY <1>1, <1>3 DEF TypeOK
<1>5. ASSUME NEW l \in Listeners, Owes(l, m) PROVE Nearer(l, m)
  <2>1. hand[l] # Idle /\ hand[l].mail = m /\ ~At(l, "ack")
    BY <1>5 DEF Owes, Idle, At
  <2>2. CASE l \in back
    <3>1. InHand(m) \cap back # {}
      BY <2>1, <2>2 DEF InHand
    <3>2. n # 0
      BY <1>2, <1>3, <3>1, FS_EmptySet
    <3>3. queue'[m] > queue[m]
      BY <1>4, <3>2
    <3> QED
      BY <3>3 DEF Nearer
  <2>3. CASE l \notin back
    <3>1. m \in orphaned'
      BY <1>1, <2>1, <2>3
    <3> QED
      BY <3>1 DEF Nearer, Settled
  <2> QED
    BY <2>2, <2>3
<1> QED
  BY <1>4, <1>5

\* One mail in one step: it leaves the outbox only for a queue, the queue only for
\* a hand, and whoever owes it something gets nearer to having done it.
LEMMA GoesOn ==
  ASSUME TypeInv, SafeInv, TraceInv, [Next]_vars, NEW m \in Mails
  PROVE  /\ m \in outbox => m \in outbox' \/ queue'[m] > queue[m]
         /\ queue'[m] >= queue[m] \/ \E l \in Listeners : hand[l] = Idle /\ Owes(l, m)'
         /\ \A l \in Listeners : Owes(l, m) => Nearer(l, m)
<1>1. TypeOK /\ queue[m] \in Nat
  BY DEF TypeInv, TypeOK
<1>2. ASSUME NEW n \in Mails, Commit(n) \/ Relay(n) \/ Replay(n)
      PROVE  /\ m \in outbox => m \in outbox' \/ queue'[m] > queue[m]
             /\ queue'[m] >= queue[m]
             /\ UNCHANGED hand
  <2>1. CASE Commit(n)
    BY <1>1, <2>1 DEF Commit
  <2>2. CASE Relay(n)
    BY <1>1, <2>2 DEF Relay, TypeOK
  <2>3. CASE Replay(n)
    BY <1>1, <2>3 DEF Replay, TypeOK, sender
  <2> QED
    BY <1>2, <2>1, <2>2, <2>3
<1>3. ASSUME NEW l \in Listeners, NEW n \in Mails, Receive(l, n)
      PROVE  /\ outbox' = outbox
             /\ queue'[m] >= queue[m] \/ (hand[l] = Idle /\ Owes(l, m)')
             /\ ~Owes(l, m) /\ \A k \in Listeners \ {l} : hand'[k] = hand[k]
  <2>1. hand[l] = Idle /\ outbox' = outbox /\ ~Owes(l, m)
    BY <1>3 DEF Receive, sender, Owes, Idle
  <2>2. hand'[l].mail = n /\ hand'[l].step = "mark" /\ \A k \in Listeners \ {l} : hand'[k] = hand[k]
    BY <1>1, <1>3 DEF Receive, Set, TypeOK
  <2>3. m # n => queue'[m] = queue[m]
    BY <1>1, <1>3 DEF Receive, TypeOK
  <2>4. m = n => Owes(l, m)'
    BY <2>2 DEF Owes
  <2>5. queue'[m] >= queue[m] \/ Owes(l, m)'
    BY <1>1, <2>3, <2>4
  <2> QED
    BY <2>1, <2>2, <2>5
<1>4. ASSUME NEW l \in Listeners, Deliver(l)
      PROVE  /\ UNCHANGED <<outbox, queue>>
             /\ \A k \in Listeners \ {l} : hand'[k] = hand[k]
  <2>1. UNCHANGED <<outbox, queue>>
    BY <1>4 DEF Deliver, TryMark, TryMarkThrows, Send, SendThrows, SendThrowsLate, Release,
                ReleaseThrows, Retry, MoveToErrorQueue, Acknowledge, sender
  <2>2. PICK new \in Hands : Set(l, new)
    BY <1>1, <1>4, DeliverHands
  <2> QED
    BY <1>1, <2>1, <2>2 DEF Set, TypeOK
<1>5. CASE \E n \in Mails : Commit(n) \/ Relay(n) \/ Replay(n)
  BY <1>1, <1>2, <1>5, Untouched
<1>6. CASE \E l \in Listeners : \E n \in Mails : Receive(l, n)
  BY <1>1, <1>3, <1>6, Untouched
<1>7. CASE \E l \in Listeners : Deliver(l)
  BY <1>1, <1>4, <1>7, Untouched, DeliverNearer
<1>8. CASE Crash
  BY <1>1, <1>8, CrashNearer DEF Crash, sender
<1>9. CASE UNCHANGED vars
  BY <1>1, <1>9, Untouched DEF vars
<1> QED
  BY <1>5, <1>6, <1>7, <1>8, <1>9 DEF Next

\* No mail is mislaid, and every listener that owes one something comes nearer to it
\* with each step of its own: to its being sent in the end, only the fairness of the
\* outbox, the broker and the listeners is left to add.
THEOREM MailsGoOn == Spec => MailGoesOn
<1> DEFINE Step ==
      \A m \in Mails :
        /\ m \in outbox => m \in outbox' \/ queue'[m] > queue[m]
        /\ queue'[m] >= queue[m] \/ \E l \in Listeners : hand[l] = Idle /\ Owes(l, m)'
        /\ \A l \in Listeners : Owes(l, m) => Nearer(l, m)
<1>1. TypeInv /\ SafeInv /\ TraceInv /\ [Next]_vars => Step
  BY GoesOn
<1> QED
  BY <1>1, InitSafe, StepSafe, InitTypes, StepTypes, InitTraces, StepTraces,
     PTL DEF Spec, MailGoesOn
=============================================================================

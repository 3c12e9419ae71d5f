--------------------------- MODULE Notifications ---------------------------
(***************************************************************************)
(* Mail: a command commits its mail with its events into the outbox, the   *)
(* outbox relays it to the broker, and the notification worker sends it    *)
(* once, with a claim on the event id in notifications.processed_events.   *)
(*                                                                         *)
(* The worker has several listeners.  What one of them does with a mail is *)
(* a sequence of steps against two other systems, the claims database and  *)
(* the SMTP host, each of which may fail before or after it took effect;   *)
(* the worker may stop between any two.  Mail of different events shares   *)
(* nothing but the listeners.                                              *)
(***************************************************************************)
EXTENDS Naturals, FiniteSets

CONSTANTS
  Mails,        \* event ids
  Listeners,    \* listeners of a queue
  Cooldowns,    \* retries a passing failure is granted
  MaxRelays,    \* bound: how often the outbox relays one mail
  MaxCrashes,   \* bound: how often the worker stops
  MaxReplays    \* bound: how often dead letters are put back

ASSUME NotificationsAssumption ==
  /\ IsFiniteSet(Listeners)
  /\ Cooldowns \in Nat /\ MaxRelays \in Nat \ {0}
  /\ MaxCrashes \in Nat /\ MaxReplays \in Nat

VARIABLES
  outbox,    \* mails committed and not known to have reached the broker
  relayed,   \* how often the outbox has relayed each mail
  queue,     \* copies of each mail waiting in the broker
  dead,      \* mails in the dead letter queue
  claimed,   \* notifications.processed_events
  hand,      \* what each listener is doing
  crashes, replays,
  sent,      \* history: how often the SMTP host accepted each mail
  late,      \* history: accepted mails whose send then threw
  orphaned,  \* history: mails that lost a delivery or kept a claim nobody serves
  committed  \* history: mails some command committed

vars == <<outbox, relayed, queue, dead, claimed, hand, crashes, replays, sent, late, orphaned,
          committed>>

sender == <<outbox, relayed, committed>>
bounds == <<crashes, replays>>
history == <<sent, late, orphaned>>

NoMail == "none"
Idle == [mail |-> NoMail, step |-> "idle", tries |-> 0, passing |-> FALSE]

\* passing: whether the failure in hand is one that a retry may cure.
Hands == [mail : Mails \cup {NoMail},
          step : {"idle", "mark", "send", "release", "failed", "ack"},
          tries : 0..Cooldowns, passing : BOOLEAN]

InHand(m) == {l \in Listeners : hand[l].mail = m}
Copies(m) == queue[m] + Cardinality(InHand(m))

Init ==
  /\ outbox = {}
  /\ relayed = [m \in Mails |-> 0]
  /\ queue = [m \in Mails |-> 0]
  /\ dead = {}
  /\ claimed = {}
  /\ hand = [l \in Listeners |-> Idle]
  /\ crashes = 0 /\ replays = 0
  /\ sent = [m \in Mails |-> 0]
  /\ late = [m \in Mails |-> 0]
  /\ orphaned = {}
  /\ committed = {}

-----------------------------------------------------------------------------
(* The sender side and the broker.                                         *)

\* The command commits; its mail is in the same transaction.
Commit(m) ==
  /\ m \notin committed
  /\ committed' = committed \cup {m}
  /\ outbox' = outbox \cup {m}
  /\ UNCHANGED <<bounds, history, relayed, queue, dead, claimed, hand>>

\* The outbox keeps the mail until it knows that the broker has it, so the
\* broker may get it more than once.
Relay(m) ==
  /\ m \in outbox
  /\ relayed' = [relayed EXCEPT ![m] = @ + 1]
  /\ queue' = [queue EXCEPT ![m] = @ + 1]
  /\ outbox' \in {outbox \ {m}} \cup (IF relayed'[m] < MaxRelays THEN {outbox} ELSE {})
  /\ UNCHANGED <<bounds, history, dead, claimed, hand, committed>>

\* Somebody puts a dead letter back on its queue.
Replay(m) ==
  /\ m \in dead
  /\ replays < MaxReplays
  /\ replays' = replays + 1
  /\ dead' = dead \ {m}
  /\ queue' = [queue EXCEPT ![m] = @ + 1]
  /\ UNCHANGED <<sender, history, claimed, hand, crashes>>

-----------------------------------------------------------------------------
(* One delivery: SendOnceAsync and the failure policies around it.         *)

Set(l, new) == hand' = [hand EXCEPT ![l] = new]
GoTo(l, step) == Set(l, [hand[l] EXCEPT !.step = step])
Throw(l, passing) == Set(l, [hand[l] EXCEPT !.step = "failed", !.passing = passing])
At(l, step) == hand[l].step = step

Receive(l, m) ==
  /\ hand[l] = Idle
  /\ queue[m] > 0
  /\ queue' = [queue EXCEPT ![m] = @ - 1]
  /\ Set(l, [mail |-> m, step |-> "mark", tries |-> 0, passing |-> FALSE])
  /\ UNCHANGED <<sender, bounds, history, dead, claimed>>

\* TryMarkAsync.  Losing the race for the claim ends the delivery well.
MayMarkAlways(m) == TRUE
MayMark(m) == m \notin claimed

TryMark(l) ==
  LET m == hand[l].mail IN
  /\ At(l, "mark")
  /\ IF MayMark(m)
       THEN claimed' = claimed \cup {m} /\ GoTo(l, "send")
       ELSE GoTo(l, "ack") /\ UNCHANGED claimed
  /\ UNCHANGED <<sender, bounds, history, queue, dead>>

\* The database is gone before the claim is written, or right after it.  This
\* exception is thrown before the block that gives claims back.
TryMarkThrows(l) ==
  LET m == hand[l].mail IN
  /\ At(l, "mark")
  /\ \/ UNCHANGED <<claimed, orphaned>>
     \/ /\ MayMark(m)
        /\ claimed' = claimed \cup {m}
        /\ orphaned' = orphaned \cup {m}
  /\ Throw(l, TRUE)
  /\ UNCHANGED <<sender, bounds, queue, dead, sent, late>>

Send(l) ==
  /\ At(l, "send")
  /\ sent' = [sent EXCEPT ![hand[l].mail] = @ + 1]
  /\ GoTo(l, "ack")
  /\ UNCHANGED <<sender, bounds, queue, dead, claimed, late, orphaned>>

\* Rendering throws, or the SMTP host refuses, or the connection breaks before it
\* accepts the mail.
SendThrows(l) ==
  /\ At(l, "send")
  /\ \E passing \in BOOLEAN :
       Set(l, [hand[l] EXCEPT !.step = "release", !.passing = passing])
  /\ UNCHANGED <<sender, bounds, history, queue, dead, claimed>>

\* The mail is accepted and the connection breaks while it is taken down.
SendThrowsLate(l) ==
  LET m == hand[l].mail IN
  /\ At(l, "send")
  /\ sent' = [sent EXCEPT ![m] = @ + 1]
  /\ late' = [late EXCEPT ![m] = @ + 1]
  /\ Set(l, [hand[l] EXCEPT !.step = "release", !.passing = TRUE])
  /\ UNCHANGED <<sender, bounds, queue, dead, claimed, orphaned>>

ReleasedKeepingClaim(m) == claimed
Released(m) == claimed \ {m}

Release(l) ==
  LET m == hand[l].mail IN
  /\ At(l, "release")
  /\ claimed' = Released(m)
  /\ GoTo(l, "failed")
  /\ UNCHANGED <<sender, bounds, history, queue, dead>>

\* The database is gone before the claim is given back, or right after; this
\* exception takes the place of the one that send threw.
ReleaseThrows(l) ==
  LET m == hand[l].mail IN
  /\ At(l, "release")
  /\ \/ orphaned' = orphaned \cup {m} /\ UNCHANGED claimed
     \/ claimed' = Released(m) /\ UNCHANGED orphaned
  /\ Throw(l, TRUE)
  /\ UNCHANGED <<sender, bounds, queue, dead, sent, late>>

\* The first matching rule: a passing failure is retried until its cooldowns are
\* used up, any other one goes to the dead letter queue at once.
MayRetryForEver(l) == hand[l].passing
MayRetry(l) == hand[l].passing /\ hand[l].tries < Cooldowns

DeadLettersDropping(m) == dead
DeadLetters(m) == dead \cup {m}

Retry(l) ==
  /\ At(l, "failed") /\ MayRetry(l)
  /\ Set(l, [hand[l] EXCEPT !.step = "mark", !.tries = @ + 1, !.passing = FALSE])
  /\ UNCHANGED <<sender, bounds, history, queue, dead, claimed>>

MoveToErrorQueue(l) ==
  /\ At(l, "failed") /\ ~MayRetry(l)
  /\ dead' = DeadLetters(hand[l].mail)
  /\ Set(l, Idle)
  /\ UNCHANGED <<sender, bounds, history, queue, claimed>>

Acknowledge(l) ==
  /\ At(l, "ack")
  /\ Set(l, Idle)
  /\ UNCHANGED <<sender, bounds, history, queue, dead, claimed>>

-----------------------------------------------------------------------------
\* The worker stops.  What the listeners had in hand goes back to the queue, or is
\* gone if it was acknowledged when it was received; claims stay as they are.
HadClaim(l) == hand[l].step \in {"send", "release"}

Crash ==
  /\ crashes < MaxCrashes
  /\ crashes' = crashes + 1
  /\ \E back \in SUBSET {l \in Listeners : hand[l] # Idle} :
       /\ queue' = [m \in Mails |-> queue[m] + Cardinality(InHand(m) \cap back)]
       /\ orphaned' = orphaned \cup
            {hand[l].mail : l \in {k \in Listeners : hand[k] # Idle /\
                                     (HadClaim(k) \/ (k \notin back /\ ~At(k, "ack")))}}
  /\ hand' = [l \in Listeners |-> Idle]
  /\ UNCHANGED <<sender, dead, claimed, replays, sent, late>>

-----------------------------------------------------------------------------
Deliver(l) ==
  \/ TryMark(l) \/ TryMarkThrows(l)
  \/ Send(l) \/ SendThrows(l) \/ SendThrowsLate(l)
  \/ Release(l) \/ ReleaseThrows(l)
  \/ Retry(l) \/ MoveToErrorQueue(l) \/ Acknowledge(l)

Next ==
  \/ \E m \in Mails : Commit(m) \/ Relay(m) \/ Replay(m)
  \/ \E l \in Listeners : Deliver(l) \/ \E m \in Mails : Receive(l, m)
  \/ Crash

Spec == Init /\ [][Next]_vars

\* The durable outbox relays what it holds; the listeners take what is queued, and
\* what is in hand goes on, well or not.
FairSpec ==
  /\ Spec
  /\ \A m \in Mails : /\ WF_vars(Relay(m))
                      /\ WF_vars(\E l \in Listeners : Receive(l, m))
  /\ \A l \in Listeners : WF_vars(Deliver(l))

-----------------------------------------------------------------------------
(* Properties.                                                             *)

TypeOK ==
  /\ outbox \subseteq Mails
  /\ relayed \in [Mails -> 0..MaxRelays]
  /\ queue \in [Mails -> Nat]
  /\ dead \subseteq Mails
  /\ claimed \subseteq Mails
  /\ hand \in [Listeners -> Hands]
  /\ crashes \in 0..MaxCrashes /\ replays \in 0..MaxReplays
  /\ sent \in [Mails -> Nat]
  /\ late \in [Mails -> Nat]
  /\ orphaned \subseteq Mails
  /\ committed \subseteq Mails

\* A mail leaves the building a second time only if the SMTP host had accepted it
\* from a delivery whose send then threw: duplicates from the broker, redeliveries
\* after a stop and replayed dead letters never send it again by themselves.
TwiceOnlyAfterLateFailure == \A m \in Mails : sent[m] <= late[m] + 1

\* When nothing of a mail is on its way any more, it was sent, or it is a dead
\* letter, or a stop or a database failure took its delivery or left its claim.
Accounted ==
  \A m \in committed :
    (m \notin outbox /\ Copies(m) = 0)
      => sent[m] > 0 \/ m \in dead \/ m \in orphaned

\* A mark is not left behind for a mail that was never sent and that nobody is
\* sending, except by a stop or a database failure: a replay can still send it.
ClaimServed ==
  \A m \in claimed :
    \/ sent[m] > 0 \/ m \in orphaned
    \/ \E l \in Listeners : hand[l].mail = m /\ HadClaim(l)

\* A listener that has still to send the mail, or to say why not, and how many steps
\* of its own it is away from that at most.
Owes(l, m) == hand[l].mail = m /\ hand[l].step \in {"mark", "send", "release", "failed"}
StepsLeft(l) ==
  6 * (Cooldowns - hand[l].tries) + CASE At(l, "mark") -> 4
                                      [] At(l, "send") -> 3
                                      [] At(l, "release") -> 2
                                      [] OTHER -> 1

\* No mail is mislaid between the outbox, the broker and the listeners: it leaves the
\* outbox only into a queue and a queue only into a hand, and a hand comes nearer to
\* its end with each step of its own and not away from it with anybody else's, until
\* the mail is settled, is queued again, or is left to another that has the claim.
Settled(m) == sent[m] > 0 \/ m \in dead \/ m \in orphaned
Nearer(l, m) ==
  \/ hand'[l] = hand[l] /\ ~Deliver(l)
  \/ Owes(l, m)' /\ StepsLeft(l)' < StepsLeft(l)
  \/ Settled(m)' \/ queue'[m] > queue[m]
  \/ \E k \in Listeners \ {l} : Owes(k, m)' /\ HadClaim(k)

MailGoesOn ==
  [][\A m \in Mails :
       /\ m \in outbox => m \in outbox' \/ queue'[m] > queue[m]
       /\ queue'[m] >= queue[m] \/ \E l \in Listeners : hand[l] = Idle /\ Owes(l, m)'
       /\ \A l \in Listeners : Owes(l, m) => Nearer(l, m)]_vars

\* A committed mail is sent in the end, or becomes a dead letter, or is lost to a
\* stop or a database failure.
CommittedIsDelivered ==
  \A m \in Mails : m \in outbox ~> (sent[m] > 0 \/ m \in dead \/ m \in orphaned)

\* The readme: delivery is at least once without double sends.
NoDoubleSends == \A m \in Mails : sent[m] <= 1
=============================================================================

------------------------------- MODULE Feeds -------------------------------
(***************************************************************************)
(* Job feeds: the scheduler queues a task for every organization, the      *)
(* generators take tasks off the queue in batches, write the two files of  *)
(* the organization to object storage and close the task.                  *)
(*                                                                         *)
(* The queue is a table.  Every statement on it commits by itself: taking  *)
(* a batch is one UPDATE over rows locked with SKIP LOCKED, and closing a  *)
(* task is an UPDATE that only finds the row while it is PROCESSING.       *)
(* Between those statements a generator reads posts and stores files, and  *)
(* may fail or stop at any point.  A unique index allows an organization   *)
(* one active row, and only the newest row of an organization is ever      *)
(* active, so a row is named here by its organization; a generator whose   *)
(* row was closed under it (phase "closed") will find nothing by its id.   *)
(***************************************************************************)
EXTENDS Naturals, Sequences, FiniteSets

CONSTANTS
  Organizations,    \* organizations the scheduler finds active
  Generators,       \* worker replicas running the generation loop
  BatchSize,        \* rows a generator takes at once
  MaxEdits,         \* bound: changes of the published posts of an organization
  CanBeInterrupted  \* whether a worker may stop or lose the queue's database

ASSUME FeedsAssumption ==
  /\ IsFiniteSet(Organizations)
  /\ BatchSize \in Nat \ {0}
  /\ MaxEdits \in Nat
  /\ CanBeInterrupted \in BOOLEAN

VARIABLES
  published,   \* how often the published posts in feeds.job_posts changed
  row,         \* the newest row of each organization in jobs.job_feed_tasks
  turn,        \* the places of the active rows in order of created_at, 0 for others
  batch,       \* what each generator still has of its batch, current task first
  phase,       \* what each generator does next with its current task
  content,     \* the posts each generator read for its current task
  xml, json,   \* the posts each stored file was made from
  since,       \* history: the posts published when each row was inserted
  interrupted  \* history: the rows whose generator was interrupted

vars == <<published, row, turn, batch, phase, content, xml, json,
          since, interrupted>>

\* NONE: the scheduler has not come round to the organization yet.
Statuses == {"NONE", "PENDING", "PROCESSING", "COMPLETED", "FAILED"}
ActiveStatuses == {"PENDING", "PROCESSING"}
Phases == {"generate", "xml", "json", "complete", "failed", "closed"}

\* A failing attempt is counted twice, when it is fetched and when it fails.
AttemptLimit == 3
Rows == [status : Statuses, attempts : 0..(AttemptLimit + 1)]

Active(o) == row[o].status \in ActiveStatuses
Elements(s) == {s[i] : i \in DOMAIN s}

Init ==
  /\ published = [o \in Organizations |-> 0]
  /\ row = [o \in Organizations |-> [status |-> "NONE", attempts |-> 0]]
  /\ turn = [o \in Organizations |-> 0]
  /\ batch = [g \in Generators |-> <<>>]
  /\ phase = [g \in Generators |-> "generate"]
  /\ content = [g \in Generators |-> 0]
  /\ xml = [o \in Organizations |-> 0]
  /\ json = [o \in Organizations |-> 0]
  /\ since = [o \in Organizations |-> 0]
  /\ interrupted = {}

-----------------------------------------------------------------------------
\* The projection writes a publish, an edit or a withdrawal of a post.
Edit(o) ==
  /\ published[o] < MaxEdits
  /\ published' = [published EXCEPT ![o] = @ + 1]
  /\ UNCHANGED <<row, turn, batch, phase, content, xml, json, since, interrupted>>

\* One INSERT of the scheduler.  The unique index over the active rows turns it
\* into nothing while the organization has one.
MayInsertUnlessPending(o) == row[o].status # "PENDING"
MayInsert(o) == ~Active(o)

Schedule(o) ==
  /\ MayInsert(o)
  /\ row' = [row EXCEPT ![o] = [status |-> "PENDING", attempts |-> 0]]
  /\ turn' = [turn EXCEPT ![o] = 1 + Cardinality({u \in Organizations : Active(u)})]
  /\ since' = [since EXCEPT ![o] = published[o]]
  /\ interrupted' = interrupted \ {o}
  /\ UNCHANGED <<published, batch, phase, content, xml, json>>

-----------------------------------------------------------------------------
(* The generation loop.                                                    *)

\* The rows a fetch may lock.
ClaimableEvenProcessing == {o \in Organizations : Active(o)}
Claimable == {o \in Organizations : row[o].status = "PENDING"}

\* A fetch takes the oldest of them, oldest first, as many as it may.
Oldest(taken) ==
  /\ \A i, j \in DOMAIN taken : i < j => turn[taken[i]] < turn[taken[j]]
  /\ \A o \in Claimable \ Elements(taken) :
       Len(taken) = BatchSize /\ turn[taken[BatchSize]] < turn[o]

Fetch(g) ==
  \E n \in 1..BatchSize : \E taken \in [1..n -> Claimable] :
    /\ batch[g] = <<>>
    /\ Oldest(taken)
    /\ row' = [o \in Organizations |->
                 IF o \in Elements(taken)
                   THEN [row[o] EXCEPT !.status = "PROCESSING", !.attempts = @ + 1]
                   ELSE row[o]]
    /\ batch' = [batch EXCEPT ![g] = taken]
    /\ phase' = [phase EXCEPT ![g] = "generate"]
    /\ UNCHANGED <<published, turn, content, xml, json, since, interrupted>>

Feed(g) == Head(batch[g])
Doing(g, step) == batch[g] # <<>> /\ phase[g] = step

Generate(g) ==
  /\ Doing(g, "generate")
  /\ content' = [content EXCEPT ![g] = published[Feed(g)]]
  /\ phase' = [phase EXCEPT ![g] = "xml"]
  /\ UNCHANGED <<published, row, turn, batch, xml, json, since, interrupted>>

StoreXml(g) ==
  /\ Doing(g, "xml")
  /\ xml' = [xml EXCEPT ![Feed(g)] = content[g]]
  /\ phase' = [phase EXCEPT ![g] = "json"]
  /\ UNCHANGED <<published, row, turn, batch, content, json, since, interrupted>>

StoreJson(g) ==
  /\ Doing(g, "json")
  /\ json' = [json EXCEPT ![Feed(g)] = content[g]]
  /\ phase' = [phase EXCEPT ![g] = "complete"]
  /\ UNCHANGED <<published, row, turn, batch, content, xml, since, interrupted>>

\* The end of an attempt in the table.
Close(o, status, attempts) ==
  /\ row' = [row EXCEPT ![o] = [status |-> status, attempts |-> attempts]]
  /\ turn' = IF status = "PENDING" THEN turn
             ELSE [u \in Organizations |->
                     IF u = o THEN 0
                     ELSE IF turn[u] > turn[o] THEN turn[u] - 1 ELSE turn[u]]

EndBatch(g) ==
  /\ batch' = [batch EXCEPT ![g] = <<>>]
  /\ phase' = [phase EXCEPT ![g] = "generate"]
  /\ content' = [content EXCEPT ![g] = 0]
NextTask(g) ==
  /\ batch' = [batch EXCEPT ![g] = Tail(@)]
  /\ phase' = [phase EXCEPT ![g] = "generate"]
  /\ content' = [content EXCEPT ![g] = 0]

\* What was read goes with the attempt.
GiveUp(g, as) ==
  /\ phase' = [phase EXCEPT ![g] = as]
  /\ content' = [content EXCEPT ![g] = 0]
  /\ UNCHANGED batch

\* The database may answer, or commit and then lose the connection.
MarkCompleted(g) ==
  /\ Doing(g, "complete")
  /\ Close(Feed(g), "COMPLETED", row[Feed(g)].attempts)
  /\ NextTask(g) \/ GiveUp(g, "closed")
  /\ UNCHANGED <<published, xml, json, since, interrupted>>

\* Reading posts, storing a file or reaching the database throws.
Fail(g) ==
  /\ batch[g] # <<>> /\ phase[g] \notin {"failed", "closed"}
  /\ GiveUp(g, "failed")
  /\ UNCHANGED <<published, row, turn, xml, json, since, interrupted>>

AfterFailureWithoutLimit(attempts) == "PENDING"
AfterFailure(attempts) == IF attempts + 1 >= AttemptLimit THEN "FAILED" ELSE "PENDING"

MarkFailed(g) ==
  LET attempts == row[Feed(g)].attempts IN
  /\ Doing(g, "failed")
  /\ Close(Feed(g), AfterFailure(attempts), attempts + 1)
  /\ NextTask(g)
  /\ UNCHANGED <<published, xml, json, since, interrupted>>

\* The row is PROCESSING no more, so there is nothing to fail.
MarkFailedTooLate(g) ==
  /\ Doing(g, "closed")
  /\ NextTask(g)
  /\ UNCHANGED <<published, row, turn, xml, json, since, interrupted>>

\* MarkFailed itself throws and ends the whole batch, or the worker stops: what
\* was left of the batch stays PROCESSING in the table.
Interrupt(g) ==
  /\ CanBeInterrupted
  /\ batch[g] # <<>>
  /\ interrupted' = interrupted \cup
       Elements(IF phase[g] = "closed" THEN Tail(batch[g]) ELSE batch[g])
  /\ batch' = [batch EXCEPT ![g] = <<>>]
  /\ phase' = [phase EXCEPT ![g] = "generate"]
  /\ content' = [content EXCEPT ![g] = 0]
  /\ UNCHANGED <<published, row, turn, xml, json, since>>

-----------------------------------------------------------------------------
Advance(g) == \/ Generate(g) \/ StoreXml(g) \/ StoreJson(g)
              \/ MarkCompleted(g) \/ Fail(g)
              \/ MarkFailed(g) \/ MarkFailedTooLate(g)

Next ==
  \/ \E o \in Organizations : Edit(o) \/ Schedule(o)
  \/ \E g \in Generators : Fetch(g) \/ Advance(g) \/ Interrupt(g)

Spec == Init /\ [][Next]_vars

\* Two timers drive the module: the scheduler's ticks come round for every
\* organization, the generator's ticks fetch when a batch is done, and a batch
\* that is not interrupted goes on, with success or without.
FairSpec ==
  /\ Spec
  /\ \A o \in Organizations : WF_vars(Schedule(o))
  /\ \A g \in Generators : WF_vars(Fetch(g)) /\ WF_vars(Advance(g))

-----------------------------------------------------------------------------
(* Properties.                                                             *)

TypeOK ==
  /\ published \in [Organizations -> 0..MaxEdits]
  /\ row \in [Organizations -> Rows]
  /\ turn \in [Organizations -> Nat]
  /\ batch \in [Generators -> Seq(Organizations)]
  /\ phase \in [Generators -> Phases]
  /\ content \in [Generators -> 0..MaxEdits]
  /\ xml \in [Organizations -> 0..MaxEdits]
  /\ json \in [Organizations -> 0..MaxEdits]
  /\ since \in [Organizations -> 0..MaxEdits]
  /\ interrupted \subseteq Organizations

Writing(g) == batch[g] # <<>> /\ phase[g] \in {"xml", "json"}

\* Although any number of replicas take tasks at will, no two of them ever write
\* the files of one organization at the same time.
OneWriterPerFeed ==
  \A g, h \in Generators :
    (g # h /\ Writing(g) /\ Writing(h)) => Feed(g) # Feed(h)

\* The two files of an organization show the same posts, except while one of its
\* tasks is still active and after one failed for good.
FilesAgree ==
  \A o \in Organizations :
    xml[o] # json[o] => Active(o) \/ row[o].status = "FAILED"

\* A completed task shows whatever was published when the scheduler asked for it.
FeedIsFresh ==
  \A o \in Organizations :
    row[o].status = "COMPLETED" => xml[o] >= since[o] /\ json[o] >= since[o]

\* A stored file is never replaced by one made from older posts.
NotOlder == \A o \in Organizations : xml'[o] >= xml[o] /\ json'[o] >= json[o]
NeverOlder == [][NotOlder]_vars

\* However its generators interleave, fail and stop, the queue keeps what the feeds
\* promise: one task at a time for an organization, files that go forward only, the
\* second showing what the first shows, complete when both show what was asked for.
Task(o) == IF Active(o) THEN "ACTIVE" ELSE row[o].status
Promise == INSTANCE Publication
             WITH asked <- since, task <- [o \in Organizations |-> Task(o)]
ImplementsPublication == Promise!Spec

\* A task that waits is completed or given up in the end, unless the generator
\* that took it is interrupted.
TaskIsClosed ==
  \A o \in Organizations : row[o].status = "PENDING" ~> (~Active(o) \/ o \in interrupted)

\* Generator g has the row of o to close, i-th in line, and is so many steps
\* of its own away from closing it.
Has(g, i, o) ==
  i \in DOMAIN batch[g] /\ batch[g][i] = o /\ ~(i = 1 /\ phase[g] = "closed")
StepsLeft(g, i) ==
  6 * (i - 1) + CASE phase[g] = "generate" -> 6
                  [] phase[g] = "xml" -> 5
                  [] phase[g] = "json" -> 4
                  [] phase[g] = "complete" -> 3
                  [] phase[g] = "failed" -> 2
                  [] phase[g] = "closed" -> 1

\* No task is mislaid between the table and the generators: one that waits stays as
\* it is until somebody has it, and whoever has it comes nearer to its end with each
\* step of their own and not away from it with anybody else's, until it is closed,
\* waits again with an attempt more, or is interrupted.
Kept(o) == row'[o] = row[o] \/ \E g \in Generators : \E i \in DOMAIN batch'[g] : Has(g, i, o)'
Nearer(g, i, o) ==
  \/ batch'[g] = batch[g] /\ phase'[g] = phase[g] /\ ~Advance(g)
  \/ \E j \in DOMAIN batch'[g] : Has(g, j, o)' /\ StepsLeft(g, j)' < StepsLeft(g, i)
  \/ row'[o].status \in {"COMPLETED", "FAILED"} \/ o \in interrupted'
  \/ row'[o].status = "PENDING" /\ row'[o].attempts > row[o].attempts

TaskGoesOn ==
  [][/\ \A o \in Organizations : row[o].status = "PENDING" => Kept(o)
     /\ \A g \in Generators, o \in Organizations : \A i \in DOMAIN batch[g] :
          Has(g, i, o) => Nearer(g, i, o)]_vars

\* What the specification of the feeds promises every organization: the scheduler
\* queues it a task again and again.
QueuedAgain == \A o \in Organizations : Active(o) ~> ~Active(o)
=============================================================================

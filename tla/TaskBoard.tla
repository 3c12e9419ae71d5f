----------------------------- MODULE TaskBoard -----------------------------
(***************************************************************************)
(* A salesperson's task board: boards of several ranges in the browser's   *)
(* query cache, one of them on the screen, ticks shown before the API has  *)
(* answered and put back when it refuses, and the API behind them, whose   *)
(* boards are read from a projection that follows the tasks at a distance. *)
(*                                                                         *)
(* A board is the set of its tasks shown as done.  A board is read when    *)
(* it comes on the screen, when the window gets the focus and when a tick  *)
(* has settled; a read of the same board under way is joined in the first  *)
(* two cases and dropped in the third (TanStack Query, external).          *)
(***************************************************************************)
EXTENDS Naturals, Sequences

CONSTANTS
  Tasks,         \* the tasks, every range shows all of them
  Ranges,        \* the ranges: a day, a week, a month
  Ticks,         \* slots for the ticks under way
  NoTick,        \* an empty slot; no read under way
  MaxElsewhere,  \* bound: tasks ticked on another device
  MaxBehind      \* bound: changes the projection has not taken in

\* A tick that is not settled yet, and a read of a board.
Asked == [task : Tasks, done : BOOLEAN, phase : {"sent", "answered"},
          previous : [Ranges -> SUBSET Tasks]]
Waiting == [phase |-> "waiting"]
Reads == [answered : BOOLEAN, done : SUBSET Tasks]

ASSUME TaskBoardAssumption ==
  /\ Ranges /= {}
  /\ MaxElsewhere \in Nat /\ MaxBehind \in Nat
  /\ NoTick \notin Ticks \cup Asked \cup {Waiting} \cup Reads

VARIABLES
  completed,  \* the tasks that are done
  behind,     \* what the projection has not taken in: who changed which task
  listed,     \* the tasks done in the projection
  elsewhere,  \* how many ticks came from another device
  board,      \* per range, the cached board
  range,      \* the range on the screen
  fetch,      \* per range, the read under way
  tick,       \* the mutations under way
  outdated    \* history: why the board on the screen may be behind for good

api == <<completed, behind, listed, elsewhere>>
boardVars == <<api, board, range, fetch, tick, outdated>>

-----------------------------------------------------------------------------
Put(tasks, t, done) == IF done THEN tasks \cup {t} ELSE tasks \ {t}

\* The API refuses to complete what is done and to reopen what is not.
Change(t, done, by) ==
  /\ (t \in completed) /= done
  /\ Len(behind) < MaxBehind
  /\ completed' = Put(completed, t, done)
  /\ behind' = Append(behind, [task |-> t, done |-> done, by |-> by])
  /\ UNCHANGED listed

Project ==
  /\ behind /= <<>>
  /\ listed' = Put(listed, Head(behind).task, Head(behind).done)
  /\ behind' = Tail(behind)
  /\ UNCHANGED <<completed, elsewhere, board, range, fetch, tick, outdated>>

TickElsewhere(t) ==
  /\ elsewhere < MaxElsewhere /\ elsewhere' = elsewhere + 1
  /\ Change(t, t \notin completed, NoTick)
  /\ outdated' = TRUE
  /\ UNCHANGED <<board, range, fetch, tick>>

-----------------------------------------------------------------------------
(* The boards in the cache.                                                *)

NewFetch == [answered |-> FALSE, done |-> {}]
NoFetch == NoTick
Reading(r) == fetch[r] /= NoFetch
Join(r) == IF Reading(r) THEN fetch ELSE [fetch EXCEPT ![r] = NewFetch]

FocusBoard ==
  /\ ~Reading(range)
  /\ fetch' = Join(range)
  /\ UNCHANGED <<api, board, range, tick, outdated>>

\* A board that comes on the screen is read again; the one that leaves keeps
\* its read.
OnRangeChange(r) ==
  /\ r /= range
  /\ range' = r
  /\ fetch' = Join(r)
  /\ outdated' = (outdated \/ Reading(r))
  /\ UNCHANGED <<api, board, tick>>

ReadBoard(r) ==
  /\ Reading(r) /\ ~fetch[r].answered
  /\ fetch' = [fetch EXCEPT ![r] = [answered |-> TRUE, done |-> listed]]
  /\ UNCHANGED <<api, board, range, tick, outdated>>

ShowBoard(r) ==
  /\ Reading(r) /\ fetch[r].answered
  /\ board' = [board EXCEPT ![r] = fetch[r].done]
  /\ fetch' = [fetch EXCEPT ![r] = NoFetch]
  /\ outdated' = (outdated /\ ~(r = range /\ fetch[r].done = completed /\ behind = <<>>))
  /\ UNCHANGED <<api, range, tick>>

FailBoard(r) ==
  /\ Reading(r)
  /\ fetch' = [fetch EXCEPT ![r] = NoFetch]
  /\ outdated' = (outdated \/ r = range)
  /\ UNCHANGED <<api, board, range, tick>>

-----------------------------------------------------------------------------
(* Ticks.                                                                  *)

UnderWayTick(k) == tick[k] /= NoTick

Moved(tasks, t, done) == Put(tasks, t, done)

\* onMutate: reads of every board are dropped, the boards are remembered and
\* the task is moved on all of them.
OnMutate(k, t) ==
  LET done == t \notin board[range] IN
  /\ ~UnderWayTick(k)
  /\ fetch' = [r \in Ranges |-> NoFetch]
  /\ tick' = [tick EXCEPT ![k] =
       [task |-> t, done |-> done, phase |-> "sent", previous |-> board]]
  /\ board' = [r \in Ranges |-> Moved(board[r], t, done)]
  /\ UNCHANGED <<api, range, outdated>>

Phase(k, phase) == UnderWayTick(k) /\ tick[k].phase = phase
Wait(k) == tick' = [tick EXCEPT ![k] = Waiting]

ServeTick(k) ==
  /\ Phase(k, "sent")
  /\ Change(tick[k].task, tick[k].done, k)
  /\ tick' = [tick EXCEPT ![k].phase = "answered"]
  /\ UNCHANGED <<elsewhere, board, range, fetch, outdated>>

\* A bug: a tick that failed is put back and nothing is read again.
OnErrorUnsettled(k) ==
  /\ Phase(k, "sent") \/ Phase(k, "answered")
  /\ board' = tick[k].previous
  /\ tick' = [tick EXCEPT ![k] = NoTick]
  /\ UNCHANGED <<api, range, fetch, outdated>>

\* Refused, or lost on its way or on its way back.
OnError(k) ==
  /\ Phase(k, "sent") \/ Phase(k, "answered")
  /\ board' = tick[k].previous
  /\ Wait(k)
  /\ UNCHANGED <<api, range, fetch, outdated>>

OnSuccess(k) ==
  /\ Phase(k, "answered")
  /\ Wait(k)
  /\ UNCHANGED <<api, board, range, fetch, outdated>>

\* The wait is there for the projection to catch up with this tick, but it is
\* a timer: it may run out before the projection has.
CaughtUp(k) == \A i \in DOMAIN behind : behind[i].by /= k

OnSettled(k) ==
  /\ Phase(k, "waiting")
  /\ fetch' = [fetch EXCEPT ![range] = NewFetch]
  /\ tick' = [tick EXCEPT ![k] = NoTick]
  /\ outdated' = (outdated \/ ~CaughtUp(k))
  /\ UNCHANGED <<api, board, range>>

-----------------------------------------------------------------------------
BoardInit ==
  /\ completed = {} /\ behind = <<>> /\ listed = {} /\ elsewhere = 0
  /\ board = [r \in Ranges |-> {}]
  /\ range \in Ranges
  /\ fetch = [r \in Ranges |-> NoFetch]
  /\ tick = [k \in Ticks |-> NoTick]
  /\ outdated = FALSE

BoardNext ==
  \/ Project \/ FocusBoard
  \/ \E t \in Tasks : TickElsewhere(t)
  \/ \E r \in Ranges :
       OnRangeChange(r) \/ ReadBoard(r) \/ ShowBoard(r) \/ FailBoard(r)
  \/ \E k \in Ticks :
       \/ \E t \in Tasks : OnMutate(k, t)
       \/ ServeTick(k) \/ OnError(k) \/ OnSuccess(k) \/ OnSettled(k)

BoardSpec == BoardInit /\ [][BoardNext]_boardVars

-----------------------------------------------------------------------------
Settled == behind = <<>> /\ ~Reading(range) /\ \A k \in Ticks : ~UnderWayTick(k)

\* A tick is "optimistic, rolled back when the API refuses, and read again once
\* the projection has caught up" (useTasks.ts:89-91): once every tick has
\* settled and nothing is being read, the board on the screen is what the tasks
\* are, whatever ticks were refused, lost or put back in whatever order, unless
\* the projection took longer than the wait of 1500 ms, a read failed, somebody
\* else ticked, or the board came back on the screen with a read of its earlier
\* visit under way.
BoardSettles == Settled /\ ~outdated => board[range] = completed
=============================================================================

---------------------------- MODULE Publication ----------------------------
(***************************************************************************)
(* What the Feeds module promises about the two files of an organization:  *)
(* a task is asked for when none is at work, files only ever go forward in *)
(* the history of the published posts, the second repeats what the first   *)
(* shows, and a task is complete when both show all that was published     *)
(* when it was asked for.  One writer: there is no queue here, there are   *)
(* no replicas, no attempts and no rows that are locked.                   *)
(***************************************************************************)
EXTENDS Naturals

CONSTANT Organizations

VARIABLES
  published,   \* how often the posts of each organization changed
  asked,       \* the posts published when its task was asked for
  xml, json,   \* the posts each of its files shows
  task         \* where its task is

view == <<published, asked, xml, json, task>>

Init ==
  /\ published = [o \in Organizations |-> 0]
  /\ asked = published /\ xml = published /\ json = published
  /\ task = [o \in Organizations |-> "NONE"]

AtWork(o) == task[o] = "ACTIVE"

Edit(o) ==
  /\ published' = [published EXCEPT ![o] = @ + 1]
  /\ UNCHANGED <<asked, xml, json, task>>

Ask(o) ==
  /\ ~AtWork(o)
  /\ task' = [task EXCEPT ![o] = "ACTIVE"]
  /\ asked' = [asked EXCEPT ![o] = published[o]]
  /\ UNCHANGED <<published, xml, json>>

StoreXml(o, posts) ==
  /\ AtWork(o)
  /\ posts >= xml[o] /\ posts >= json[o]
  /\ xml' = [xml EXCEPT ![o] = posts]
  /\ UNCHANGED <<published, asked, json, task>>

StoreJson(o) ==
  /\ AtWork(o)
  /\ json' = [json EXCEPT ![o] = xml[o]]
  /\ UNCHANGED <<published, asked, xml, task>>

Complete(o) ==
  /\ AtWork(o)
  /\ xml[o] = json[o] /\ xml[o] >= asked[o]
  /\ task' = [task EXCEPT ![o] = "COMPLETED"]
  /\ UNCHANGED <<published, asked, xml, json>>

GiveUp(o) ==
  /\ AtWork(o)
  /\ task' = [task EXCEPT ![o] = "FAILED"]
  /\ UNCHANGED <<published, asked, xml, json>>

Next ==
  \E o \in Organizations :
    \/ Edit(o) \/ Ask(o)
    \/ (\E posts \in asked[o]..published[o] : StoreXml(o, posts)) \/ StoreJson(o)
    \/ Complete(o) \/ GiveUp(o)

Spec == Init /\ [][Next]_view
=============================================================================

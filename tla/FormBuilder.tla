---------------------------- MODULE FormBuilder ----------------------------
(***************************************************************************)
(* One author's form builder: the layout on the screen, the copy of the    *)
(* form in the browser's query cache, and the form on the server, which    *)
(* colleagues and the catalogue of system fields change as well.           *)
(*                                                                         *)
(* A layout is the set of edits it carries and the state of the catalogue  *)
(* its system fields were taken from: one layout replaces another without  *)
(* an error whenever the code lets it, and an edit it does not carry is    *)
(* lost.  Saves, publications and reads are calls: served in any order,    *)
(* refused or never answered.  The cache holds one query, read again when  *)
(* a call succeeded and whenever the window gets the focus; starting a     *)
(* read for a call drops the read under way (TanStack Query, external).    *)
(***************************************************************************)
EXTENDS Naturals, FiniteSets

CONSTANTS
  Edits,        \* the changes the author may make
  Calls,        \* slots for the author's calls under way
  NoCall,       \* an empty slot; no read under way; nothing sent
  MaxOutside    \* bound: what others do and the network loses

-----------------------------------------------------------------------------
Layouts == [marks : SUBSET Edits, fields : Nat]
NoPages == [marks |-> {}, fields |-> 0]

\* The number of the last version is kept as whether there is one.
Forms == [pages : Layouts, published : BOOLEAN, unpublished : BOOLEAN,
          archived : BOOLEAN]

ReadsUnderWay == [answered : BOOLEAN, form : Forms]

CallsUnderWay == [op : {"save", "publish", "archive"}, pages : Layouts,
                  phase : {"sent", "done", "reading"}, publish : BOOLEAN,
                  watched : BOOLEAN]

ASSUME FormBuilderAssumption ==
  /\ MaxOutside \in Nat
  /\ NoCall \notin Layouts \cup ReadsUnderWay \cup CallsUnderWay

VARIABLES
  form,       \* the aggregate on the server
  catalogue,  \* how often the system fields were changed
  outside,    \* how many steps others took, and losses of the network
  cached,     \* the form in the query cache: the prop the builder renders
  read,       \* the query's read under way
  shown,      \* whether the builder is mounted
  layout,     \* the layout on the screen
  sent,       \* the layout last sent to be saved, until the form changes
  calls,      \* the author's calls
  disturbed,  \* history: something came between the author and the form
  safe        \* history: while nothing did, the edits made

server == <<form, catalogue, outside>>
screen == <<shown, layout, sent>>
history == <<disturbed, safe>>
formVars == <<server, cached, read, screen, calls, history>>

-----------------------------------------------------------------------------
(* The server.                                                             *)

\* A draft is stored with its system fields taken from today's catalogue.
PrepareDraft(pages) == [pages EXCEPT !.fields = catalogue]

SaveFormDraft(pages) ==
  form' = [form EXCEPT !.pages = PrepareDraft(pages), !.unpublished = TRUE]

NothingToPublish == form.published /\ ~form.unpublished

PublishForm ==
  form' = [form EXCEPT !.pages = PrepareDraft(@), !.published = TRUE,
                       !.unpublished = FALSE]

ArchiveForm == form' = [form EXCEPT !.archived = TRUE]

-----------------------------------------------------------------------------
(* The query of the form.                                                  *)

NewRead == [answered |-> FALSE, form |-> cached]

UnderWay(c) == calls[c] /= NoCall

Saving(c) == UnderWay(c) /\ calls[c].op = "save"

Outside == outside < MaxOutside /\ outside' = outside + 1

Disturb == disturbed' = TRUE /\ safe' = {}

Dirty == layout /= cached.pages

\* What the effect on a changed form does to the screen: the form is taken
\* over unless the author edited what was sent since it was sent.
TakesAlways(pages) == pages /= cached.pages
Takes(pages) == sent \in {NoCall, layout} /\ pages /= cached.pages

\* A call that waited for the read has ended; a save made to publish goes on,
\* and is the publication the screen follows from then on.
GoesOn(c) == Saving(c) /\ calls[c].phase = "reading" /\ calls[c].publish

AfterRead(c) ==
  CASE GoesOn(c) ->
         [calls[c] EXCEPT !.op = "publish", !.phase = "sent", !.publish = FALSE]
    [] UnderWay(c) /\ calls[c].phase /= "reading" ->
         [calls[c] EXCEPT !.watched =
            @ /\ ~(calls[c].op = "publish" /\ \E d \in Calls : GoesOn(d))]
    [] OTHER -> NoCall

Deliver ==
  LET new == read.form IN
  /\ read /= NoCall /\ read.answered
  /\ read' = NoCall
  /\ cached' = new
  /\ shown' = TRUE
  /\ IF ~shown THEN layout' = new.pages /\ sent' = NoCall
     ELSE /\ layout' = IF Takes(new.pages) THEN new.pages ELSE layout
          /\ sent' = IF new.pages /= cached.pages THEN NoCall ELSE sent
  /\ calls' = [c \in Calls |-> AfterRead(c)]
  /\ LET agreed == /\ \A c \in Calls : calls'[c] = NoCall
                   /\ layout' = form.pages /\ new.pages = form.pages
                   /\ form.pages.fields = catalogue
     IN  /\ disturbed' = (disturbed /\ ~agreed)
         /\ safe' = IF agreed THEN layout'.marks ELSE safe
  /\ UNCHANGED server

ReadForm ==
  /\ read /= NoCall /\ ~read.answered
  /\ read' = [answered |-> TRUE, form |-> form]
  /\ UNCHANGED <<server, cached, screen, calls, history>>

Focus ==
  /\ read = NoCall
  /\ read' = NewRead
  /\ UNCHANGED <<server, cached, screen, calls, history>>

\* The page shows the error in the builder's place: what was not saved is gone.
FailRead ==
  /\ read /= NoCall
  /\ read' = NoCall
  /\ shown' = FALSE /\ layout' = cached.pages /\ sent' = NoCall
  /\ calls' = [c \in Calls |->
       IF AfterRead(c) = NoCall THEN NoCall
       ELSE [AfterRead(c) EXCEPT !.watched = FALSE]]
  /\ Outside /\ Disturb
  /\ UNCHANGED <<form, catalogue, cached>>

-----------------------------------------------------------------------------
(* The author.                                                             *)

Edit(e) ==
  /\ shown /\ ~cached.archived
  /\ e \notin layout.marks
  /\ layout' = [layout EXCEPT !.marks = @ \cup {e}]
  /\ safe' = IF disturbed THEN safe ELSE safe \cup {e}
  /\ UNCHANGED <<server, cached, read, shown, sent, calls, disturbed>>

\* A call carries the layout that was on the screen; archiving needs none.
Call(op, pages, publish) ==
  [op |-> op, phase |-> "sent", pages |-> pages, publish |-> publish,
   watched |-> op /= "archive"]

\* A mutation's state follows its latest call.
Pending(op) == \E c \in Calls : UnderWay(c) /\ calls[c].op = op /\ calls[c].watched

Start(c, op, pages, publish) ==
  /\ ~UnderWay(c)
  /\ calls' = [d \in Calls |->
       IF d = c THEN Call(op, pages, publish)
       ELSE IF UnderWay(d) /\ calls[d].op = op
            THEN [calls[d] EXCEPT !.watched = FALSE] ELSE calls[d]]

SendDraft(c, publish) ==
  /\ Start(c, "save", layout, publish)
  /\ sent' = layout
  /\ IF \E d \in Calls : Saving(d) THEN Disturb ELSE UNCHANGED history
  /\ UNCHANGED <<server, cached, read, shown, layout>>

SaveDraft(c) ==
  /\ shown /\ ~cached.archived
  /\ Dirty /\ ~Pending("save")
  /\ SendDraft(c, FALSE)

PublishOffered ==
  /\ shown /\ ~cached.archived
  /\ ~Pending("publish")
  /\ Dirty \/ cached.unpublished \/ ~cached.published

\* A bug: the stored draft is published as it is.
OnPublishStored(c) ==
  /\ PublishOffered
  /\ Start(c, "publish", layout, FALSE)
  /\ UNCHANGED <<server, cached, read, screen, history>>
OnPublish(c) ==
  /\ PublishOffered
  /\ \/ Dirty /\ SendDraft(c, TRUE)
     \/ /\ ~Dirty
        /\ Start(c, "publish", layout, FALSE)
        /\ UNCHANGED <<server, cached, read, screen, history>>

OnArchive(c) ==
  /\ shown /\ ~cached.archived
  /\ Start(c, "archive", NoPages, FALSE)
  /\ UNCHANGED <<server, cached, read, screen, history>>

-----------------------------------------------------------------------------
(* What becomes of a call.                                                 *)

Waits(c, op) == UnderWay(c) /\ calls[c].op = op /\ calls[c].phase = "sent"

Done(c) == calls' = [calls EXCEPT ![c].phase = "done"]

ServeSave(c) ==
  /\ Waits(c, "save")
  /\ ~form.archived
  /\ SaveFormDraft(calls[c].pages)
  /\ Done(c)
  /\ UNCHANGED <<catalogue, outside, cached, read, screen, history>>

ServePublish(c) ==
  /\ Waits(c, "publish")
  /\ ~form.archived /\ ~NothingToPublish
  /\ PublishForm
  /\ Done(c)
  /\ UNCHANGED <<catalogue, outside, cached, read, screen, history>>

ServeArchive(c) ==
  /\ Waits(c, "archive")
  /\ ~form.archived
  /\ ArchiveForm
  /\ Done(c)
  /\ UNCHANGED <<catalogue, outside, cached, read, screen, history>>

\* Refused by a rule or a check of the layout, or lost on its way: nothing is
\* read again, and what was sent stays noted as sent.
Refuse(c) ==
  /\ UnderWay(c) /\ calls[c].phase = "sent"
  /\ calls' = [calls EXCEPT ![c] = NoCall]
  /\ UNCHANGED <<server, cached, read, screen, history>>

LoseAnswer(c) ==
  /\ UnderWay(c) /\ calls[c].phase = "done"
  /\ calls' = [calls EXCEPT ![c] = NoCall]
  /\ Outside /\ Disturb
  /\ UNCHANGED <<form, catalogue, cached, read, screen>>

Succeed(c) ==
  /\ UnderWay(c) /\ calls[c].phase = "done"
  /\ calls' = [calls EXCEPT ![c].phase = "reading"]
  /\ read' = NewRead
  /\ UNCHANGED <<server, cached, screen, history>>

-----------------------------------------------------------------------------
(* Others.                                                                 *)

Elsewhere ==
  /\ Outside
  /\ UNCHANGED <<cached, read, screen, calls>>

ColleagueSaves(marks) ==
  /\ Elsewhere
  /\ ~form.archived
  /\ SaveFormDraft([form.pages EXCEPT !.marks = marks])
  /\ Disturb
  /\ UNCHANGED catalogue

ColleaguePublishes ==
  /\ Elsewhere
  /\ ~form.archived /\ ~NothingToPublish
  /\ PublishForm
  /\ UNCHANGED <<catalogue, history>>

ColleagueArchives ==
  /\ Elsewhere
  /\ ~form.archived
  /\ ArchiveForm
  /\ UNCHANGED <<catalogue, history>>

UpdateSystemField ==
  /\ Elsewhere
  /\ catalogue' = catalogue + 1
  /\ Disturb
  /\ UNCHANGED form

-----------------------------------------------------------------------------
FormInit ==
  /\ form = [pages |-> NoPages, published |-> FALSE,
             unpublished |-> FALSE, archived |-> FALSE]
  /\ catalogue = 0 /\ outside = 0
  /\ cached = form
  /\ read = NoCall
  /\ shown = TRUE /\ layout = form.pages /\ sent = NoCall
  /\ calls = [c \in Calls |-> NoCall]
  /\ disturbed = FALSE /\ safe = {}

FormNext ==
  \/ Deliver \/ ReadForm \/ Focus \/ FailRead
  \/ \E e \in Edits : Edit(e)
  \/ \E c \in Calls :
       \/ SaveDraft(c) \/ OnPublish(c) \/ OnArchive(c)
       \/ ServeSave(c) \/ ServePublish(c) \/ ServeArchive(c)
       \/ Refuse(c) \/ LoseAnswer(c) \/ Succeed(c)
  \/ \E marks \in SUBSET form.pages.marks : ColleagueSaves(marks)
  \/ ColleaguePublishes \/ ColleagueArchives \/ UpdateSystemField

FormSpec == FormInit /\ [][FormNext]_formVars

-----------------------------------------------------------------------------
FormTypeOK ==
  /\ form \in Forms /\ cached \in Forms
  /\ catalogue \in Nat /\ outside \in Nat
  /\ read \in {NoCall} \cup ReadsUnderWay
  /\ shown \in BOOLEAN /\ layout \in Layouts /\ sent \in Layouts \cup {NoCall}
  /\ calls \in [Calls -> {NoCall} \cup CallsUnderWay]
  /\ disturbed \in BOOLEAN /\ safe \subseteq Edits

\* The comment on the builder's effect (FormBuilderPage.tsx:56-60): a form read
\* again never takes the place of what was edited meanwhile.  As long as
\* nobody else writes the draft or the catalogue, no two saves overlap and no
\* answer or read is lost, every edit made is still on the screen, however
\* edits, saves, publications and reads for any reason interleave.
EditsSurvive == shown => safe \subseteq layout.marks

\* "Publishing saves first when there is anything unsaved, because a version is
\* made from the stored draft" (FormBuilderPage.tsx:43-45): a version the author
\* publishes carries every edit that was on the screen when Publish was pressed.
PublishStep ==
  \A c \in Calls :
    ServePublish(c) /\ ~disturbed => calls[c].pages.marks \subseteq form'.pages.marks

PublishCarriesEdits == [][PublishStep]_formVars
=============================================================================

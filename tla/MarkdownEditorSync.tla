-------------------------- MODULE MarkdownEditorSync --------------------------
(***************************************************************************)
(* One Markdown document, open in any number of rendered editors.  Three   *)
(* kinds of process hold a copy of its text:                               *)
(*   - the renderer, whose text model is the document;                     *)
(*   - the extension host, which mirrors the model and runs                *)
(*     MarkdownEditorProvider, one #wireSingle closure per panel;          *)
(*   - each panel's webview, which runs editor.ts.                         *)
(* Channels are FIFO.  A webview's message enters the renderer first       *)
(* (fromView) and is forwarded on toHost, behind the model's own events.   *)
(* What the host posts to a webview passes through the renderer without    *)
(* touching any state, so toView is a channel of its own.                  *)
(* One action is one message handled up to the next await, or one act of   *)
(* a person.                                                               *)
(*                                                                         *)
(* Bounds: MaxActs bounds what people do to the text (typing, editing it   *)
(* elsewhere, saving), and with it every queue and the version.  Patient   *)
(* restricts the people, not the program: they then act only when nothing  *)
(* is in flight.                                                           *)
(***************************************************************************)
EXTENDS Naturals, Sequences, FiniteSets

CONSTANTS
  Panels,    \* the rendered editors that may be opened on the document
  Texts,     \* whole contents of the document
  Empty,     \* the content a webview starts from
  Acts,      \* what people do: among "type", "editElsewhere", "save"
  Patient,   \* TRUE: nobody acts while a message is in flight
  MaxActs

ASSUME EmptyAssumption == Empty \in Texts
ASSUME PatientAssumption == Patient \in BOOLEAN
ASSUME ActsAssumption == MaxActs \in Nat

VARIABLES
  text, version, dirty,        \* the renderer's text model
  preparing,                   \* workspace edits between their two validations
  hostText, hostVersion,       \* the host's TextDocument
  wired,                       \* panels whose #wireSingle has run
  isUpdatingFromWebview,       \* panel -> the flag its closure keeps
  viewText,                    \* panel -> sourceText
  initialized,                 \* panel -> #initialized
  fromView, toView,            \* panel -> queue
  toHost, toModel,             \* queues between the host and the renderer
  typed,                       \* history: panels somebody has typed into
  acts

model == <<text, version, dirty, preparing>>
host == <<hostText, hostVersion, wired, isUpdatingFromWebview>>
views == <<viewText, initialized, typed>>
vars == <<model, host, views, fromView, toView, toHost, toModel, acts>>

\* "base" is history: the host's text when it compared and sent the edit.
WorkspaceEdit == [panel : Panels, content : Texts, version : Nat, base : Texts]
ToView == [kind : {"init", "update"}, content : Texts]
FromView == [kind : {"ready"}] \cup [kind : {"edit"}, content : Texts]
Changed == [kind : {"changed"}, text : Texts, version : Nat]
ToHost == Changed \cup [kind : {"view"}, panel : Panels, message : FromView]
                  \cup [kind : {"dirty"}]
                  \cup [kind : {"reply"}, panel : Panels, isApplied : BOOLEAN]

Init == /\ text \in Texts /\ version = 1 /\ dirty = FALSE /\ preparing = <<>>
        /\ hostText = text /\ hostVersion = 1 /\ wired = {}
        /\ isUpdatingFromWebview = [p \in Panels |-> FALSE]
        /\ viewText = [p \in Panels |-> Empty]
        /\ initialized = [p \in Panels |-> FALSE]
        /\ fromView = [p \in Panels |-> <<>>]
        /\ toView = [p \in Panels |-> <<>>]
        /\ toHost = <<>> /\ toModel = <<>>
        /\ typed = {} /\ acts = 0

Quiet == /\ toHost = <<>> /\ toModel = <<>> /\ preparing = <<>>
         /\ \A p \in Panels : fromView[p] = <<>> /\ toView[p] = <<>>

----------------------------------------------------------------------------
(* People. *)

Act(kind) == /\ kind \in Acts
             /\ Patient => Quiet
             /\ acts < MaxActs
             /\ acts' = acts + 1

\* A custom editor is opened: #wireSingle sets its html and listens, and the
\* script in the html listens and posts 'ready'.  Messages posted before the
\* script runs wait for it in toView.
Open(p) ==
  /\ p \notin wired
  /\ Patient => Quiet
  /\ wired' = wired \cup {p}
  /\ fromView' = [fromView EXCEPT ![p] = Append(@, [kind |-> "ready"])]
  /\ UNCHANGED <<model, hostText, hostVersion, isUpdatingFromWebview, views,
                 toView, toHost, toModel, acts>>

\* Typing, the toolbar or a checkbox changes sourceText; the autorun posts it.
Type(p, content) ==
  /\ Act("type") /\ initialized[p] /\ content # viewText[p]
  /\ viewText' = [viewText EXCEPT ![p] = content]
  /\ typed' = typed \cup {p}
  /\ fromView' = [fromView EXCEPT ![p] =
                    Append(@, [kind |-> "edit", content |-> content])]
  /\ UNCHANGED <<model, host, initialized, toView, toHost, toModel>>

\* What the host hears of a change, in the order the listeners registered:
\* the change itself, and that the file has become dirty.
ChangeEvents(content) ==
  LET changed == [kind |-> "changed", text |-> content, version |-> version + 1]
      becameDirty == [kind |-> "dirty"]
  IN  IF dirty THEN {<<changed>>}
      ELSE {<<changed, becameDirty>>, <<becameDirty, changed>>}

ChangeModel(content) == text' = content /\ version' = version + 1 /\ dirty' = TRUE

\* A text editor, an undo or a reload from disk changes the model.
EditElsewhere(content) ==
  /\ Act("editElsewhere") /\ content # text
  /\ ChangeModel(content)
  /\ \E events \in ChangeEvents(content) : toHost' = toHost \o events
  /\ UNCHANGED <<preparing, host, views, fromView, toView, toModel>>

\* The document is saved, which is an onDidChangeTextDocument of the host.
Save ==
  /\ Act("save") /\ dirty
  /\ dirty' = FALSE
  /\ toHost' = Append(toHost, [kind |-> "dirty"])
  /\ UNCHANGED <<text, version, preparing, host, views, fromView, toView, toModel>>

----------------------------------------------------------------------------
(* A webview: editor.ts. *)

Deliver(p, kind) == /\ toView[p] # <<>> /\ Head(toView[p]).kind = kind
                    /\ toView' = [toView EXCEPT ![p] = Tail(@)]

PostFromView(p, message) == fromView' = [fromView EXCEPT ![p] = Append(@, message)]

\* 'init': the autorun exists before sourceText is set, so the set is posted.
HandleInit(p) ==
  /\ Deliver(p, "init")
  /\ IF initialized[p] THEN UNCHANGED <<views, fromView>>
     ELSE /\ initialized' = [initialized EXCEPT ![p] = TRUE]
          /\ viewText' = [viewText EXCEPT ![p] = Head(toView[p]).content]
          /\ PostFromView(p, [kind |-> "edit", content |-> Head(toView[p]).content])
          /\ UNCHANGED typed
  /\ UNCHANGED <<model, host, toHost, toModel, acts>>

\* Mutant: isUpdatingFromExtension is not raised, so an update is posted back.
HandleUpdateEchoes(p) ==
  /\ Deliver(p, "update")
  /\ viewText' = [viewText EXCEPT ![p] = Head(toView[p]).content]
  /\ IF initialized[p]
     THEN PostFromView(p, [kind |-> "edit", content |-> Head(toView[p]).content])
     ELSE UNCHANGED fromView
  /\ UNCHANGED <<model, host, initialized, typed, toHost, toModel, acts>>

\* 'update': isUpdatingFromExtension keeps the autorun from posting it back.
HandleUpdate(p) ==
  /\ Deliver(p, "update")
  /\ viewText' = [viewText EXCEPT ![p] = Head(toView[p]).content]
  /\ UNCHANGED <<model, host, initialized, typed, fromView, toHost, toModel, acts>>

----------------------------------------------------------------------------
(* The renderer. *)

\* MainThreadWebviews passes a webview's message on to the host.
Forward(p) ==
  /\ fromView[p] # <<>>
  /\ toHost' = Append(toHost, [kind |-> "view", panel |-> p,
                               message |-> Head(fromView[p])])
  /\ fromView' = [fromView EXCEPT ![p] = Tail(@)]
  /\ UNCHANGED <<model, host, views, toView, toModel, acts>>

Reply(edit, isApplied) ==
  [kind |-> "reply", panel |-> edit.panel, isApplied |-> isApplied]

Reject(edit) == /\ toHost' = Append(toHost, Reply(edit, FALSE))
                /\ UNCHANGED <<text, version, dirty>>

Accept(edit) == /\ ChangeModel(edit.content)
                /\ \E events \in ChangeEvents(edit.content) :
                     toHost' = Append(toHost \o events, Reply(edit, TRUE))

\* $tryApplyWorkspaceEdit: _validateBeforePrepare, then the tasks are created.
ReceiveEdit ==
  /\ toModel # <<>> /\ toModel' = Tail(toModel)
  /\ IF Head(toModel).version = version
     THEN /\ preparing' = Append(preparing, Head(toModel))
          /\ UNCHANGED <<text, version, dirty, toHost>>
     ELSE Reject(Head(toModel)) /\ UNCHANGED preparing
  /\ UNCHANGED <<host, views, fromView, toView, acts>>

\* Mutant: nothing is validated once the tasks are there.
ApplyEditUnvalidated ==
  /\ preparing # <<>> /\ preparing' = Tail(preparing)
  /\ Accept(Head(preparing))
  /\ UNCHANGED <<host, views, fromView, toView, toModel, acts>>

\* The tasks are there: validate once more, apply, and answer either way.
ApplyEdit ==
  /\ preparing # <<>> /\ preparing' = Tail(preparing)
  /\ IF Head(preparing).version = version
     THEN Accept(Head(preparing)) ELSE Reject(Head(preparing))
  /\ UNCHANGED <<host, views, fromView, toView, toModel, acts>>

----------------------------------------------------------------------------
(* The extension host: MarkdownEditorProvider. *)

Hear(kind) == /\ toHost # <<>> /\ Head(toHost).kind = kind
              /\ toHost' = Tail(toHost)

\* onDidChangeTextDocument: every panel whose flag is down gets the text.
PostUpdates(content) ==
  toView' = [p \in Panels |->
               IF p \in wired /\ ~isUpdatingFromWebview[p]
               THEN Append(toView[p], [kind |-> "update", content |-> content])
               ELSE toView[p]]

\* Mutant: the host skips what it takes for its own edit's echo.
AcceptOthersChanges ==
  /\ Hear("changed")
  /\ IF \E p \in Panels : isUpdatingFromWebview[p]
     THEN UNCHANGED <<hostText, hostVersion, toView>>
     ELSE /\ hostText' = Head(toHost).text
          /\ hostVersion' = Head(toHost).version
          /\ PostUpdates(Head(toHost).text)
  /\ UNCHANGED <<model, wired, isUpdatingFromWebview, views, fromView, toModel, acts>>

\* $acceptModelChanged.
AcceptModelChanged ==
  /\ Hear("changed")
  /\ hostText' = Head(toHost).text
  /\ hostVersion' = Head(toHost).version
  /\ PostUpdates(Head(toHost).text)
  /\ UNCHANGED <<model, wired, isUpdatingFromWebview, views, fromView, toModel, acts>>

\* $acceptDirtyStateChanged, also on a save: the event carries no change.
AcceptDirtyStateChanged ==
  /\ Hear("dirty")
  /\ PostUpdates(hostText)
  /\ UNCHANGED <<model, host, views, fromView, toModel, acts>>

\* 'ready'.
HandleReady ==
  /\ Hear("view") /\ Head(toHost).message.kind = "ready"
  /\ toView' = [toView EXCEPT ![Head(toHost).panel] =
                  Append(@, [kind |-> "init", content |-> hostText])]
  /\ UNCHANGED <<model, host, views, fromView, toModel, acts>>

SendEdit(p, content) ==
  /\ isUpdatingFromWebview' = [isUpdatingFromWebview EXCEPT ![p] = TRUE]
  /\ toModel' = Append(toModel, [panel |-> p, content |-> content,
                                 version |-> hostVersion, base |-> hostText])

\* Mutant: the content is not compared with the document first.
HandleEveryEdit ==
  /\ Hear("view") /\ Head(toHost).message.kind = "edit"
  /\ SendEdit(Head(toHost).panel, Head(toHost).message.content)
  /\ UNCHANGED <<model, hostText, hostVersion, wired, views, fromView, toView, acts>>

\* 'edit', up to the await of applyEdit.
HandleEdit ==
  /\ Hear("view") /\ Head(toHost).message.kind = "edit"
  /\ IF Head(toHost).message.content = hostText
     THEN UNCHANGED <<isUpdatingFromWebview, toModel>>
     ELSE SendEdit(Head(toHost).panel, Head(toHost).message.content)
  /\ UNCHANGED <<model, hostText, hostVersion, wired, views, fromView, toView, acts>>

LowerFlag(p) ==
  isUpdatingFromWebview' = [isUpdatingFromWebview EXCEPT ![p] = FALSE]

\* Mutant: the flag is lowered after the await instead of in a finally block
\* and only when the edit took.
HandleReplyWhenApplied ==
  /\ Hear("reply")
  /\ IF Head(toHost).isApplied THEN LowerFlag(Head(toHost).panel)
     ELSE UNCHANGED isUpdatingFromWebview
  /\ UNCHANGED <<model, hostText, hostVersion, wired, views, fromView, toView,
                 toModel, acts>>

\* Mutant: the flag is never lowered.
HandleReplyFlagUp ==
  /\ Hear("reply")
  /\ UNCHANGED <<model, host, views, fromView, toView, toModel, acts>>

\* applyEdit has settled, whatever its result: the finally block.
HandleReply ==
  /\ Hear("reply") /\ LowerFlag(Head(toHost).panel)
  /\ UNCHANGED <<model, hostText, hostVersion, wired, views, fromView, toView,
                 toModel, acts>>

----------------------------------------------------------------------------

People == \/ \E p \in Panels : Open(p)
          \/ \E p \in Panels, content \in Texts : Type(p, content)
          \/ \E content \in Texts : EditElsewhere(content)
          \/ Save

Webview(p) == HandleInit(p) \/ HandleUpdate(p)
Renderer == ReceiveEdit \/ ApplyEdit \/ \E p \in Panels : Forward(p)
Host == \/ AcceptModelChanged \/ AcceptDirtyStateChanged
        \/ HandleReady \/ HandleEdit \/ HandleReply

Next == People \/ Renderer \/ Host \/ (\E p \in Panels : Webview(p))

Spec == Init /\ [][Next]_vars

\* Every event loop runs: a message that has arrived is handled.  Nothing is
\* asked of people.
FairSpec == /\ Spec /\ WF_vars(ReceiveEdit) /\ WF_vars(ApplyEdit) /\ WF_vars(Host)
            /\ \A p \in Panels : WF_vars(Forward(p)) /\ WF_vars(Webview(p))

----------------------------------------------------------------------------
(* Properties. *)

\* Every variable has its type.
TypeOK ==
  /\ text \in Texts /\ version \in Nat /\ dirty \in BOOLEAN
  /\ preparing \in Seq(WorkspaceEdit) /\ toModel \in Seq(WorkspaceEdit)
  /\ hostText \in Texts /\ hostVersion \in Nat
  /\ wired \in SUBSET Panels /\ typed \in SUBSET Panels
  /\ isUpdatingFromWebview \in [Panels -> BOOLEAN]
  /\ initialized \in [Panels -> BOOLEAN] /\ viewText \in [Panels -> Texts]
  /\ fromView \in [Panels -> Seq(FromView)] /\ toView \in [Panels -> Seq(ToView)]
  /\ toHost \in Seq(ToHost) /\ acts \in 0..MaxActs

ChangeInFlight == \E i \in DOMAIN toHost : toHost[i].kind = "changed"

\* Whatever the panels do meanwhile, once the renderer's events have been
\* heard the host's TextDocument is the model, so that the equality test and
\* the version of the next edit are those of the real document.
HostMirrorsModel ==
  ~ChangeInFlight => hostText = text /\ hostVersion = version

\* An edit replaces the very text the host compared its content with: what is
\* changed, by whomever, after the comparison and before the edit is applied in
\* another process is never overwritten.  The panel itself may have shown an
\* older text: from a webview to the comparison no version travels.
EditReplacesComparedText ==
  [][preparing # <<>> /\ preparing' = Tail(preparing) /\ version' # version
       => Head(preparing).base = text]_vars

\* Updates and edits do not chase each other: the document changes at most
\* once for each act of a person and once for each panel that was opened.
NoEchoLoop == version <= 1 + acts + Cardinality(wired)

\* Suppression ends: a panel that has sent an edit will again be told of
\* changes other people make.
SuppressionEnds ==
  \A p \in Panels : isUpdatingFromWebview[p] ~> ~isUpdatingFromWebview[p]

\* The document is the single source of truth: when nothing is in flight,
\* every open panel shows it.
PanelsShowDocument == Quiet => \A p \in wired : viewText[p] = text

\* A panel nobody has typed into asks for no edit: opening a document does
\* not change it.
EditsComeFromTyping ==
  /\ \A i \in DOMAIN toModel : toModel[i].panel \in typed
  /\ \A i \in DOMAIN preparing : preparing[i].panel \in typed
=============================================================================

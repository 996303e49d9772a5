----------------------- MODULE MarkdownEditorSyncProofs -----------------------
(***************************************************************************)
(* What holds of the rendered Markdown editor for every number of panels,  *)
(* of contents and of acts.                                                *)
(*                                                                         *)
(* Whatever people do: types, the mirror of the document, that an edit     *)
(* which is applied replaces the text the host compared it with, and, by   *)
(* counting edits and what causes them, that edits and updates do not      *)
(* chase each other.                                                       *)
(* Of people who wait: panels show the document and edits come from        *)
(* typing, by the phases of one round trip.                                *)
(***************************************************************************)
EXTENDS MarkdownEditorSync, FiniteSetTheorems, TLAPS

----------------------------------------------------------------------------
(* Messages. *)

LEMMA ViewMessages ==
  ASSUME NEW content \in Texts
  PROVE  /\ [kind |-> "ready"] \in FromView
         /\ [kind |-> "edit", content |-> content] \in FromView
         /\ [kind |-> "init", content |-> content] \in ToView
         /\ [kind |-> "update", content |-> content] \in ToView
  BY DEF FromView, ToView

LEMMA HostMessages ==
  ASSUME NEW p \in Panels
  PROVE  /\ [kind |-> "dirty"] \in ToHost
         /\ \A m \in FromView : [kind |-> "view", panel |-> p, message |-> m] \in ToHost
         /\ \A b \in BOOLEAN :
              [kind |-> "reply", panel |-> p, isApplied |-> b] \in ToHost
  BY DEF ToHost

LEMMA DirtyMessage == [kind |-> "dirty"] \in ToHost
  BY DEF ToHost

LEMMA ChangedMessage ==
  ASSUME NEW content \in Texts, NEW n \in Nat
  PROVE  [kind |-> "changed", text |-> content, version |-> n] \in ToHost
  BY DEF ToHost, Changed

LEMMA ToViewContent ==
  ASSUME NEW m \in ToView
  PROVE  m.content \in Texts
  BY DEF ToView

LEMMA ToHostFields ==
  ASSUME NEW m \in ToHost
  PROVE  /\ m.kind = "changed" => m.text \in Texts /\ m.version \in Nat
         /\ m.kind = "view" => /\ m.panel \in Panels
                               /\ m.message.kind = "edit" => m.message.content \in Texts
         /\ m.kind = "reply" => m.panel \in Panels
  BY DEF ToHost, Changed, FromView

LEMMA EventsOfChange ==
  ASSUME NEW content \in Texts, version \in Nat, NEW events \in ChangeEvents(content)
  PROVE  /\ events \in Seq(ToHost)
         /\ \E i \in DOMAIN events : events[i] = [kind |-> "changed", text |-> content,
                                                  version |-> version + 1]
         /\ \A i \in DOMAIN events :
              \/ events[i] = [kind |-> "changed", text |-> content, version |-> version + 1]
              \/ events[i].kind # "changed"
  <1> DEFINE changed == [kind |-> "changed", text |-> content, version |-> version + 1]
             becameDirty == [kind |-> "dirty"]
  <1>1. changed \in ToHost /\ becameDirty \in ToHost
    BY ChangedMessage, DirtyMessage
  <1>2. becameDirty.kind # "changed"
    OBVIOUS
  <1>3. \/ events = <<changed>>
        \/ events = <<changed, becameDirty>>
        \/ events = <<becameDirty, changed>>
    BY DEF ChangeEvents
  <1> HIDE DEF changed, becameDirty
  <1>4. CASE events = <<changed>>
    BY <1>1, <1>4 DEF changed
  <1>5. CASE events = <<changed, becameDirty>>
    <2>1. events \in Seq(ToHost) /\ DOMAIN events = 1..2
          /\ events[1] = changed /\ events[2] = becameDirty
      BY <1>1, <1>5
    <2> QED BY <2>1, <1>2 DEF changed
  <1>6. CASE events = <<becameDirty, changed>>
    <2>1. events \in Seq(ToHost) /\ DOMAIN events = 1..2
          /\ events[1] = becameDirty /\ events[2] = changed
      BY <1>1, <1>6
    <2> QED BY <2>1, <1>2 DEF changed
  <1> QED BY <1>3, <1>4, <1>5, <1>6

----------------------------------------------------------------------------
(* Queues. *)

LEMMA AppendTyped ==
  ASSUME NEW S, NEW queue \in Seq(S), NEW m \in S
  PROVE  Append(queue, m) \in Seq(S)
  OBVIOUS

LEMMA AppendIndexed ==
  ASSUME NEW S, NEW s \in Seq(S), NEW m \in S, NEW t, t = Append(s, m)
  PROVE  /\ Len(s) \in Nat /\ DOMAIN s = 1..Len(s) /\ DOMAIN t = 1..(Len(s) + 1)
         /\ \A i \in 1..Len(s) : t[i] = s[i]
         /\ t[Len(s) + 1] = m
  OBVIOUS

LEMMA TailIndexed ==
  ASSUME NEW S, NEW s \in Seq(S), s # <<>>, NEW t, t = Tail(s)
  PROVE  /\ Len(s) \in Nat /\ Len(s) >= 1 /\ DOMAIN s = 1..Len(s)
         /\ DOMAIN t = 1..(Len(s) - 1)
         /\ Head(s) = s[1] /\ Head(s) \in S
         /\ \A i \in 1..(Len(s) - 1) : t[i] = s[i + 1]
  OBVIOUS

\* Posting on one of the panels' channels.
LEMMA PostTyped ==
  ASSUME NEW S, NEW f \in [Panels -> Seq(S)], NEW p \in Panels, NEW m \in S
  PROVE  [f EXCEPT ![p] = Append(@, m)] \in [Panels -> Seq(S)]
  OBVIOUS

----------------------------------------------------------------------------
(* Types. *)

LEMMA TypesInit == Init => TypeOK
  <1> SUFFICES ASSUME Init PROVE TypeOK
    OBVIOUS
  <1>1. /\ fromView \in [Panels -> Seq(FromView)] /\ toView \in [Panels -> Seq(ToView)]
        /\ toHost \in Seq(ToHost) /\ toModel \in Seq(WorkspaceEdit)
        /\ preparing \in Seq(WorkspaceEdit)
    BY DEF Init
  <1>2. acts \in 0..MaxActs
    BY ActsAssumption DEF Init
  <1> QED BY <1>1, <1>2, EmptyAssumption DEF Init, TypeOK

LEMMA OpenTypes ==
  ASSUME TypeOK, NEW p \in Panels, Open(p)
  PROVE  TypeOK'
  <1>1. fromView' \in [Panels -> Seq(FromView)]
    BY ViewMessages, EmptyAssumption, PostTyped DEF TypeOK, Open
  <1> QED BY <1>1 DEF TypeOK, Open, model, views

LEMMA TypeTypes ==
  ASSUME TypeOK, NEW p \in Panels, NEW content \in Texts, Type(p, content)
  PROVE  TypeOK'
  <1>1. fromView' \in [Panels -> Seq(FromView)]
    BY ViewMessages, PostTyped DEF TypeOK, Type
  <1>2. acts' \in 0..MaxActs
    BY ActsAssumption DEF TypeOK, Type, Act
  <1> QED BY <1>1, <1>2 DEF TypeOK, Type, model, host

\* A change of the model, with what the host is told of it.
LEMMA ChangeTypes ==
  ASSUME TypeOK, NEW content \in Texts, ChangeModel(content),
         NEW events \in ChangeEvents(content)
  PROVE  /\ text' \in Texts /\ version' \in Nat /\ dirty' \in BOOLEAN
         /\ toHost \o events \in Seq(ToHost)
  BY EventsOfChange DEF TypeOK, ChangeModel

LEMMA EditElsewhereTypes ==
  ASSUME TypeOK, NEW content \in Texts, EditElsewhere(content)
  PROVE  TypeOK'
  <1>1. PICK events \in ChangeEvents(content) : toHost' = toHost \o events
    BY DEF EditElsewhere
  <1>2. acts' \in 0..MaxActs
    BY ActsAssumption DEF TypeOK, EditElsewhere, Act
  <1> QED BY <1>1, <1>2, ChangeTypes DEF TypeOK, EditElsewhere, host, views

LEMMA SaveTypes ==
  ASSUME TypeOK, Save
  PROVE  TypeOK'
  <1>1. acts' \in 0..MaxActs
    BY ActsAssumption DEF TypeOK, Save, Act
  <1>2. toHost' \in Seq(ToHost)
    BY DirtyMessage, AppendTyped DEF TypeOK, Save
  <1> QED BY <1>1, <1>2 DEF TypeOK, Save, host, views

LEMMA HandleInitTypes ==
  ASSUME TypeOK, NEW p \in Panels, HandleInit(p)
  PROVE  TypeOK'
  <1> DEFINE content == Head(toView[p]).content
  <1>1. toView' \in [Panels -> Seq(ToView)]
    BY DEF TypeOK, HandleInit, Deliver
  <1>2. Head(toView[p]) \in ToView
    BY DEF TypeOK, HandleInit, Deliver
  <1>3. content \in Texts
    BY <1>2, ToViewContent
  <1>4. [kind |-> "edit", content |-> content] \in FromView
    BY <1>3, ViewMessages
  <1> HIDE DEF content
  <1>5. fromView' \in [Panels -> Seq(FromView)] /\ viewText' \in [Panels -> Texts]
        /\ initialized' \in [Panels -> BOOLEAN] /\ typed' = typed
    <2>1. CASE initialized[p]
      BY <2>1 DEF TypeOK, HandleInit, views
    <2>2. CASE ~initialized[p]
      <3>1. fromView' = [fromView EXCEPT ![p] =
                           Append(@, [kind |-> "edit", content |-> content])]
        BY <2>2 DEF HandleInit, PostFromView, content
      <3>2. fromView' \in [Panels -> Seq(FromView)]
        BY <1>4, <3>1, PostTyped DEF TypeOK
      <3>3. viewText' = [viewText EXCEPT ![p] = content] /\ typed' = typed
            /\ initialized' = [initialized EXCEPT ![p] = TRUE]
        BY <2>2 DEF HandleInit, content
      <3> QED BY <1>3, <3>2, <3>3 DEF TypeOK
    <2> QED BY <2>1, <2>2
  <1> QED BY <1>1, <1>5 DEF TypeOK, HandleInit, model, host

LEMMA HandleUpdateTypes ==
  ASSUME TypeOK, NEW p \in Panels, HandleUpdate(p)
  PROVE  TypeOK'
  <1>1. toView' \in [Panels -> Seq(ToView)] /\ Head(toView[p]) \in ToView
    BY DEF TypeOK, HandleUpdate, Deliver
  <1>2. viewText' \in [Panels -> Texts]
    BY <1>1, ToViewContent DEF TypeOK, HandleUpdate
  <1> QED BY <1>1, <1>2 DEF TypeOK, HandleUpdate, model, host

LEMMA ForwardTypes ==
  ASSUME TypeOK, NEW p \in Panels, Forward(p)
  PROVE  TypeOK'
  <1>1. fromView' \in [Panels -> Seq(FromView)] /\ Head(fromView[p]) \in FromView
    BY DEF TypeOK, Forward
  <1>2. toHost' \in Seq(ToHost)
    BY <1>1, HostMessages DEF TypeOK, Forward
  <1> QED BY <1>1, <1>2 DEF TypeOK, Forward, model, host, views

\* The answer to a workspace edit, whatever was queued before it.
LEMMA ReplyTypes ==
  ASSUME NEW edit \in WorkspaceEdit, NEW queue \in Seq(ToHost), NEW b \in BOOLEAN
  PROVE  Append(queue, Reply(edit, b)) \in Seq(ToHost)
  BY HostMessages DEF Reply, WorkspaceEdit

LEMMA ReceiveEditTypes ==
  ASSUME TypeOK, ReceiveEdit
  PROVE  TypeOK'
  <1>1. Head(toModel) \in WorkspaceEdit /\ toModel' \in Seq(WorkspaceEdit)
    BY DEF TypeOK, ReceiveEdit
  <1>2. /\ preparing' \in Seq(WorkspaceEdit) /\ toHost' \in Seq(ToHost)
        /\ UNCHANGED <<text, version, dirty>>
    BY <1>1, ReplyTypes, AppendTyped DEF TypeOK, ReceiveEdit, Reject
  <1> QED BY <1>1, <1>2 DEF TypeOK, ReceiveEdit, host, views

LEMMA ApplyEditTypes ==
  ASSUME TypeOK, ApplyEdit
  PROVE  TypeOK'
  <1> DEFINE edit == Head(preparing)
  <1>1. edit \in WorkspaceEdit /\ preparing' \in Seq(WorkspaceEdit)
    BY DEF TypeOK, ApplyEdit
  <1>2. edit.content \in Texts
    BY <1>1 DEF WorkspaceEdit
  <1>3. CASE edit.version = version
    <2>1. PICK events \in ChangeEvents(edit.content) :
            toHost' = Append(toHost \o events, Reply(edit, TRUE))
      BY <1>3 DEF ApplyEdit, Accept
    <2>2. ChangeModel(edit.content)
      BY <1>3 DEF ApplyEdit, Accept
    <2> HIDE DEF edit
    <2>3. toHost \o events \in Seq(ToHost)
          /\ text' \in Texts /\ version' \in Nat /\ dirty' \in BOOLEAN
      BY <1>2, <2>1, <2>2, ChangeTypes
    <2>4. toHost' \in Seq(ToHost)
      BY <1>1, <2>1, <2>3, ReplyTypes
    <2> QED BY <1>1, <2>3, <2>4 DEF TypeOK, ApplyEdit, host, views
  <1>4. CASE edit.version # version
    <2>1. toHost' \in Seq(ToHost) /\ UNCHANGED <<text, version, dirty>>
      BY <1>1, <1>4, ReplyTypes DEF TypeOK, ApplyEdit, Reject
    <2> QED BY <1>1, <2>1 DEF TypeOK, ApplyEdit, host, views
  <1> QED BY <1>3, <1>4

LEMMA HearTypes ==
  ASSUME TypeOK, NEW kind, Hear(kind)
  PROVE  /\ toHost' \in Seq(ToHost) /\ Head(toHost) \in ToHost
         /\ Head(toHost).kind = kind
  BY DEF TypeOK, Hear

LEMMA PostUpdatesTypes ==
  ASSUME TypeOK, NEW content \in Texts, PostUpdates(content)
  PROVE  toView' \in [Panels -> Seq(ToView)]
  <1>1. [kind |-> "update", content |-> content] \in ToView
    BY ViewMessages
  <1>2. \A p \in Panels : toView[p] \in Seq(ToView)
    BY DEF TypeOK
  <1>3. \A p \in Panels :
          Append(toView[p], [kind |-> "update", content |-> content]) \in Seq(ToView)
    BY <1>1, <1>2, AppendTyped
  <1> QED BY <1>2, <1>3 DEF PostUpdates

LEMMA AcceptModelChangedTypes ==
  ASSUME TypeOK, AcceptModelChanged
  PROVE  TypeOK'
  <1>1. toHost' \in Seq(ToHost) /\ Head(toHost) \in ToHost
        /\ Head(toHost).kind = "changed"
    BY HearTypes DEF AcceptModelChanged
  <1>2. Head(toHost).text \in Texts /\ Head(toHost).version \in Nat
    BY <1>1, ToHostFields
  <1>3. toView' \in [Panels -> Seq(ToView)]
    BY <1>2, PostUpdatesTypes DEF AcceptModelChanged
  <1> QED BY <1>1, <1>2, <1>3 DEF TypeOK, AcceptModelChanged, model, views

LEMMA AcceptDirtyStateChangedTypes ==
  ASSUME TypeOK, AcceptDirtyStateChanged
  PROVE  TypeOK'
  <1>1. toHost' \in Seq(ToHost)
    BY HearTypes DEF AcceptDirtyStateChanged
  <1>2. toView' \in [Panels -> Seq(ToView)]
    BY PostUpdatesTypes DEF AcceptDirtyStateChanged, TypeOK
  <1> QED BY <1>1, <1>2 DEF TypeOK, AcceptDirtyStateChanged, model, host, views

LEMMA HandleReadyTypes ==
  ASSUME TypeOK, HandleReady
  PROVE  TypeOK'
  <1>1. toHost' \in Seq(ToHost) /\ Head(toHost) \in ToHost /\ Head(toHost).kind = "view"
    BY HearTypes DEF HandleReady
  <1>2. Head(toHost).panel \in Panels
    BY <1>1, ToHostFields
  <1>3. [kind |-> "init", content |-> hostText] \in ToView
    BY ViewMessages DEF TypeOK
  <1>4. toView' \in [Panels -> Seq(ToView)]
    BY <1>2, <1>3 DEF TypeOK, HandleReady
  <1> QED BY <1>1, <1>4 DEF TypeOK, HandleReady, model, host, views

LEMMA HandleEditTypes ==
  ASSUME TypeOK, HandleEdit
  PROVE  TypeOK'
  <1> DEFINE p == Head(toHost).panel
             content == Head(toHost).message.content
  <1>1. toHost' \in Seq(ToHost) /\ Head(toHost) \in ToHost /\ Head(toHost).kind = "view"
    BY HearTypes DEF HandleEdit
  <1>2. p \in Panels /\ content \in Texts
    BY <1>1, ToHostFields DEF HandleEdit
  <1>3. [panel |-> p, content |-> content, version |-> hostVersion, base |-> hostText]
          \in WorkspaceEdit
    BY <1>2 DEF WorkspaceEdit, TypeOK
  <1>4. toModel' \in Seq(WorkspaceEdit) /\ isUpdatingFromWebview' \in [Panels -> BOOLEAN]
    <2>1. CASE content = hostText
      BY <2>1 DEF TypeOK, HandleEdit
    <2>2. CASE content # hostText
      <3>1. SendEdit(p, content)
        BY <2>2 DEF HandleEdit
      <3> HIDE DEF p, content
      <3>2. toModel' \in Seq(WorkspaceEdit)
        BY <1>3, <3>1, AppendTyped DEF TypeOK, SendEdit
      <3> QED BY <1>2, <3>1, <3>2 DEF TypeOK, SendEdit
    <2> QED BY <2>1, <2>2
  <1> QED BY <1>1, <1>4 DEF TypeOK, HandleEdit, model, views

LEMMA HandleReplyTypes ==
  ASSUME TypeOK, HandleReply
  PROVE  TypeOK'
  <1>1. toHost' \in Seq(ToHost)
    BY HearTypes DEF HandleReply
  <1>2. isUpdatingFromWebview' \in [Panels -> BOOLEAN]
    BY DEF TypeOK, HandleReply, LowerFlag
  <1> QED BY <1>1, <1>2 DEF TypeOK, HandleReply, model, views

LEMMA TypesNext == TypeOK /\ [Next]_vars => TypeOK'
  <1> SUFFICES ASSUME TypeOK, [Next]_vars PROVE TypeOK'
    OBVIOUS
  <1>1. CASE People
    BY <1>1, OpenTypes, TypeTypes, EditElsewhereTypes, SaveTypes DEF People
  <1>2. CASE Renderer
    BY <1>2, ReceiveEditTypes, ApplyEditTypes, ForwardTypes DEF Renderer
  <1>3. CASE Host
    BY <1>3, AcceptModelChangedTypes, AcceptDirtyStateChangedTypes, HandleReadyTypes,
       HandleEditTypes, HandleReplyTypes DEF Host
  <1>4. CASE \E p \in Panels : Webview(p)
    BY <1>4, HandleInitTypes, HandleUpdateTypes DEF Webview
  <1>5. CASE UNCHANGED vars
    BY <1>5 DEF TypeOK, vars, model, host, views
  <1> QED BY <1>1, <1>2, <1>3, <1>4, <1>5 DEF Next

\* Every variable of the editor keeps its type.
THEOREM MarkdownTypes == Spec => []TypeOK
  BY TypesInit, TypesNext, PTL DEF Spec

----------------------------------------------------------------------------
(* Versions name texts. *)

\* A version and a text recorded together: no newer than the model's, and if
\* the version is the model's so is the text.
Recent(v, t) == v <= version /\ (v = version => t = text)

IsChange(m) == m.kind = "changed"

\* The host's copy and the changes on their way to it are such pairs, in the
\* order of their versions, and the model's own version is the last of them.
Mirror ==
  /\ Recent(hostVersion, hostText)
  /\ \A i \in DOMAIN toHost :
       IsChange(toHost[i]) => /\ Recent(toHost[i].version, toHost[i].text)
                              /\ hostVersion <= toHost[i].version
  /\ \A i, j \in DOMAIN toHost :
       i < j /\ IsChange(toHost[i]) /\ IsChange(toHost[j])
         => toHost[i].version <= toHost[j].version
  /\ \/ hostVersion = version
     \/ \E i \in DOMAIN toHost : IsChange(toHost[i]) /\ toHost[i].version = version

\* So are the version and the text an edit quotes.
Quotes ==
  /\ \A i \in DOMAIN toModel : Recent(toModel[i].version, toModel[i].base)
  /\ \A i \in DOMAIN preparing : Recent(preparing[i].version, preparing[i].base)

MarkdownInv == TypeOK /\ Mirror /\ Quotes

LEMMA InvInit == Init => Mirror /\ Quotes
  BY DEF Init, Mirror, Quotes, Recent

LEMMA MirrorKept ==
  ASSUME Mirror, UNCHANGED <<text, version, hostText, hostVersion, toHost>>
  PROVE  Mirror'
  BY DEF Mirror, Recent, IsChange

LEMMA QuotesKept ==
  ASSUME Quotes, UNCHANGED <<text, version, toModel, preparing>>
  PROVE  Quotes'
  BY DEF Quotes, Recent

\* The renderer tells the host something other than a change.
LEMMA MirrorAppend ==
  ASSUME MarkdownInv, NEW m \in ToHost, ~IsChange(m),
         toHost' = Append(toHost, m),
         UNCHANGED <<text, version, hostText, hostVersion>>
  PROVE  Mirror'
  <1>1. /\ DOMAIN toHost' = 1..(Len(toHost) + 1) /\ DOMAIN toHost = 1..Len(toHost)
        /\ \A i \in 1..Len(toHost) : toHost'[i] = toHost[i]
        /\ toHost'[Len(toHost) + 1] = m /\ Len(toHost) \in Nat
    BY AppendIndexed DEF MarkdownInv, TypeOK
  <1>2. \A i \in DOMAIN toHost' :
          IsChange(toHost'[i]) => i \in DOMAIN toHost /\ toHost'[i] = toHost[i]
    BY <1>1
  <1>3. \A i \in DOMAIN toHost : i \in DOMAIN toHost' /\ toHost'[i] = toHost[i]
    BY <1>1
  <1> QED BY <1>2, <1>3 DEF MarkdownInv, Mirror, Recent, IsChange

\* What hearing a message leaves behind.
LEMMA HearQueue ==
  ASSUME TypeOK, NEW kind, Hear(kind)
  PROVE  /\ 1 \in DOMAIN toHost /\ toHost[1] = Head(toHost) /\ toHost[1].kind = kind
         /\ \A i \in DOMAIN toHost' :
              i \in Nat /\ i + 1 \in DOMAIN toHost /\ toHost'[i] = toHost[i + 1]
         /\ \A i \in DOMAIN toHost : i = 1 \/ (i - 1 \in DOMAIN toHost'
                                              /\ toHost'[i - 1] = toHost[i])
  <1>1. /\ Len(toHost) \in Nat /\ Len(toHost) >= 1 /\ DOMAIN toHost = 1..Len(toHost)
        /\ DOMAIN toHost' = 1..(Len(toHost) - 1)
        /\ Head(toHost) = toHost[1]
        /\ \A i \in 1..(Len(toHost) - 1) : toHost'[i] = toHost[i + 1]
    BY TailIndexed DEF TypeOK, Hear
  <1> DEFINE n == Len(toHost)
  <1> HIDE DEF n
  <1>2. /\ n \in Nat /\ n >= 1 /\ DOMAIN toHost = 1..n /\ DOMAIN toHost' = 1..(n - 1)
        /\ \A i \in 1..(n - 1) : toHost'[i] = toHost[i + 1]
    BY <1>1 DEF n
  <1>3. \A i \in 1..(n - 1) : i \in Nat /\ i + 1 \in 1..n
    BY <1>2
  <1>4. \A i \in 1..n : i = 1 \/ (i - 1 \in 1..(n - 1) /\ (i - 1) + 1 = i)
    BY <1>2
  <1>5. \A i \in 1..n : i = 1 \/ (i - 1 \in 1..(n - 1) /\ toHost'[i - 1] = toHost[i])
    <2>1. SUFFICES ASSUME NEW i \in 1..n, i # 1
                   PROVE  i - 1 \in 1..(n - 1) /\ toHost'[i - 1] = toHost[i]
      OBVIOUS
    <2>2. i - 1 \in 1..(n - 1) /\ (i - 1) + 1 = i
      BY <1>4, <2>1
    <2>3. toHost'[i - 1] = toHost[(i - 1) + 1]
      BY <1>2, <2>2
    <2> QED BY <2>2, <2>3
  <1>6. Head(toHost).kind = kind
    BY DEF Hear
  <1> QED BY <1>1, <1>2, <1>3, <1>5, <1>6

\* The host handles a message that is no change.
LEMMA MirrorHear ==
  ASSUME MarkdownInv, NEW kind, Hear(kind), kind # "changed",
         UNCHANGED <<text, version, hostText, hostVersion>>
  PROVE  Mirror'
  <1>1. /\ ~IsChange(toHost[1])
        /\ \A i \in DOMAIN toHost' :
             i \in Nat /\ i + 1 \in DOMAIN toHost /\ toHost'[i] = toHost[i + 1]
        /\ \A i \in DOMAIN toHost : i = 1 \/ (i - 1 \in DOMAIN toHost'
                                             /\ toHost'[i - 1] = toHost[i])
    BY HearQueue DEF MarkdownInv, IsChange
  <1>2. \A i, j \in DOMAIN toHost' :
          i < j /\ IsChange(toHost'[i]) /\ IsChange(toHost'[j])
            => toHost'[i].version <= toHost'[j].version
    BY <1>1 DEF MarkdownInv, Mirror
  <1>3. \A i \in DOMAIN toHost' :
          IsChange(toHost'[i]) => /\ Recent(toHost[i].version, toHost[i].text)'
                                  /\ hostVersion <= toHost'[i].version
    BY <1>1 DEF MarkdownInv, Mirror, Recent
  <1>4. \/ hostVersion = version
        \/ \E i \in DOMAIN toHost' : IsChange(toHost'[i]) /\ toHost'[i].version = version
    <2>1. ASSUME NEW i \in DOMAIN toHost, IsChange(toHost[i]), toHost[i].version = version
          PROVE  \E k \in DOMAIN toHost' : IsChange(toHost'[k]) /\ toHost'[k].version = version
      <3>1. i # 1
        BY <1>1, <2>1
      <3>2. i - 1 \in DOMAIN toHost' /\ toHost'[i - 1] = toHost[i]
        BY <1>1, <3>1
      <3> QED BY <2>1, <3>2
    <2> QED BY <2>1 DEF MarkdownInv, Mirror
  <1>5. Recent(hostVersion, hostText)'
    BY DEF MarkdownInv, Mirror, Recent
  <1> QED BY <1>2, <1>3, <1>4, <1>5 DEF Mirror, IsChange

\* The host hears of a change.
LEMMA MirrorAccept ==
  ASSUME MarkdownInv, AcceptModelChanged
  PROVE  Mirror'
  <1>1. /\ 1 \in DOMAIN toHost /\ toHost[1] = Head(toHost) /\ IsChange(toHost[1])
        /\ \A i \in DOMAIN toHost' :
             i \in Nat /\ i + 1 \in DOMAIN toHost /\ toHost'[i] = toHost[i + 1]
        /\ \A i \in DOMAIN toHost : i = 1 \/ (i - 1 \in DOMAIN toHost'
                                             /\ toHost'[i - 1] = toHost[i])
    BY HearQueue DEF MarkdownInv, IsChange, AcceptModelChanged
  <1>2. /\ hostText' = toHost[1].text /\ hostVersion' = toHost[1].version
        /\ UNCHANGED <<text, version>>
    BY <1>1 DEF AcceptModelChanged, model
  <1>3. hostVersion \in Nat /\ version \in Nat /\ toHost[1].version \in Nat
    <2>1. toHost[1] \in ToHost
      BY <1>1 DEF MarkdownInv, TypeOK
    <2> QED BY <1>1, <2>1, ToHostFields DEF MarkdownInv, TypeOK, IsChange
  <1>4. /\ Recent(toHost[1].version, toHost[1].text)
        /\ hostVersion <= toHost[1].version
    BY <1>1 DEF MarkdownInv, Mirror
  <1>5. Recent(hostVersion, hostText)'
    BY <1>2, <1>4 DEF Recent
  <1>6. \A i \in DOMAIN toHost' :
          IsChange(toHost'[i]) => /\ Recent(toHost[i].version, toHost[i].text)'
                                  /\ hostVersion' <= toHost'[i].version
    <2>1. SUFFICES ASSUME NEW i \in DOMAIN toHost', IsChange(toHost'[i])
                   PROVE  /\ Recent(toHost[i].version, toHost[i].text)'
                          /\ hostVersion' <= toHost'[i].version
      OBVIOUS
    <2>2. i + 1 \in DOMAIN toHost /\ toHost'[i] = toHost[i + 1] /\ 1 < i + 1
      <3>1. i \in Nat /\ i + 1 \in DOMAIN toHost /\ toHost'[i] = toHost[i + 1]
        BY <1>1
      <3>2. i # 0
        BY TailIndexed DEF MarkdownInv, TypeOK, AcceptModelChanged, Hear
      <3> QED BY <3>1, <3>2
    <2>3. Recent(toHost[i + 1].version, toHost[i + 1].text)
          /\ toHost[1].version <= toHost[i + 1].version
      BY <1>1, <2>1, <2>2 DEF MarkdownInv, Mirror
    <2> QED BY <1>2, <2>2, <2>3 DEF Recent
  <1>7. \A i, j \in DOMAIN toHost' :
          i < j /\ IsChange(toHost'[i]) /\ IsChange(toHost'[j])
            => toHost'[i].version <= toHost'[j].version
    BY <1>1 DEF MarkdownInv, Mirror
  <1>8. \/ hostVersion' = version
        \/ \E i \in DOMAIN toHost' : IsChange(toHost'[i]) /\ toHost'[i].version = version
    <2>1. CASE hostVersion = version
      BY <1>2, <1>3, <1>4, <2>1 DEF Recent
    <2>2. ASSUME NEW i \in DOMAIN toHost, IsChange(toHost[i]), toHost[i].version = version
          PROVE  <1>8
      <3>1. CASE i = 1
        BY <1>2, <2>2, <3>1
      <3>2. CASE i # 1
        <4>1. i - 1 \in DOMAIN toHost' /\ toHost'[i - 1] = toHost[i]
          BY <1>1, <3>2
        <4> QED BY <2>2, <4>1
      <3> QED BY <3>1, <3>2
    <2> QED BY <2>1, <2>2 DEF MarkdownInv, Mirror
  <1> QED BY <1>2, <1>5, <1>6, <1>7, <1>8 DEF Mirror, IsChange

\* The queue the host is left with when the model changes: what was there,
\* and after it the change and messages that are none.
LEMMA QueueAfterChange ==
  ASSUME MarkdownInv, NEW content \in Texts, NEW events \in ChangeEvents(content),
         NEW queue,
         \/ queue = toHost \o events
         \/ \E m \in ToHost : ~IsChange(m) /\ queue = Append(toHost \o events, m)
  PROVE  LET changed == [kind |-> "changed", text |-> content, version |-> version + 1]
         IN  /\ Len(toHost) \in Nat /\ DOMAIN toHost = 1..Len(toHost)
             /\ DOMAIN queue \subseteq Nat /\ DOMAIN toHost \subseteq DOMAIN queue
             /\ \A i \in DOMAIN toHost : queue[i] = toHost[i]
             /\ \A i \in DOMAIN queue \ DOMAIN toHost :
                  i > Len(toHost) /\ (queue[i] = changed \/ ~IsChange(queue[i]))
             /\ \E i \in DOMAIN queue : queue[i] = changed
  <1> DEFINE changed == [kind |-> "changed", text |-> content, version |-> version + 1]
             told == toHost \o events
  <1>1. version \in Nat /\ toHost \in Seq(ToHost)
    BY DEF MarkdownInv, TypeOK
  <1>2. /\ events \in Seq(ToHost)
        /\ \E i \in DOMAIN events : events[i] = changed
        /\ \A i \in DOMAIN events : events[i] = changed \/ ~IsChange(events[i])
    BY <1>1, EventsOfChange DEF IsChange
  <1> HIDE DEF changed
  <1>3. /\ told \in Seq(ToHost) /\ Len(told) = Len(toHost) + Len(events)
        /\ Len(toHost) \in Nat /\ Len(events) \in Nat
        /\ DOMAIN toHost = 1..Len(toHost) /\ DOMAIN events = 1..Len(events)
        /\ DOMAIN told = 1..(Len(toHost) + Len(events))
        /\ \A i \in 1..Len(toHost) : told[i] = toHost[i]
        /\ \A i \in 1..Len(events) : told[Len(toHost) + i] = events[i]
    BY <1>1, <1>2
  <1> HIDE DEF told
  <1>4. \A i \in DOMAIN told \ DOMAIN toHost :
          i > Len(toHost) /\ (told[i] = changed \/ ~IsChange(told[i]))
    <2>1. SUFFICES ASSUME NEW i \in DOMAIN told, i \notin DOMAIN toHost
                   PROVE  i > Len(toHost) /\ (told[i] = changed \/ ~IsChange(told[i]))
      BY <1>3
    <2>2. i > Len(toHost) /\ i - Len(toHost) \in DOMAIN events
          /\ i = Len(toHost) + (i - Len(toHost))
      BY <1>3, <2>1
    <2>3. told[i] = events[i - Len(toHost)]
      BY <1>3, <2>2
    <2> QED BY <1>2, <2>2, <2>3
  <1>5. \E i \in DOMAIN told : told[i] = changed
    <2>1. PICK i \in DOMAIN events : events[i] = changed
      BY <1>2
    <2>2. Len(toHost) + i \in DOMAIN told /\ told[Len(toHost) + i] = changed
      BY <1>3, <2>1
    <2> QED BY <2>2
  <1>6. CASE queue = told
    BY <1>3, <1>4, <1>5, <1>6 DEF changed
  <1>7. ASSUME NEW m \in ToHost, ~IsChange(m), queue = Append(told, m)
        PROVE  /\ DOMAIN queue \subseteq Nat /\ DOMAIN toHost \subseteq DOMAIN queue
               /\ \A i \in DOMAIN toHost : queue[i] = toHost[i]
               /\ \A i \in DOMAIN queue \ DOMAIN toHost :
                    i > Len(toHost) /\ (queue[i] = changed \/ ~IsChange(queue[i]))
               /\ \E i \in DOMAIN queue : queue[i] = changed
    <2>1. /\ Len(told) \in Nat /\ DOMAIN told = 1..Len(told)
          /\ DOMAIN queue = 1..(Len(told) + 1)
          /\ \A i \in 1..Len(told) : queue[i] = told[i]
          /\ queue[Len(told) + 1] = m
      BY <1>3, <1>7, AppendIndexed
    <2>2. DOMAIN told \subseteq DOMAIN queue /\ DOMAIN queue \subseteq Nat
          /\ DOMAIN toHost \subseteq DOMAIN told
      BY <1>3, <2>1
    <2>3. \A i \in DOMAIN queue : (i \in DOMAIN told /\ queue[i] = told[i])
                                  \/ (i = Len(told) + 1 /\ queue[i] = m)
      BY <2>1
    <2>4. Len(told) + 1 > Len(toHost)
      BY <1>3
    <2>5. \A i \in DOMAIN toHost : queue[i] = toHost[i]
      BY <1>3, <2>1, <2>2
    <2>6. \E i \in DOMAIN queue : queue[i] = changed
      BY <1>5, <2>1, <2>2
    <2>7. \A i \in DOMAIN queue \ DOMAIN toHost :
            i > Len(toHost) /\ (queue[i] = changed \/ ~IsChange(queue[i]))
      BY <1>4, <1>7, <2>3, <2>4
    <2> QED BY <2>2, <2>5, <2>6, <2>7
  <1> QED BY <1>3, <1>6, <1>7 DEF told, changed

\* The model changes: what was recorded is now of the past.
LEMMA MirrorChange ==
  ASSUME MarkdownInv, NEW content \in Texts, ChangeModel(content),
         NEW events \in ChangeEvents(content),
         \/ toHost' = toHost \o events
         \/ \E m \in ToHost : ~IsChange(m) /\ toHost' = Append(toHost \o events, m),
         UNCHANGED <<hostText, hostVersion>>
  PROVE  Mirror'
  <1> DEFINE changed == [kind |-> "changed", text |-> content, version |-> version + 1]
  <1>1. /\ Len(toHost) \in Nat /\ DOMAIN toHost = 1..Len(toHost)
        /\ DOMAIN toHost' \subseteq Nat
        /\ \A i \in DOMAIN toHost : toHost'[i] = toHost[i]
        /\ \A i \in DOMAIN toHost' \ DOMAIN toHost :
             i > Len(toHost) /\ (toHost'[i] = changed \/ ~IsChange(toHost'[i]))
        /\ \E i \in DOMAIN toHost' : toHost'[i] = changed
    BY QueueAfterChange
  <1>2. /\ version \in Nat /\ hostVersion \in Nat
        /\ version' = version + 1 /\ text' = content
    BY DEF MarkdownInv, TypeOK, ChangeModel
  <1>3. /\ IsChange(changed) /\ changed.version = version' /\ changed.text = text'
    BY <1>2 DEF IsChange
  <1> HIDE DEF changed
  <1>4. \A i \in DOMAIN toHost :
          IsChange(toHost[i]) => /\ toHost[i].version \in Nat
                                 /\ toHost[i].version < version'
                                 /\ hostVersion <= toHost[i].version
    <2>1. \A i \in DOMAIN toHost : toHost[i] \in ToHost
      BY DEF MarkdownInv, TypeOK
    <2>2. \A i \in DOMAIN toHost : IsChange(toHost[i]) => toHost[i].version \in Nat
      BY <2>1, ToHostFields DEF IsChange
    <2> QED BY <1>2, <2>2 DEF MarkdownInv, Mirror, Recent
  <1>5. hostVersion' < version'
    BY <1>2 DEF MarkdownInv, Mirror, Recent
  <1>6. Recent(hostVersion, hostText)'
    BY <1>2, <1>5 DEF Recent
  <1>7. \A i \in DOMAIN toHost' :
          IsChange(toHost'[i]) => /\ toHost'[i].version \in Nat
                                  /\ \/ i \in DOMAIN toHost
                                     \/ i > Len(toHost) /\ toHost'[i] = changed
    BY <1>1, <1>2, <1>3, <1>4
  <1>8. \A i \in DOMAIN toHost' :
          IsChange(toHost'[i]) => /\ Recent(toHost[i].version, toHost[i].text)'
                                  /\ hostVersion' <= toHost'[i].version
    BY <1>1, <1>2, <1>3, <1>4, <1>5, <1>7 DEF Recent
  <1>9. \A i, j \in DOMAIN toHost' :
          i < j /\ IsChange(toHost'[i]) /\ IsChange(toHost'[j])
            => toHost'[i].version <= toHost'[j].version
    <2>1. SUFFICES ASSUME NEW i \in DOMAIN toHost', NEW j \in DOMAIN toHost',
                          i < j, IsChange(toHost'[i]), IsChange(toHost'[j])
                   PROVE  toHost'[i].version <= toHost'[j].version
      OBVIOUS
    <2>2. CASE j \in DOMAIN toHost
      <3>1. i \in DOMAIN toHost
        BY <1>1, <1>7, <2>1, <2>2
      <3> QED BY <1>1, <2>1, <2>2, <3>1 DEF MarkdownInv, Mirror
    <2>3. CASE toHost'[j] = changed
      BY <1>2, <1>3, <1>8, <2>1, <2>3 DEF Recent
    <2> QED BY <1>7, <2>1, <2>2, <2>3
  <1>10. \E i \in DOMAIN toHost' : IsChange(toHost'[i]) /\ toHost'[i].version = version'
    BY <1>1, <1>3
  <1> QED BY <1>6, <1>8, <1>9, <1>10 DEF Mirror, IsChange

LEMMA QuotesChange ==
  ASSUME MarkdownInv, NEW content, ChangeModel(content),
         \A i \in DOMAIN toModel' : \E j \in DOMAIN toModel : toModel'[i] = toModel[j],
         \A i \in DOMAIN preparing' :
           \E j \in DOMAIN preparing : preparing'[i] = preparing[j]
  PROVE  Quotes'
  <1>1. /\ \A j \in DOMAIN toModel : toModel[j].version \in Nat
                                     /\ toModel[j].version <= version
        /\ \A j \in DOMAIN preparing : preparing[j].version \in Nat
                                       /\ preparing[j].version <= version
    <2>1. /\ \A j \in DOMAIN toModel : toModel[j] \in WorkspaceEdit
          /\ \A j \in DOMAIN preparing : preparing[j] \in WorkspaceEdit
      BY DEF MarkdownInv, TypeOK
    <2> QED BY <2>1 DEF MarkdownInv, Quotes, Recent, WorkspaceEdit
  <1>2. version \in Nat /\ version' = version + 1
    BY DEF MarkdownInv, TypeOK, ChangeModel
  <1>4. \A i \in DOMAIN toModel' : Recent(toModel[i].version, toModel[i].base)'
    BY <1>1, <1>2 DEF Recent
  <1>5. \A i \in DOMAIN preparing' : Recent(preparing[i].version, preparing[i].base)'
    BY <1>1, <1>2 DEF Recent
  <1> QED BY <1>4, <1>5 DEF Quotes

----------------------------------------------------------------------------
(* Every step. *)

LEMMA PeopleKeep ==
  ASSUME MarkdownInv, People
  PROVE  Mirror' /\ Quotes'
  <1> USE DEF MarkdownInv
  <1>1. ASSUME NEW p \in Panels, Open(p) PROVE Mirror' /\ Quotes'
    BY <1>1, MirrorKept, QuotesKept DEF Open, model
  <1>2. ASSUME NEW p \in Panels, NEW content \in Texts, Type(p, content)
        PROVE  Mirror' /\ Quotes'
    BY <1>2, MirrorKept, QuotesKept DEF Type, model, host
  <1>3. ASSUME NEW content \in Texts, EditElsewhere(content)
        PROVE  Mirror' /\ Quotes'
    <2>1. PICK events \in ChangeEvents(content) : toHost' = toHost \o events
      BY <1>3 DEF EditElsewhere
    <2>2. /\ ChangeModel(content)
          /\ UNCHANGED <<hostText, hostVersion, toModel, preparing>>
      BY <1>3 DEF EditElsewhere, host
    <2>3. Mirror'
      BY <2>1, <2>2, MirrorChange
    <2>4. Quotes'
      BY <2>2, QuotesChange
    <2> QED BY <2>3, <2>4
  <1>4. ASSUME Save PROVE Mirror' /\ Quotes'
    <2>1. ~IsChange([kind |-> "dirty"])
      BY DEF IsChange
    <2> QED BY <1>4, <2>1, DirtyMessage, MirrorAppend, QuotesKept DEF Save, host
  <1> QED BY <1>1, <1>2, <1>3, <1>4 DEF People

LEMMA ReplyIsNoChange ==
  ASSUME NEW edit \in WorkspaceEdit, NEW b \in BOOLEAN
  PROVE  Reply(edit, b) \in ToHost /\ ~IsChange(Reply(edit, b))
  BY HostMessages DEF Reply, WorkspaceEdit, IsChange

LEMMA ReceiveEditKeeps ==
  ASSUME MarkdownInv, ReceiveEdit
  PROVE  Mirror' /\ Quotes'
  <1> USE DEF MarkdownInv
  <1> DEFINE edit == Head(toModel)
  <1>1. /\ toModel \in Seq(WorkspaceEdit) /\ toModel # <<>> /\ toModel' = Tail(toModel)
        /\ preparing \in Seq(WorkspaceEdit)
    BY DEF TypeOK, ReceiveEdit
  <1>2. /\ Len(toModel) \in Nat /\ Len(toModel) >= 1 /\ DOMAIN toModel = 1..Len(toModel)
        /\ DOMAIN toModel' = 1..(Len(toModel) - 1)
        /\ edit = toModel[1] /\ edit \in WorkspaceEdit
        /\ \A i \in 1..(Len(toModel) - 1) : toModel'[i] = toModel[i + 1]
    BY <1>1, TailIndexed
  <1>3. 1 \in DOMAIN toModel
        /\ \A i \in DOMAIN toModel' : i + 1 \in DOMAIN toModel /\ toModel'[i] = toModel[i + 1]
    BY <1>2
  <1>4. UNCHANGED <<text, version, hostText, hostVersion>>
    BY DEF ReceiveEdit, Reject, host
  <1>5. Recent(edit.version, edit.base)
    BY <1>2, <1>3 DEF Quotes
  <1>6. \A i \in DOMAIN toModel' : Recent(toModel[i].version, toModel[i].base)'
    BY <1>3, <1>4 DEF Quotes, Recent
  <1>7. CASE edit.version = version
    <2>1. preparing' = Append(preparing, edit) /\ toHost' = toHost
      BY <1>7 DEF ReceiveEdit
    <2> HIDE DEF edit
    <2>2. /\ DOMAIN preparing = 1..Len(preparing) /\ Len(preparing) \in Nat
          /\ DOMAIN preparing' = 1..(Len(preparing) + 1)
          /\ \A i \in 1..Len(preparing) : preparing'[i] = preparing[i]
          /\ preparing'[Len(preparing) + 1] = edit
      BY <1>1, <1>2, <2>1, AppendIndexed
    <2>3. \A i \in DOMAIN preparing' : \/ i \in DOMAIN preparing
                                          /\ preparing'[i] = preparing[i]
                                       \/ preparing'[i] = edit
      BY <2>2
    <2>4. \A i \in DOMAIN preparing' : Recent(preparing[i].version, preparing[i].base)'
      BY <1>4, <1>5, <2>3 DEF Quotes, Recent
    <2> QED BY <1>4, <1>6, <2>1, <2>4, MirrorKept DEF Quotes
  <1>8. CASE edit.version # version
    <2>1. toHost' = Append(toHost, Reply(edit, FALSE)) /\ preparing' = preparing
      BY <1>8 DEF ReceiveEdit, Reject
    <2> HIDE DEF edit
    <2>2. Mirror'
      BY <1>2, <1>4, <2>1, ReplyIsNoChange, MirrorAppend
    <2> QED BY <1>4, <1>6, <2>1, <2>2 DEF Quotes, Recent
  <1> QED BY <1>7, <1>8

LEMMA ApplyEditKeeps ==
  ASSUME MarkdownInv, ApplyEdit
  PROVE  Mirror' /\ Quotes'
  <1> USE DEF MarkdownInv
  <1> DEFINE edit == Head(preparing)
  <1>1. /\ preparing \in Seq(WorkspaceEdit) /\ preparing # <<>>
        /\ preparing' = Tail(preparing)
    BY DEF TypeOK, ApplyEdit
  <1>2. /\ Len(preparing) \in Nat /\ Len(preparing) >= 1
        /\ DOMAIN preparing = 1..Len(preparing)
        /\ DOMAIN preparing' = 1..(Len(preparing) - 1)
        /\ edit \in WorkspaceEdit
        /\ \A i \in 1..(Len(preparing) - 1) : preparing'[i] = preparing[i + 1]
    BY <1>1, TailIndexed
  <1>3. \A i \in DOMAIN preparing' :
          i + 1 \in DOMAIN preparing /\ preparing'[i] = preparing[i + 1]
    BY <1>2
  <1>4. UNCHANGED <<hostText, hostVersion, toModel>>
    BY DEF ApplyEdit, host
  <1>5. edit.content \in Texts
    BY <1>2 DEF WorkspaceEdit
  <1>6. CASE edit.version = version
    <2>1. PICK events \in ChangeEvents(edit.content) :
            toHost' = Append(toHost \o events, Reply(edit, TRUE))
      BY <1>6 DEF ApplyEdit, Accept
    <2>2. ChangeModel(edit.content)
      BY <1>6 DEF ApplyEdit, Accept
    <2> HIDE DEF edit
    <2>3. Reply(edit, TRUE) \in ToHost /\ ~IsChange(Reply(edit, TRUE))
      BY <1>2, ReplyIsNoChange
    <2>4. Mirror'
      BY <1>4, <1>5, <2>1, <2>2, <2>3, MirrorChange
    <2>5. Quotes'
      BY <1>3, <1>4, <2>2, QuotesChange
    <2> QED BY <2>4, <2>5
  <1>7. CASE edit.version # version
    <2>1. toHost' = Append(toHost, Reply(edit, FALSE)) /\ UNCHANGED <<text, version>>
      BY <1>7 DEF ApplyEdit, Reject
    <2> HIDE DEF edit
    <2>2. Mirror'
      BY <1>2, <1>4, <2>1, ReplyIsNoChange, MirrorAppend
    <2>3. Quotes'
      BY <1>3, <1>4, <2>1 DEF Quotes, Recent
    <2> QED BY <2>2, <2>3
  <1> QED BY <1>6, <1>7

LEMMA RendererKeeps ==
  ASSUME MarkdownInv, Renderer
  PROVE  Mirror' /\ Quotes'
  <1> USE DEF MarkdownInv
  <1>1. ASSUME NEW p \in Panels, Forward(p) PROVE Mirror' /\ Quotes'
    <2> DEFINE m == [kind |-> "view", panel |-> p, message |-> Head(fromView[p])]
    <2>1. Head(fromView[p]) \in FromView
      BY <1>1 DEF TypeOK, Forward
    <2>2. m \in ToHost /\ ~IsChange(m)
      BY <2>1, HostMessages DEF IsChange
    <2>3. toHost' = Append(toHost, m)
      BY <1>1 DEF Forward
    <2> HIDE DEF m
    <2> QED BY <1>1, <2>2, <2>3, MirrorAppend, QuotesKept DEF Forward, model, host
  <1> QED BY <1>1, ReceiveEditKeeps, ApplyEditKeeps DEF Renderer

\* An edit quotes the host's copy.
LEMMA HandleEditQuotes ==
  ASSUME MarkdownInv, HandleEdit
  PROVE  Quotes'
  <1> USE DEF MarkdownInv
  <1>1. UNCHANGED <<text, version, preparing>>
    BY DEF HandleEdit, model
  <1>2. CASE Head(toHost).message.content = hostText
    BY <1>1, <1>2, QuotesKept DEF HandleEdit
  <1>3. CASE Head(toHost).message.content # hostText
    <2> DEFINE edit == [panel |-> Head(toHost).panel,
                        content |-> Head(toHost).message.content,
                        version |-> hostVersion, base |-> hostText]
    <2>1. edit \in WorkspaceEdit
      <3>1. Head(toHost) \in ToHost /\ Head(toHost).kind = "view"
        BY HearTypes DEF HandleEdit
      <3>2. Head(toHost).panel \in Panels /\ Head(toHost).message.content \in Texts
        BY <3>1, ToHostFields DEF HandleEdit
      <3> QED BY <3>2 DEF WorkspaceEdit, TypeOK
    <2>2. toModel' = Append(toModel, edit)
      BY <1>3 DEF HandleEdit, SendEdit
    <2>3. Recent(edit.version, edit.base)
      BY DEF Mirror
    <2> HIDE DEF edit
    <2>4. /\ DOMAIN toModel = 1..Len(toModel) /\ Len(toModel) \in Nat
          /\ DOMAIN toModel' = 1..(Len(toModel) + 1)
          /\ \A i \in 1..Len(toModel) : toModel'[i] = toModel[i]
          /\ toModel'[Len(toModel) + 1] = edit
      BY <2>1, <2>2, AppendIndexed DEF TypeOK
    <2>5. \A i \in DOMAIN toModel' : \/ i \in DOMAIN toModel /\ toModel'[i] = toModel[i]
                                     \/ toModel'[i] = edit
      BY <2>4
    <2> QED BY <1>1, <2>3, <2>5 DEF Quotes, Recent
  <1> QED BY <1>2, <1>3

LEMMA HostKeeps ==
  ASSUME MarkdownInv, Host
  PROVE  Mirror' /\ Quotes'
  <1> USE DEF MarkdownInv
  <1>1. CASE AcceptModelChanged
    BY <1>1, MirrorAccept, QuotesKept DEF AcceptModelChanged, model
  <1>2. CASE AcceptDirtyStateChanged
    <2>1. Hear("dirty") /\ "dirty" # "changed"
          /\ UNCHANGED <<text, version, hostText, hostVersion, toModel, preparing>>
      BY <1>2 DEF AcceptDirtyStateChanged, model, host
    <2> QED BY <2>1, MirrorHear, QuotesKept
  <1>3. CASE HandleReady
    <2>1. Hear("view") /\ "view" # "changed"
          /\ UNCHANGED <<text, version, hostText, hostVersion, toModel, preparing>>
      BY <1>3 DEF HandleReady, model, host
    <2> QED BY <2>1, MirrorHear, QuotesKept
  <1>4. CASE HandleEdit
    <2>1. Hear("view") /\ "view" # "changed"
          /\ UNCHANGED <<text, version, hostText, hostVersion>>
      BY <1>4 DEF HandleEdit, model
    <2> QED BY <1>4, <2>1, MirrorHear, HandleEditQuotes
  <1>5. CASE HandleReply
    <2>1. Hear("reply") /\ "reply" # "changed"
          /\ UNCHANGED <<text, version, hostText, hostVersion, toModel, preparing>>
      BY <1>5 DEF HandleReply, model
    <2> QED BY <2>1, MirrorHear, QuotesKept
  <1> QED BY <1>1, <1>2, <1>3, <1>4, <1>5 DEF Host

LEMMA InvNext == MarkdownInv /\ [Next]_vars => MarkdownInv'
  <1> SUFFICES ASSUME MarkdownInv, [Next]_vars PROVE MarkdownInv'
    OBVIOUS
  <1>1. TypeOK'
    BY TypesNext DEF MarkdownInv
  <1>2. ASSUME NEW p \in Panels, Webview(p) PROVE Mirror' /\ Quotes'
    BY <1>2, MirrorKept, QuotesKept
       DEF MarkdownInv, Webview, HandleInit, HandleUpdate, model, host
  <1>3. ASSUME UNCHANGED vars PROVE Mirror' /\ Quotes'
    BY <1>3, MirrorKept, QuotesKept DEF MarkdownInv, vars, model, host
  <1>4. Mirror' /\ Quotes'
    BY <1>2, <1>3, PeopleKeep, RendererKeeps, HostKeeps DEF Next
  <1> QED BY <1>1, <1>4 DEF MarkdownInv

LEMMA InvAlways == Spec => []MarkdownInv
  <1>1. Init => MarkdownInv
    BY TypesInit, InvInit DEF MarkdownInv
  <1> QED BY <1>1, InvNext, PTL DEF Spec

----------------------------------------------------------------------------
(* What a reader should know. *)

\* Once the renderer's events have been heard the host's TextDocument is the
\* model, however many panels and edits there are.
THEOREM MarkdownHostMirrorsModel == Spec => []HostMirrorsModel
  <1>1. MarkdownInv => HostMirrorsModel
    BY DEF MarkdownInv, Mirror, Recent, IsChange, HostMirrorsModel, ChangeInFlight
  <1> QED BY <1>1, InvAlways, PTL

\* An edit that is applied replaces the text the host compared its content
\* with: nothing that changed after the comparison is overwritten.
THEOREM MarkdownEditReplacesComparedText == Spec => EditReplacesComparedText
  <1>1. ASSUME MarkdownInv, Next, preparing # <<>>, preparing' = Tail(preparing),
               version' # version
        PROVE  Head(preparing).base = text
    <2>1. preparing \in Seq(WorkspaceEdit) /\ version \in Nat
      BY <1>1 DEF MarkdownInv, TypeOK
    <2>2. preparing' # preparing /\ Head(preparing) = preparing[1]
          /\ 1 \in DOMAIN preparing
      <3>1. /\ Len(preparing) \in Nat /\ Len(preparing) >= 1
            /\ DOMAIN preparing = 1..Len(preparing)
            /\ DOMAIN preparing' = 1..(Len(preparing) - 1)
            /\ Head(preparing) = preparing[1]
        BY <1>1, <2>1, TailIndexed
      <3>2. Len(preparing) \in DOMAIN preparing /\ Len(preparing) \notin DOMAIN preparing'
        BY <3>1
      <3> QED BY <3>1, <3>2
    <2>3. ApplyEdit
      <3>1. ~People
        BY <1>1, <2>2 DEF People, Open, Type, EditElsewhere, Save, model
      <3>2. ~Host
        BY <1>1 DEF Host, AcceptModelChanged, AcceptDirtyStateChanged, HandleReady,
                    HandleEdit, HandleReply, model
      <3>3. ~\E p \in Panels : Webview(p)
        BY <1>1 DEF Webview, HandleInit, HandleUpdate, model
      <3>4. ~ReceiveEdit
        BY <1>1 DEF ReceiveEdit, Reject
      <3>5. ~\E p \in Panels : Forward(p)
        BY <1>1 DEF Forward, model
      <3> QED BY <1>1, <3>1, <3>2, <3>3, <3>4, <3>5 DEF Next, Renderer
    <2>4. Head(preparing).version = version
      BY <1>1, <2>3 DEF ApplyEdit, Reject
    <2> QED BY <1>1, <2>2, <2>4 DEF MarkdownInv, Quotes, Recent
  <1>2. MarkdownInv /\ [Next]_vars =>
          [preparing # <<>> /\ preparing' = Tail(preparing) /\ version' # version
             => Head(preparing).base = text]_vars
    BY <1>1
  <1> QED BY <1>2, InvAlways, PTL DEF EditReplacesComparedText, Spec

----------------------------------------------------------------------------
(* One thing at a time.  When people wait until nothing is in flight       *)
(* (Patient), what one act sets off runs through the phases below, and the *)
(* next act finds every panel showing the document.                        *)

Change == [kind |-> "changed", text |-> text, version |-> version]
BecameDirty == [kind |-> "dirty"]

\* What the host may still have to hear of one change, or of a save.
News == {<<>>, <<BecameDirty>>, <<Change>>, <<Change, BecameDirty>>, <<BecameDirty, Change>>}

HostInStep == hostText = text /\ hostVersion = version
ToldBy(news) == news \in {<<>>, <<BecameDirty>>} => HostInStep

NothingPosted == \A p \in Panels : fromView[p] = <<>>
NothingToShow == \A p \in Panels : toView[p] = <<>>
NoEdits == toModel = <<>> /\ preparing = <<>>
UpdatesOnly == \A p \in Panels : \A i \in DOMAIN toView[p] : toView[p][i].kind = "update"
WiredInitialized == \A p \in Panels : initialized[p] <=> p \in wired
FlagsDown == \A p \in Panels : ~isUpdatingFromWebview[p]
OnlyFlag(p) == \A q \in Panels : isUpdatingFromWebview[q] <=> q = p

\* What a panel shows when it has handled what was posted to it.
Shown(p) == IF toView[p] = <<>> THEN viewText[p] ELSE toView[p][Len(toView[p])].content

\* Nobody's content is on its way: the panels show the document, or are about
\* to be told of it.
Resting ==
  /\ NothingPosted /\ NoEdits /\ UpdatesOnly /\ WiredInitialized /\ FlagsDown
  /\ toHost \in News /\ ToldBy(toHost)
  /\ toHost = <<>> => \A p \in wired : Shown(p) = text

\* A panel has been opened, and its webview is not initialised yet.
Opening(p) ==
  /\ NoEdits /\ FlagsDown /\ HostInStep /\ p \in wired /\ ~initialized[p]
  /\ \A q \in Panels \ {p} : /\ initialized[q] <=> q \in wired
                             /\ fromView[q] = <<>> /\ toView[q] = <<>>
                             /\ q \in wired => viewText[q] = text
  /\ \/ /\ fromView[p] = <<[kind |-> "ready"]>> /\ toHost = <<>> /\ toView[p] = <<>>
     \/ /\ fromView[p] = <<>> /\ toView[p] = <<>>
        /\ toHost = <<[kind |-> "view", panel |-> p, message |-> [kind |-> "ready"]]>>
     \/ /\ fromView[p] = <<>> /\ toHost = <<>>
        /\ toView[p] = <<[kind |-> "init", content |-> text]>>

OthersShow(p) == \A q \in wired \ {p} : viewText[q] = text

\* A panel has posted its content, which is the document's or was typed.
Posted(p) ==
  /\ NoEdits /\ FlagsDown /\ HostInStep /\ p \in wired
  /\ NothingToShow /\ WiredInitialized /\ OthersShow(p)
  /\ viewText[p] = text \/ p \in typed
  /\ \A q \in Panels \ {p} : fromView[q] = <<>>
  /\ LET message == [kind |-> "edit", content |-> viewText[p]]
     IN \/ fromView[p] = <<message>> /\ toHost = <<>>
        \/ /\ fromView[p] = <<>>
           /\ toHost = <<[kind |-> "view", panel |-> p, message |-> message]>>

CarriesView(edit, p) ==
  edit.panel = p /\ edit.content = viewText[p] /\ edit.version = version

\* The host has sent it on to the renderer.
Sent(p) ==
  /\ OnlyFlag(p) /\ HostInStep /\ p \in wired /\ p \in typed
  /\ NothingPosted /\ NothingToShow /\ WiredInitialized /\ OthersShow(p)
  /\ toHost = <<>>
  /\ \/ preparing = <<>> /\ Len(toModel) = 1 /\ CarriesView(toModel[1], p)
     \/ toModel = <<>> /\ Len(preparing) = 1 /\ CarriesView(preparing[1], p)

\* The renderer has applied it; the others are about to be told.
Applied(p) ==
  /\ OnlyFlag(p) /\ p \in wired
  /\ NothingPosted /\ NoEdits /\ UpdatesOnly /\ WiredInitialized
  /\ toView[p] = <<>> /\ viewText[p] = text
  /\ \E news \in News :
       /\ toHost = Append(news, [kind |-> "reply", panel |-> p, isApplied |-> TRUE])
       /\ ToldBy(news)
       /\ news = <<>> => \A q \in wired \ {p} : Shown(q) = text

OneAtATime == \/ Resting
              \/ \E p \in Panels : Opening(p) \/ Posted(p) \/ Sent(p) \/ Applied(p)

\* The news of a change or a save, message by message.
LEMMA NewsShape ==
  ASSUME NEW news \in News, news # <<>>
  PROVE  /\ Tail(news) \in News
         /\ \/ Head(news) = Change /\ Tail(news) \in {<<>>, <<BecameDirty>>}
            \/ Head(news) = BecameDirty /\ Tail(news) \in {<<>>, <<Change>>}
         /\ Head(news) = BecameDirty /\ Tail(news) = <<>> => news = <<BecameDirty>>
<1>1. CASE news = <<BecameDirty>>
  BY <1>1 DEF News
<1>2. CASE news = <<Change>>
  BY <1>2 DEF News, Change, BecameDirty
<1>3. CASE news = <<Change, BecameDirty>>
  BY <1>3 DEF News, Change, BecameDirty
<1>4. CASE news = <<BecameDirty, Change>>
  BY <1>4 DEF News
<1>. QED  BY <1>1, <1>2, <1>3, <1>4 DEF News

LEMMA NewsThenReply ==
  ASSUME NEW news \in News, NEW m
  PROVE  /\ Append(news, m) # <<>>
         /\ news = <<>> => Head(Append(news, m)) = m /\ Tail(Append(news, m)) = <<>>
         /\ news # <<>> => /\ Head(Append(news, m)) = Head(news)
                           /\ Tail(Append(news, m)) = Append(Tail(news), m)
<1>1. CASE news = <<>>
  BY <1>1
<1>2. CASE news = <<BecameDirty>>
  BY <1>2
<1>3. CASE news = <<Change>>
  BY <1>3
<1>4. CASE news = <<Change, BecameDirty>>
  BY <1>4
<1>5. CASE news = <<BecameDirty, Change>>
  BY <1>5
<1>. QED  BY <1>1, <1>2, <1>3, <1>4, <1>5 DEF News

LEMMA NewsKinds ==
  ASSUME NEW news \in News, news # <<>>
  PROVE  Head(news).kind \in {"changed", "dirty"}
BY NewsShape DEF Change, BecameDirty

\* A change is news.
LEMMA ChangeIsNews ==
  ASSUME NEW content, ChangeModel(content), NEW events \in ChangeEvents(content)
  PROVE  events \in News' /\ events # <<>> /\ ToldBy(events)'
<1>. DEFINE changed == [kind |-> "changed", text |-> content, version |-> version + 1]
            becameDirty == [kind |-> "dirty"]
<1>1. Change' = changed /\ BecameDirty' = becameDirty /\ changed # becameDirty
  <2>1. changed.kind # becameDirty.kind
    OBVIOUS
  <2>. QED  BY <2>1 DEF Change, BecameDirty, ChangeModel
<1>2. \/ events = <<changed>>
      \/ events = <<changed, becameDirty>>
      \/ events = <<becameDirty, changed>>
  BY DEF ChangeEvents
<1>. HIDE DEF changed, becameDirty
<1>3. events \in News'
  BY <1>1, <1>2 DEF News
<1>4. events \notin {<<>>, <<becameDirty>>}
  <2>1. CASE events = <<changed>>
    <3>1. events[1] = changed /\ <<becameDirty>>[1] = becameDirty
      BY <2>1
    <3>. QED  BY <1>1, <2>1, <3>1
  <2>2. CASE events = <<changed, becameDirty>> \/ events = <<becameDirty, changed>>
    <3>1. DOMAIN events = 1..2 /\ DOMAIN <<becameDirty>> = 1..1 /\ events # <<>>
      BY <2>2
    <3>2. 2 \in 1..2 /\ 2 \notin 1..1
      OBVIOUS
    <3>. QED  BY <3>1, <3>2
  <2>. QED  BY <1>2, <2>1, <2>2
<1>. QED  BY <1>1, <1>3, <1>4 DEF ToldBy

\* An update that is posted is what the panel will show.
LEMMA PostedShows ==
  ASSUME TypeOK, UpdatesOnly, NEW content \in Texts, PostUpdates(content), UNCHANGED viewText
  PROVE  /\ UpdatesOnly'
         /\ \A q \in Panels :
              IF q \in wired /\ ~isUpdatingFromWebview[q] THEN Shown(q)' = content
              ELSE toView'[q] = toView[q] /\ Shown(q)' = Shown(q)
<1>. SUFFICES ASSUME NEW q \in Panels
              PROVE  /\ \A i \in DOMAIN toView'[q] : toView'[q][i].kind = "update"
                     /\ IF q \in wired /\ ~isUpdatingFromWebview[q] THEN Shown(q)' = content
                        ELSE toView'[q] = toView[q] /\ Shown(q)' = Shown(q)
  BY DEF UpdatesOnly
<1>1. CASE q \in wired /\ ~isUpdatingFromWebview[q]
  <2>. DEFINE m == [kind |-> "update", content |-> content]
  <2>1. toView'[q] = Append(toView[q], m) /\ toView[q] \in Seq(ToView) /\ m \in ToView
    BY <1>1, ViewMessages DEF PostUpdates, TypeOK
  <2>2. m.kind = "update" /\ m.content = content
    OBVIOUS
  <2>. HIDE DEF m
  <2>3. /\ Len(toView[q]) \in Nat /\ DOMAIN toView[q] = 1..Len(toView[q])
        /\ DOMAIN toView'[q] = 1..(Len(toView[q]) + 1)
        /\ \A i \in 1..Len(toView[q]) : toView'[q][i] = toView[q][i]
        /\ toView'[q][Len(toView[q]) + 1] = m
    BY <2>1, AppendIndexed
  <2>4. \A i \in DOMAIN toView'[q] : toView'[q][i].kind = "update"
    BY <2>2, <2>3 DEF UpdatesOnly
  <2>5. toView'[q] # <<>> /\ Len(toView'[q]) = Len(toView[q]) + 1
    BY <2>1
  <2>. QED  BY <1>1, <2>2, <2>3, <2>4, <2>5 DEF Shown
<1>2. CASE ~(q \in wired /\ ~isUpdatingFromWebview[q])
  <2>1. toView'[q] = toView[q]
    BY <1>2 DEF PostUpdates
  <2>. QED  BY <1>2, <2>1 DEF UpdatesOnly, Shown
<1>. QED  BY <1>1, <1>2

\* Handling an update changes nothing of what the panel will show.
LEMMA UpdateShows ==
  ASSUME TypeOK, UpdatesOnly, NEW p \in Panels, HandleUpdate(p)
  PROVE  /\ UpdatesOnly'
         /\ \A q \in Panels : Shown(q)' = Shown(q)
         /\ \A q \in Panels \ {p} : toView'[q] = toView[q] /\ viewText'[q] = viewText[q]
<1>. DEFINE s == toView[p]
<1>1. /\ s \in Seq(ToView) /\ s # <<>> /\ toView'[p] = Tail(s)
      /\ viewText'[p] = Head(s).content
      /\ \A q \in Panels \ {p} : toView'[q] = toView[q] /\ viewText'[q] = viewText[q]
  BY DEF HandleUpdate, Deliver, TypeOK
<1>2. \A i \in DOMAIN s : s[i].kind = "update"
  BY DEF UpdatesOnly
<1>. HIDE DEF s
<1>3. /\ Len(s) \in Nat /\ Len(s) >= 1 /\ DOMAIN s = 1..Len(s)
      /\ DOMAIN Tail(s) = 1..(Len(s) - 1) /\ Len(Tail(s)) = Len(s) - 1
      /\ Head(s) = s[1]
      /\ \A i \in 1..(Len(s) - 1) : Tail(s)[i] = s[i + 1]
  BY <1>1
<1>4. \A i \in DOMAIN Tail(s) : Tail(s)[i].kind = "update"
  <2>. SUFFICES ASSUME NEW i \in 1..(Len(s) - 1) PROVE Tail(s)[i].kind = "update"
    BY <1>3
  <2>1. i + 1 \in 1..Len(s) /\ Tail(s)[i] = s[i + 1]
    BY <1>3
  <2>. QED  BY <1>2, <1>3, <2>1
<1>5. UpdatesOnly'
  BY <1>1, <1>4 DEF UpdatesOnly
<1>6. Shown(p)' = s[Len(s)].content
  <2>1. CASE Len(s) = 1
    <3>1. Tail(s) = <<>>
      BY <1>1, <2>1
    <3>. QED  BY <1>1, <1>3, <2>1, <3>1 DEF Shown
  <2>2. CASE Len(s) # 1
    <3>1. Tail(s) # <<>> /\ Len(s) - 1 \in 1..(Len(s) - 1) /\ (Len(s) - 1) + 1 = Len(s)
      BY <1>3, <2>2
    <3>2. Tail(s)[Len(s) - 1] = s[Len(s)]
      BY <1>3, <3>1
    <3>. QED  BY <1>1, <1>3, <3>1, <3>2 DEF Shown
  <2>. QED  BY <2>1, <2>2
<1>7. Shown(p) = s[Len(s)].content
  BY <1>1 DEF Shown, s
<1>. QED  BY <1>1, <1>5, <1>6, <1>7 DEF Shown

\* The host hears news: it is in step when it has heard all, and what it has
\* posted last to the panels whose flag is down is the document.
LEMMA NewsHeard ==
  ASSUME TypeOK, UpdatesOnly, NEW news \in News, news # <<>>, ToldBy(news),
         Head(toHost) = Head(news), AcceptModelChanged \/ AcceptDirtyStateChanged
  PROVE  /\ Tail(news) \in News' /\ ToldBy(Tail(news))' /\ UpdatesOnly'
         /\ toHost # <<>> /\ toHost' = Tail(toHost)
         /\ UNCHANGED <<text, version, preparing, toModel, wired, isUpdatingFromWebview,
                        viewText, initialized, typed, fromView>>
         /\ \A q \in Panels :
              IF q \in wired /\ ~isUpdatingFromWebview[q]
              THEN Tail(news) = <<>> => Shown(q)' = text
              ELSE toView'[q] = toView[q] /\ Shown(q)' = Shown(q)
<1>1. /\ toHost # <<>> /\ toHost' = Tail(toHost)
      /\ UNCHANGED <<text, version, preparing, toModel, wired, isUpdatingFromWebview,
                     viewText, initialized, typed, fromView>>
  BY DEF AcceptModelChanged, AcceptDirtyStateChanged, Hear, model, host, views
<1>2. News' = News /\ Change' = Change /\ BecameDirty' = BecameDirty
  BY <1>1 DEF News, Change, BecameDirty
<1>3. CASE AcceptModelChanged
  <2>1. Head(news) = Change
    <3>1. Head(news).kind = "changed"
      BY <1>3 DEF AcceptModelChanged, Hear
    <3>2. BecameDirty.kind # "changed"
      BY DEF BecameDirty
    <3>. QED  BY <3>1, <3>2, NewsShape
  <2>2. hostText' = text /\ hostVersion' = version /\ PostUpdates(text)
    BY <1>3, <2>1 DEF AcceptModelChanged, Change
  <2>3. ToldBy(Tail(news))'
    BY <1>1, <2>2 DEF ToldBy, HostInStep
  <2>4. text \in Texts
    BY DEF TypeOK
  <2>. QED  BY <1>1, <1>2, <2>2, <2>3, <2>4, NewsShape, PostedShows
<1>4. CASE AcceptDirtyStateChanged
  <2>1. Head(news) = BecameDirty
    <3>1. Head(news).kind = "dirty"
      BY <1>4 DEF AcceptDirtyStateChanged, Hear
    <3>2. Change.kind # "dirty"
      BY DEF Change
    <3>. QED  BY <3>1, <3>2, NewsShape
  <2>2. UNCHANGED <<hostText, hostVersion>> /\ PostUpdates(hostText) /\ hostText \in Texts
    BY <1>4 DEF AcceptDirtyStateChanged, host, TypeOK
  <2>3. Tail(news) = <<>> => HostInStep
    BY <2>1, NewsShape DEF ToldBy
  <2>4. Tail(news) = <<>> \/ Tail(news) = <<Change>>
    <3>1. Change # BecameDirty
      <4>1. Change.kind # BecameDirty.kind
        BY DEF Change, BecameDirty
      <4>. QED  BY <4>1
    <3>. QED  BY <2>1, <3>1, NewsShape
  <2>5. <<Change>> # <<BecameDirty>> /\ <<Change>> # <<>>
    <3>1. <<Change>>[1].kind = "changed" /\ <<BecameDirty>>[1].kind = "dirty"
      BY DEF Change, BecameDirty
    <3>2. Len(<<Change>>) = 1 /\ Len(<<>>) = 0
      OBVIOUS
    <3>. QED  BY <3>1, <3>2
  <2>6. ToldBy(Tail(news))'
    BY <1>1, <1>2, <2>2, <2>3, <2>4, <2>5 DEF ToldBy, HostInStep
  <2>. QED  BY <1>1, <1>2, <2>2, <2>3, <2>6, NewsShape, PostedShows DEF HostInStep
<1>. QED  BY <1>3, <1>4

\* Patient people wait.
LEMMA PeopleWait == ASSUME Patient, ~Quiet PROVE ~People
BY DEF People, Open, Type, EditElsewhere, Save, Act

LEMMA OneMessage ==
  ASSUME NEW m
  PROVE  <<m>> # <<>> /\ Head(<<m>>) = m /\ Tail(<<m>>) = <<>> /\ Append(<<>>, m) = <<m>>
OBVIOUS

LEMMA SingleMessage ==
  ASSUME NEW S, NEW s \in Seq(S), Len(s) = 1
  PROVE  s # <<>> /\ Head(s) = s[1] /\ Tail(s) = <<>>
<1>1. s = <<s[1]>>
  OBVIOUS
<1>. QED  BY <1>1, OneMessage

LEMMA HeardLast ==
  ASSUME NEW kind, Hear(kind), NEW m, toHost = <<m>>
  PROVE  m.kind = kind /\ toHost' = <<>> /\ Head(toHost) = m
BY OneMessage DEF Hear

\* An act of a person who has waited.
LEMMA RestingActs ==
  ASSUME TypeOK, Patient, Resting, People
  PROVE  OneAtATime'
<1>1. Quiet
  BY PeopleWait
<1>2. \A q \in Panels : toView[q] = <<>> /\ fromView[q] = <<>>
  BY <1>1 DEF Quiet
<1>3. toHost = <<>> /\ HostInStep /\ \A q \in wired : viewText[q] = text
  BY <1>1, <1>2 DEF Quiet, Resting, ToldBy, Shown, TypeOK
<1>4. ASSUME NEW p \in Panels, Open(p) PROVE Opening(p)'
  <2>1. fromView'[p] = <<[kind |-> "ready"]>>
    BY <1>2, <1>4, OneMessage DEF Open, TypeOK
  <2>2. \A q \in Panels \ {p} : fromView'[q] = <<>>
    BY <1>2, <1>4 DEF Open, TypeOK
  <2>. QED
    BY <1>2, <1>3, <1>4, <2>1, <2>2
       DEF Open, Opening, Resting, NoEdits, FlagsDown, HostInStep, WiredInitialized,
           model, views, TypeOK
<1>5. ASSUME NEW p \in Panels, NEW content \in Texts, Type(p, content) PROVE Posted(p)'
  <2>1. fromView'[p] = <<[kind |-> "edit", content |-> viewText'[p]]>>
    BY <1>2, <1>5, OneMessage DEF Type, TypeOK
  <2>2. \A q \in Panels \ {p} : fromView'[q] = <<>> /\ viewText'[q] = viewText[q]
    BY <1>2, <1>5 DEF Type, TypeOK
  <2>3. p \in wired /\ p \in typed'
    BY <1>5 DEF Type, Resting, WiredInitialized
  <2>4. OthersShow(p)'
    BY <1>3, <1>5, <2>2 DEF Type, OthersShow, model, host, TypeOK
  <2>. QED
    BY <1>2, <1>3, <1>5, <2>1, <2>2, <2>3, <2>4
       DEF Type, Posted, Resting, NoEdits, FlagsDown, HostInStep, NothingToShow,
           WiredInitialized, model, host
<1>6. ASSUME NEW content \in Texts, EditElsewhere(content) PROVE Resting'
  <2>1. PICK events \in ChangeEvents(content) : toHost' = toHost \o events
    BY <1>6 DEF EditElsewhere
  <2>2. events \in News' /\ events # <<>> /\ ToldBy(events)'
    BY <1>6, <2>1, ChangeIsNews DEF EditElsewhere
  <2>3. events \in Seq(ToHost)
    BY <2>1, EventsOfChange DEF TypeOK
  <2>4. toHost' = events
    BY <1>3, <2>1, <2>3
  <2>5. ToldBy(toHost)'
    BY <2>2, <2>4 DEF ToldBy
  <2>. QED
    BY <1>6, <2>2, <2>4, <2>5
       DEF EditElsewhere, Resting, NothingPosted, NoEdits, UpdatesOnly, WiredInitialized,
           FlagsDown, host, views
<1>7. ASSUME Save PROVE Resting'
  <2>1. toHost' = <<BecameDirty>>
    BY <1>3, <1>7, OneMessage DEF Save, BecameDirty
  <2>2. toHost' \in News' /\ toHost' # <<>> /\ HostInStep'
    BY <1>3, <1>7, <2>1, OneMessage DEF Save, News, HostInStep, BecameDirty, host
  <2>. QED
    BY <1>7, <2>2
       DEF Save, Resting, NothingPosted, NoEdits, UpdatesOnly, WiredInitialized,
           FlagsDown, ToldBy, host, views
<1>. QED
  BY <1>4, <1>5, <1>6, <1>7 DEF People, OneAtATime

LEMMA RestingRuns ==
  ASSUME TypeOK, Resting, Renderer \/ Host \/ \E p \in Panels : Webview(p)
  PROVE  Resting'
<1>1. ~Renderer
  BY DEF Renderer, ReceiveEdit, ApplyEdit, Forward, Resting, NothingPosted, NoEdits
<1>2. toHost # <<>> => Head(toHost).kind \in {"changed", "dirty"}
  BY NewsKinds DEF Resting
<1>3. CASE Host
  <2>1. toHost # <<>> /\ (AcceptModelChanged \/ AcceptDirtyStateChanged)
    BY <1>2, <1>3 DEF Host, HandleReady, HandleEdit, HandleReply, Hear,
                      AcceptModelChanged, AcceptDirtyStateChanged
  <2>2. PICK news \in News : news = toHost /\ ToldBy(news)
    BY DEF Resting
  <2>3. /\ Tail(news) \in News' /\ ToldBy(Tail(news))' /\ UpdatesOnly' /\ toHost' = Tail(news)
        /\ UNCHANGED <<text, version, preparing, toModel, wired, isUpdatingFromWebview,
                       viewText, initialized, typed, fromView>>
        /\ \A q \in Panels : q \in wired /\ ~isUpdatingFromWebview[q] =>
                               (Tail(news) = <<>> => Shown(q)' = text)
    BY <2>1, <2>2, NewsHeard DEF Resting
  <2>4. toHost' = <<>> => \A q \in wired' : Shown(q)' = text'
    BY <2>3 DEF Resting, FlagsDown, TypeOK
  <2>5. ToldBy(toHost)'
    BY <2>3 DEF ToldBy
  <2>. QED
    BY <2>3, <2>4, <2>5
       DEF Resting, NothingPosted, NoEdits, WiredInitialized, FlagsDown
<1>4. ASSUME NEW p \in Panels, Webview(p) PROVE Resting'
  <2>1. HandleUpdate(p)
    <3>1. toView[p] # <<>> => Head(toView[p]).kind = "update"
      <4>. SUFFICES ASSUME toView[p] # <<>> PROVE Head(toView[p]).kind = "update"
        OBVIOUS
      <4>1. toView[p] \in Seq(ToView)
        BY DEF TypeOK
      <4>2. 1 \in DOMAIN toView[p] /\ Head(toView[p]) = toView[p][1]
        BY <4>1
      <4>. QED  BY <4>2 DEF Resting, UpdatesOnly
    <3>. QED  BY <1>4, <3>1 DEF Webview, HandleInit, Deliver
  <2>2. /\ UpdatesOnly' /\ \A q \in Panels : Shown(q)' = Shown(q)
        /\ UNCHANGED <<model, host, initialized, fromView, toHost, toModel>>
    BY <2>1, UpdateShows DEF Resting, HandleUpdate
  <2>3. toHost = <<>> => \A q \in wired : Shown(q)' = text
    BY <2>2 DEF Resting, TypeOK
  <2>. QED
    BY <2>2, <2>3
       DEF Resting, NothingPosted, NoEdits, WiredInitialized, FlagsDown, News, Change,
           BecameDirty, ToldBy, HostInStep, model, host
<1>. QED  BY <1>1, <1>3, <1>4

LEMMA OpeningRuns ==
  ASSUME TypeOK, Patient, NEW p \in Panels, Opening(p), Next
  PROVE  OneAtATime'
<1>. DEFINE ready == [kind |-> "ready"]
            view == [kind |-> "view", panel |-> p, message |-> ready]
            init == [kind |-> "init", content |-> text]
<1>1. ready.kind = "ready" /\ view.kind = "view" /\ view.panel = p /\ view.message = ready
      /\ init.kind = "init" /\ init.content = text
  OBVIOUS
<1>2. \/ fromView[p] = <<ready>> /\ toHost = <<>> /\ toView[p] = <<>>
      \/ fromView[p] = <<>> /\ toView[p] = <<>> /\ toHost = <<view>>
      \/ fromView[p] = <<>> /\ toHost = <<>> /\ toView[p] = <<init>>
  BY DEF Opening
<1>. HIDE DEF ready, view, init
<1>3. ~People
  BY <1>2, OneMessage, PeopleWait DEF Quiet
<1>4. ~ReceiveEdit /\ ~ApplyEdit
  BY DEF Opening, NoEdits, ReceiveEdit, ApplyEdit
<1>5. \A q \in Panels \ {p} : ~Forward(q) /\ ~Webview(q)
  BY DEF Opening, Forward, Webview, HandleInit, HandleUpdate, Deliver
<1>6. CASE fromView[p] = <<ready>> /\ toHost = <<>> /\ toView[p] = <<>>
  <2>1. ~Host /\ ~Webview(p)
    BY <1>6 DEF Host, AcceptModelChanged, AcceptDirtyStateChanged, HandleReady, HandleEdit,
                HandleReply, Hear, Webview, HandleInit, HandleUpdate, Deliver
  <2>2. Forward(p)
    BY <1>3, <1>4, <1>5, <2>1 DEF Next, Renderer
  <2>3. toHost' = <<view>> /\ fromView'[p] = <<>> /\ toView'[p] = <<>>
    BY <1>6, <2>2, OneMessage DEF Forward, TypeOK, view
  <2>4. \A q \in Panels \ {p} : fromView'[q] = fromView[q]
    BY <2>2 DEF Forward, TypeOK
  <2>5. Opening(p)'
    BY <2>2, <2>3, <2>4
       DEF Forward, Opening, NoEdits, FlagsDown, HostInStep, model, host, views, view, ready
  <2>. QED  BY <2>5 DEF OneAtATime
<1>7. CASE fromView[p] = <<>> /\ toView[p] = <<>> /\ toHost = <<view>>
  <2>1. ~Forward(p) /\ ~Webview(p)
    BY <1>7 DEF Forward, Webview, HandleInit, HandleUpdate, Deliver
  <2>2. Host
    BY <1>3, <1>4, <1>5, <2>1 DEF Next, Renderer
  <2>3. HandleReady
    BY <1>1, <1>7, <2>2, HeardLast
       DEF Host, AcceptModelChanged, AcceptDirtyStateChanged, HandleEdit, HandleReply
  <2>4. toHost' = <<>> /\ Head(toHost) = view
    BY <1>7, <2>3, HeardLast DEF HandleReady
  <2>5. toView' = [toView EXCEPT ![p] = Append(@, [kind |-> "init", content |-> hostText])]
    BY <1>1, <2>3, <2>4 DEF HandleReady
  <2>6. toView'[p] = <<init>> /\ \A q \in Panels \ {p} : toView'[q] = toView[q]
    BY <1>7, <2>5, OneMessage DEF TypeOK, Opening, HostInStep, init
  <2>7. text' = text
    BY <2>3 DEF HandleReady, model
  <2>8. Opening(p)'
    BY <1>7, <2>3, <2>4, <2>6, <2>7
       DEF HandleReady, Opening, NoEdits, FlagsDown, HostInStep, model, host, views, init
  <2>. QED  BY <2>8 DEF OneAtATime
<1>8. CASE fromView[p] = <<>> /\ toHost = <<>> /\ toView[p] = <<init>>
  <2>1. ~Host /\ ~Forward(p)
    BY <1>8 DEF Host, AcceptModelChanged, AcceptDirtyStateChanged, HandleReady, HandleEdit,
                HandleReply, Hear, Forward
  <2>2. Head(toView[p]) = init /\ Tail(toView[p]) = <<>>
    BY <1>8, OneMessage
  <2>3. ~HandleUpdate(p)
    BY <1>1, <2>2 DEF HandleUpdate, Deliver
  <2>4. HandleInit(p)
    BY <1>3, <1>4, <1>5, <2>1, <2>3 DEF Next, Renderer, Webview
  <2>5. /\ initialized' = [initialized EXCEPT ![p] = TRUE]
        /\ viewText' = [viewText EXCEPT ![p] = text]
        /\ fromView' = [fromView EXCEPT ![p] = Append(@, [kind |-> "edit", content |-> text])]
        /\ toView' = [toView EXCEPT ![p] = <<>>]
        /\ UNCHANGED <<model, host, toHost, toModel, typed>>
    BY <1>1, <2>2, <2>4 DEF HandleInit, Deliver, PostFromView, Opening
  <2>6. /\ fromView'[p] = <<[kind |-> "edit", content |-> text]>> /\ viewText'[p] = text
        /\ toView'[p] = <<>> /\ initialized'[p]
        /\ \A q \in Panels \ {p} : /\ fromView'[q] = <<>> /\ viewText'[q] = viewText[q]
                                   /\ toView'[q] = <<>> /\ initialized'[q] = initialized[q]
    BY <1>8, <2>5, OneMessage DEF TypeOK, Opening
  <2>7. NothingToShow' /\ WiredInitialized' /\ OthersShow(p)'
    BY <2>5, <2>6 DEF NothingToShow, WiredInitialized, OthersShow, Opening, TypeOK, model, host
  <2>8. Posted(p)'
    BY <1>8, <2>5, <2>6, <2>7
       DEF Posted, Opening, NoEdits, FlagsDown, HostInStep, model, host
  <2>. QED  BY <2>8 DEF OneAtATime
<1>. QED  BY <1>2, <1>6, <1>7, <1>8

LEMMA PostedRuns ==
  ASSUME TypeOK, Patient, NEW p \in Panels, Posted(p), Next
  PROVE  OneAtATime'
<1>. DEFINE edit == [kind |-> "edit", content |-> viewText[p]]
            view == [kind |-> "view", panel |-> p, message |-> edit]
<1>1. edit.kind = "edit" /\ edit.content = viewText[p]
      /\ view.kind = "view" /\ view.panel = p /\ view.message = edit
  OBVIOUS
<1>2. \/ fromView[p] = <<edit>> /\ toHost = <<>>
      \/ fromView[p] = <<>> /\ toHost = <<view>>
  BY DEF Posted
<1>. HIDE DEF edit, view
<1>3. ~People
  BY <1>2, OneMessage, PeopleWait DEF Quiet
<1>4. ~ReceiveEdit /\ ~ApplyEdit
  BY DEF Posted, NoEdits, ReceiveEdit, ApplyEdit
<1>5. \A q \in Panels : ~Webview(q) /\ (q # p => ~Forward(q))
  BY DEF Posted, NothingToShow, Forward, Webview, HandleInit, HandleUpdate, Deliver
<1>6. CASE fromView[p] = <<edit>> /\ toHost = <<>>
  <2>1. ~Host
    BY <1>6 DEF Host, AcceptModelChanged, AcceptDirtyStateChanged, HandleReady, HandleEdit,
                HandleReply, Hear
  <2>2. Forward(p)
    BY <1>3, <1>4, <1>5, <2>1 DEF Next, Renderer
  <2>3. toHost' = <<view>> /\ fromView'[p] = <<>>
    BY <1>6, <2>2, OneMessage DEF Forward, TypeOK, view
  <2>4. \A q \in Panels \ {p} : fromView'[q] = fromView[q]
    BY <2>2 DEF Forward, TypeOK
  <2>5. Posted(p)'
    BY <2>2, <2>3, <2>4
       DEF Forward, Posted, NoEdits, FlagsDown, HostInStep, NothingToShow, WiredInitialized,
           OthersShow, model, host, views, view, edit
  <2>. QED  BY <2>5 DEF OneAtATime
<1>7. CASE fromView[p] = <<>> /\ toHost = <<view>>
  <2>1. Host
    BY <1>3, <1>4, <1>5, <1>7 DEF Next, Renderer, Forward
  <2>2. HandleEdit
    BY <1>1, <1>7, <2>1, HeardLast
       DEF Host, AcceptModelChanged, AcceptDirtyStateChanged, HandleReady, HandleReply
  <2>3. toHost' = <<>> /\ Head(toHost) = view
    BY <1>7, <2>2, HeardLast DEF HandleEdit
  <2>4. NothingPosted
    BY <1>7 DEF Posted, NothingPosted
  <2>5. CASE viewText[p] = hostText
    <3>1. UNCHANGED <<isUpdatingFromWebview, toModel>>
      BY <1>1, <2>2, <2>3, <2>5 DEF HandleEdit
    <3>2. \A q \in wired : viewText[q] = text
      BY <2>5 DEF Posted, OthersShow, HostInStep
    <3>3. Resting'
      BY <2>2, <2>3, <2>4, <3>1, <3>2
         DEF HandleEdit, Posted, Resting, NothingPosted, NoEdits, FlagsDown, HostInStep,
             NothingToShow, UpdatesOnly, WiredInitialized, News, ToldBy, Shown, TypeOK,
             model, views
    <3>. QED  BY <3>3 DEF OneAtATime
  <2>6. CASE viewText[p] # hostText
    <3>1. SendEdit(p, viewText[p])
      BY <1>1, <2>2, <2>3, <2>6 DEF HandleEdit
    <3>. DEFINE sent == [panel |-> p, content |-> viewText[p], version |-> hostVersion,
                         base |-> hostText]
    <3>2. toModel' = <<sent>>
      BY <3>1, OneMessage DEF SendEdit, Posted, NoEdits
    <3>3. sent.panel = p /\ sent.content = viewText'[p] /\ sent.version = version'
      BY <2>2 DEF HandleEdit, Posted, HostInStep, model, views
    <3>. HIDE DEF sent
    <3>4. Len(toModel') = 1 /\ toModel'[1] = sent
      BY <3>2
    <3>5. OnlyFlag(p)'
      BY <3>1 DEF SendEdit, OnlyFlag, Posted, FlagsDown, TypeOK
    <3>6. p \in typed
      BY <2>6 DEF Posted, HostInStep
    <3>7. CarriesView(toModel[1], p)'
      BY <3>3, <3>4 DEF CarriesView
    <3>8. Sent(p)'
      BY <2>2, <2>3, <2>4, <3>4, <3>5, <3>6, <3>7
         DEF HandleEdit, Sent, Posted, NoEdits, HostInStep, NothingPosted, NothingToShow,
             WiredInitialized, OthersShow, model, views
    <3>. QED  BY <3>8 DEF OneAtATime
  <2>. QED  BY <2>5, <2>6
<1>. QED  BY <1>2, <1>6, <1>7

LEMMA SentRuns ==
  ASSUME TypeOK, Patient, NEW p \in Panels, Sent(p), Next
  PROVE  OneAtATime'
<1>1. toModel \in Seq(WorkspaceEdit) /\ preparing \in Seq(WorkspaceEdit)
  BY DEF TypeOK
<1>2. ~People
  <2>1. toModel # <<>> \/ preparing # <<>>
    BY DEF Sent
  <2>. QED  BY <2>1, PeopleWait DEF Quiet
<1>3. ~Host /\ \A q \in Panels : ~Webview(q) /\ ~Forward(q)
  BY DEF Sent, NothingPosted, NothingToShow, Forward, Webview, HandleInit, HandleUpdate, Deliver,
         Host, AcceptModelChanged, AcceptDirtyStateChanged, HandleReady, HandleEdit,
         HandleReply, Hear
<1>4. CASE preparing = <<>> /\ Len(toModel) = 1 /\ CarriesView(toModel[1], p)
  <2>1. ReceiveEdit
    BY <1>2, <1>3, <1>4 DEF Next, Renderer, ApplyEdit
  <2>2. Head(toModel) = toModel[1] /\ Tail(toModel) = <<>> /\ toModel # <<>>
    BY <1>1, <1>4, SingleMessage
  <2>3. /\ toModel' = <<>> /\ preparing' = <<toModel[1]>> /\ UNCHANGED <<text, version, toHost>>
        /\ UNCHANGED <<host, views, fromView, toView>>
    BY <1>4, <2>1, <2>2, OneMessage DEF ReceiveEdit, CarriesView
  <2>4. Len(preparing') = 1 /\ preparing'[1] = toModel[1]
    BY <2>3
  <2>5. CarriesView(preparing[1], p)'
    BY <1>4, <2>3, <2>4 DEF CarriesView, views
  <2>6. Sent(p)'
    BY <2>3, <2>4, <2>5 DEF Sent, OnlyFlag, HostInStep, NothingPosted, NothingToShow,
                            WiredInitialized, OthersShow, host, views
  <2>. QED  BY <2>6 DEF OneAtATime
<1>5. CASE toModel = <<>> /\ Len(preparing) = 1 /\ CarriesView(preparing[1], p)
  <2>1. ApplyEdit
    BY <1>2, <1>3, <1>5 DEF Next, Renderer, ReceiveEdit
  <2>2. Head(preparing) = preparing[1] /\ Tail(preparing) = <<>>
    BY <1>1, <1>5, SingleMessage
  <2>3. Accept(preparing[1]) /\ preparing[1].panel = p /\ preparing[1].content = viewText[p]
    BY <1>5, <2>1, <2>2 DEF ApplyEdit, CarriesView
  <2>4. PICK events \in ChangeEvents(viewText[p]) :
          toHost' = Append(toHost \o events, Reply(preparing[1], TRUE))
    BY <2>3 DEF Accept
  <2>5. ChangeModel(viewText[p])
    BY <2>3 DEF Accept
  <2>6. events \in News' /\ events # <<>> /\ ToldBy(events)'
    BY <2>4, <2>5, ChangeIsNews
  <2>7. events \in Seq(ToHost) /\ viewText[p] \in Texts
    BY <2>4, EventsOfChange DEF TypeOK
  <2>8. toHost' = Append(events, [kind |-> "reply", panel |-> p, isApplied |-> TRUE])
    BY <2>3, <2>4, <2>7 DEF Sent, Reply
  <2>9. /\ text' = viewText[p] /\ preparing' = <<>>
        /\ UNCHANGED <<host, views, fromView, toView, toModel>>
    BY <2>1, <2>2, <2>5 DEF ApplyEdit, ChangeModel
  <2>10. Applied(p)'
    BY <1>5, <2>6, <2>8, <2>9
       DEF Applied, Sent, OnlyFlag, NothingPosted, NoEdits, UpdatesOnly, NothingToShow,
           WiredInitialized, host, views
  <2>. QED  BY <2>10 DEF OneAtATime
<1>. QED  BY <1>4, <1>5 DEF Sent

LEMMA AppliedRuns ==
  ASSUME TypeOK, Patient, NEW p \in Panels, Applied(p), Next
  PROVE  OneAtATime'
<1>. DEFINE reply == [kind |-> "reply", panel |-> p, isApplied |-> TRUE]
<1>1. reply.kind = "reply" /\ reply.panel = p
  OBVIOUS
<1>2. PICK news \in News :
        /\ toHost = Append(news, reply) /\ ToldBy(news)
        /\ news = <<>> => \A q \in wired \ {p} : Shown(q) = text
  BY DEF Applied
<1>. HIDE DEF reply
<1>3. toHost # <<>>
  BY <1>2, NewsThenReply
<1>4. ~People
  BY <1>3, PeopleWait DEF Quiet
<1>5. ~Renderer
  BY DEF Renderer, ReceiveEdit, ApplyEdit, Forward, Applied, NothingPosted, NoEdits
<1>6. ASSUME NEW r \in Panels, Webview(r) PROVE Applied(p)'
  <2>1. HandleUpdate(r)
    <3>1. toView[r] # <<>> => Head(toView[r]).kind = "update"
      <4>. SUFFICES ASSUME toView[r] # <<>> PROVE Head(toView[r]).kind = "update"
        OBVIOUS
      <4>1. toView[r] \in Seq(ToView)
        BY DEF TypeOK
      <4>2. 1 \in DOMAIN toView[r] /\ Head(toView[r]) = toView[r][1]
        BY <4>1
      <4>. QED  BY <4>2 DEF Applied, UpdatesOnly
    <3>. QED  BY <1>6, <3>1 DEF Webview, HandleInit, Deliver
  <2>2. r # p
    BY <2>1 DEF HandleUpdate, Deliver, Applied
  <2>3. /\ UpdatesOnly' /\ \A q \in Panels : Shown(q)' = Shown(q)
        /\ toView'[p] = toView[p] /\ viewText'[p] = viewText[p]
        /\ UNCHANGED <<model, host, initialized, fromView, toHost, toModel>>
    BY <2>1, <2>2, UpdateShows DEF Applied, HandleUpdate
  <2>4. news \in News' /\ ToldBy(news)'
    BY <1>2, <2>3 DEF News, Change, BecameDirty, ToldBy, HostInStep, model, host
  <2>5. news = <<>> => \A q \in wired \ {p} : Shown(q)' = text
    BY <1>2, <2>3 DEF TypeOK
  <2>. QED
    BY <1>2, <2>3, <2>4, <2>5
       DEF Applied, OnlyFlag, NothingPosted, NoEdits, WiredInitialized, model, host, reply
<1>7. CASE Host /\ news # <<>>
  <2>1. Head(toHost) = Head(news) /\ Tail(toHost) = Append(Tail(news), reply)
        /\ Head(news).kind \in {"changed", "dirty"}
    BY <1>2, <1>7, NewsThenReply, NewsKinds
  <2>2. AcceptModelChanged \/ AcceptDirtyStateChanged
    BY <1>7, <2>1 DEF Host, HandleReady, HandleEdit, HandleReply, Hear
  <2>3. /\ Tail(news) \in News' /\ ToldBy(Tail(news))' /\ UpdatesOnly' /\ toHost' = Tail(toHost)
        /\ UNCHANGED <<text, version, preparing, toModel, wired, isUpdatingFromWebview,
                       viewText, initialized, typed, fromView>>
        /\ \A q \in Panels :
             IF q \in wired /\ ~isUpdatingFromWebview[q]
             THEN Tail(news) = <<>> => Shown(q)' = text
             ELSE toView'[q] = toView[q]
    BY <1>2, <1>7, <2>1, <2>2, NewsHeard DEF Applied
  <2>4. toView'[p] = <<>>
    BY <2>3 DEF Applied, OnlyFlag
  <2>5. Tail(news) = <<>> => \A q \in wired \ {p} : Shown(q)' = text
    BY <2>3 DEF Applied, OnlyFlag, TypeOK
  <2>6. toHost' = Append(Tail(news), reply)
    BY <2>1, <2>3
  <2>7. Applied(p)'
    BY <2>3, <2>4, <2>5, <2>6
       DEF Applied, OnlyFlag, NothingPosted, NoEdits, WiredInitialized, reply
  <2>. QED  BY <2>7 DEF OneAtATime
<1>8. CASE Host /\ news = <<>>
  <2>1. toHost = <<reply>>
    BY <1>2, <1>8, OneMessage
  <2>2. HandleReply
    BY <1>1, <1>8, <2>1, HeardLast
       DEF Host, AcceptModelChanged, AcceptDirtyStateChanged, HandleReady, HandleEdit
  <2>3. toHost' = <<>> /\ LowerFlag(p)
    BY <1>1, <2>1, <2>2, HeardLast DEF HandleReply
  <2>4. FlagsDown'
    BY <2>3 DEF LowerFlag, FlagsDown, Applied, OnlyFlag, TypeOK
  <2>5. \A q \in wired : Shown(q) = text
    BY <1>2, <1>8 DEF Applied, Shown
  <2>6. HostInStep
    BY <1>2, <1>8 DEF ToldBy
  <2>7. Resting'
    BY <2>2, <2>3, <2>4, <2>5, <2>6
       DEF HandleReply, Resting, Applied, NothingPosted, NoEdits, UpdatesOnly, WiredInitialized,
           News, ToldBy, HostInStep, Shown, TypeOK, model, views
  <2>. QED  BY <2>7 DEF OneAtATime
<1>. QED
  BY <1>4, <1>5, <1>6, <1>7, <1>8 DEF Next, OneAtATime

LEMMA OneAtATimeAlways == ASSUME Patient PROVE Spec => []OneAtATime
<1>1. Init => OneAtATime
  BY DEF Init, OneAtATime, Resting, NothingPosted, NoEdits, UpdatesOnly, WiredInitialized,
         FlagsDown, News, ToldBy, HostInStep
<1>2. TypeOK /\ OneAtATime /\ Next => OneAtATime'
  BY RestingActs, RestingRuns, OpeningRuns, PostedRuns, SentRuns, AppliedRuns
     DEF OneAtATime, Next
<1>3. OneAtATime /\ UNCHANGED vars => OneAtATime'
  <2>. SUFFICES ASSUME OneAtATime, UNCHANGED vars PROVE OneAtATime'
    OBVIOUS
  <2>1. UNCHANGED <<model, host, views, fromView, toView, toHost, toModel, acts>>
    BY DEF vars
  <2>2. /\ (NothingPosted' <=> NothingPosted) /\ (NothingToShow' <=> NothingToShow)
        /\ (NoEdits' <=> NoEdits) /\ (UpdatesOnly' <=> UpdatesOnly)
        /\ (WiredInitialized' <=> WiredInitialized) /\ (FlagsDown' <=> FlagsDown)
        /\ (HostInStep' <=> HostInStep) /\ News' = News
    BY <2>1 DEF NothingPosted, NothingToShow, NoEdits, UpdatesOnly, WiredInitialized, FlagsDown,
                HostInStep, News, Change, BecameDirty, model, host, views
  <2>3. /\ \A news : ToldBy(news)' <=> ToldBy(news)
        /\ \A p \in Panels : OnlyFlag(p)' <=> OnlyFlag(p)
        /\ \A p \in Panels : OthersShow(p)' <=> OthersShow(p)
        /\ \A p : Shown(p)' = Shown(p)
    BY <2>1, <2>2 DEF ToldBy, OnlyFlag, OthersShow, Shown, model, host, views
  <2>4. CASE Resting
    BY <2>1, <2>2, <2>3, <2>4 DEF OneAtATime, Resting, model, host
  <2>5. ASSUME NEW p \in Panels, Opening(p) PROVE OneAtATime'
    BY <2>1, <2>2, <2>5 DEF OneAtATime, Opening, model, host, views
  <2>6. ASSUME NEW p \in Panels, Posted(p) PROVE OneAtATime'
    BY <2>1, <2>2, <2>3, <2>6 DEF OneAtATime, Posted, model, host, views
  <2>7. ASSUME NEW p \in Panels, Sent(p) PROVE OneAtATime'
    BY <2>1, <2>2, <2>3, <2>7 DEF OneAtATime, Sent, CarriesView, model, host, views
  <2>8. ASSUME NEW p \in Panels, Applied(p) PROVE OneAtATime'
    BY <2>1, <2>2, <2>3, <2>8 DEF OneAtATime, Applied, model, host, views
  <2>. QED  BY <2>4, <2>5, <2>6, <2>7, <2>8 DEF OneAtATime
<1>. QED  BY <1>1, <1>2, <1>3, MarkdownTypes, PTL DEF Spec

\* Of people who wait until what they did before has been handled, every
\* rendered panel ends up showing the document, whoever changed it last.
THEOREM PatientPanelsShowDocument == ASSUME Patient PROVE Spec => []PanelsShowDocument
<1>1. TypeOK /\ OneAtATime => PanelsShowDocument
  <2>. SUFFICES ASSUME TypeOK, OneAtATime, Quiet, NEW p \in wired PROVE viewText[p] = text
    BY DEF PanelsShowDocument
  <2>1. Resting
    <3>1. ASSUME NEW q \in Panels PROVE ~Opening(q) /\ ~Posted(q) /\ ~Sent(q) /\ ~Applied(q)
      <4>1. ~Opening(q) /\ ~Posted(q)
        BY OneMessage DEF Quiet, Opening, Posted
      <4>2. ~Sent(q)
        <5>1. Len(<<>>) # 1
          OBVIOUS
        <5>. QED  BY <5>1 DEF Quiet, Sent
      <4>3. ~Applied(q)
        BY NewsThenReply DEF Quiet, Applied
      <4>. QED  BY <4>1, <4>2, <4>3
    <3>. QED  BY <3>1 DEF OneAtATime
  <2>. QED  BY <2>1 DEF Resting, Quiet, Shown, TypeOK
<1>. QED  BY <1>1, OneAtATimeAlways, MarkdownTypes, PTL

\* And a panel asks for an edit only when somebody has typed into it.
THEOREM PatientEditsComeFromTyping == ASSUME Patient PROVE Spec => []EditsComeFromTyping
<1>1. OneAtATime => EditsComeFromTyping
  <2>. SUFFICES ASSUME OneAtATime PROVE EditsComeFromTyping
    OBVIOUS
  <2>1. CASE NoEdits
    BY <2>1 DEF NoEdits, EditsComeFromTyping
  <2>2. ASSUME NEW p \in Panels, Sent(p) PROVE EditsComeFromTyping
    BY <2>2 DEF Sent, CarriesView, EditsComeFromTyping
  <2>. QED  BY <2>1, <2>2 DEF OneAtATime, Resting, Opening, Posted, Applied
<1>. QED  BY <1>1, OneAtATimeAlways, PTL

----------------------------------------------------------------------------
(* Echoes.  Each act of a person and each panel that was opened pays for   *)
(* one edit.  An edit is a message on its way from a webview or in the     *)
(* host's queue, or a workspace edit the renderer has yet to decide; a     *)
(* panel that is not initialised yet still has one to come.                *)

Posting == {m \in FromView : m.kind = "edit"}
PostedOn == {m \in ToHost : m.kind = "view" /\ m.message.kind = "edit"}

\* Where in a queue, and in the panels' queues, messages of a kind are.
Hits(queue, kind) == {i \in DOMAIN queue : queue[i] \in kind}
ViewHits(queues) == {x \in Panels \X Nat : x[2] \in Hits(queues[x[1]], Posting)}

Uninitialized == {p \in wired : ~initialized[p]}

ViewSet == ViewHits(fromView)
ViewEdits == Cardinality(ViewSet)
HostEdits == Cardinality(Hits(toHost, PostedOn))
Unready == Cardinality(Uninitialized)
Opened == Cardinality(wired)

\* The changes made and those the renderer was asked for.
Changes == version + Len(toModel) + Len(preparing)

\* What pays for a change.
Paid == acts + Opened

\* Only panels that were opened have messages in flight.
FromOpened ==
  /\ \A p \in Panels \ wired : fromView[p] = <<>> /\ toView[p] = <<>> /\ ~initialized[p]
  /\ \A i \in DOMAIN toHost : toHost[i].kind = "view" => toHost[i].panel \in wired

EchoInv == /\ IsFiniteSet(wired) /\ IsFiniteSet(ViewSet)
           /\ FromOpened
           /\ Changes + ViewEdits + HostEdits + Unready <= 1 + Paid

LEMMA HitsFinite ==
  ASSUME NEW S, NEW s \in Seq(S), NEW kind
  PROVE  IsFiniteSet(Hits(s, kind)) /\ Cardinality(Hits(s, kind)) \in Nat
<1>1. IsFiniteSet(1..Len(s)) /\ DOMAIN s = 1..Len(s) /\ Len(s) \in Nat
  BY FS_Interval
<1>2. Hits(s, kind) \subseteq 1..Len(s)
  BY <1>1 DEF Hits
<1>. QED  BY <1>1, <1>2, FS_Subset, FS_CardinalityType

LEMMA HitsAppend ==
  ASSUME NEW S, NEW s \in Seq(S), NEW m \in S, NEW kind
  PROVE  Cardinality(Hits(Append(s, m), kind))
           = Cardinality(Hits(s, kind)) + IF m \in kind THEN 1 ELSE 0
<1>. DEFINE t == Append(s, m)
<1>1. /\ Len(s) \in Nat /\ DOMAIN s = 1..Len(s) /\ DOMAIN t = 1..(Len(s) + 1)
      /\ \A i \in 1..Len(s) : t[i] = s[i]
      /\ t[Len(s) + 1] = m
  BY AppendIndexed
<1>. HIDE DEF t
<1>2. Hits(t, kind) = IF m \in kind THEN Hits(s, kind) \cup {Len(s) + 1} ELSE Hits(s, kind)
  BY <1>1 DEF Hits
<1>3. Len(s) + 1 \notin Hits(s, kind)
  BY <1>1 DEF Hits
<1>4. IsFiniteSet(Hits(s, kind)) /\ Cardinality(Hits(s, kind)) \in Nat
  BY HitsFinite
<1>5. Cardinality(Hits(s, kind) \cup {Len(s) + 1}) = Cardinality(Hits(s, kind)) + 1
  BY <1>3, <1>4, FS_AddElement
<1>. QED  BY <1>2, <1>4, <1>5 DEF t

\* What is appended is of another kind.
LEMMA HitsConcat ==
  ASSUME NEW S, NEW s \in Seq(S), NEW t \in Seq(S), NEW kind,
         \A i \in DOMAIN t : t[i] \notin kind
  PROVE  Hits(s \o t, kind) = Hits(s, kind)
<1>. DEFINE u == s \o t
<1>1. /\ Len(s) \in Nat /\ Len(t) \in Nat /\ DOMAIN s = 1..Len(s) /\ DOMAIN t = 1..Len(t)
      /\ DOMAIN u = 1..(Len(s) + Len(t))
      /\ \A i \in 1..(Len(s) + Len(t)) : u[i] = IF i <= Len(s) THEN s[i] ELSE t[i - Len(s)]
  OBVIOUS
<1>. HIDE DEF u
<1>2. ASSUME NEW i \in DOMAIN u, i > Len(s) PROVE u[i] \notin kind
  <2>1. i - Len(s) \in 1..Len(t) /\ u[i] = t[i - Len(s)]
    BY <1>1, <1>2
  <2>. QED  BY <1>1, <2>1
<1>3. \A i : i \in Hits(u, kind) <=> i \in Hits(s, kind)
  BY <1>1, <1>2 DEF Hits
<1>. QED  BY <1>3 DEF u

LEMMA HitsTail ==
  ASSUME NEW S, NEW s \in Seq(S), s # <<>>, NEW kind
  PROVE  Cardinality(Hits(Tail(s), kind)) + (IF Head(s) \in kind THEN 1 ELSE 0)
           <= Cardinality(Hits(s, kind))
<1>. DEFINE t == Tail(s)
            rest == Hits(s, kind) \ {1}
            shift == [i \in Hits(t, kind) |-> i + 1]
<1>1. /\ Len(s) \in Nat /\ Len(s) >= 1 /\ DOMAIN s = 1..Len(s)
      /\ DOMAIN t = 1..(Len(s) - 1)
      /\ Head(s) = s[1]
      /\ \A i \in 1..(Len(s) - 1) : t[i] = s[i + 1]
  BY TailIndexed
<1>2. IsFiniteSet(Hits(s, kind)) /\ IsFiniteSet(rest) /\ Cardinality(rest) \in Nat
      /\ Cardinality(Hits(s, kind)) \in Nat
  BY HitsFinite, FS_Subset, FS_CardinalityType
<1>. HIDE DEF t
<1>3. ASSUME NEW i \in Hits(t, kind) PROVE i + 1 \in rest /\ i \in Int
  <2>1. i \in 1..(Len(s) - 1) /\ i + 1 \in 1..Len(s) /\ i + 1 # 1
    BY <1>1 DEF Hits
  <2>. QED  BY <1>1, <2>1 DEF Hits
<1>4. shift \in Injection(Hits(t, kind), rest)
  <2>. HIDE DEF rest
  <2>. QED  BY <1>3 DEF Injection, IsInjective
<1>5. Cardinality(Hits(t, kind)) <= Cardinality(rest) /\ Cardinality(Hits(t, kind)) \in Nat
  BY <1>2, <1>4, FS_Injection, FS_CardinalityType
<1>6. Head(s) \in kind => Cardinality(rest) = Cardinality(Hits(s, kind)) - 1
  <2>1. Head(s) \in kind => 1 \in Hits(s, kind)
    BY <1>1 DEF Hits
  <2>. QED  BY <1>2, <2>1, FS_RemoveElement
<1>7. Cardinality(rest) <= Cardinality(Hits(s, kind))
  BY <1>2, FS_Subset
<1>. QED  BY <1>2, <1>5, <1>6, <1>7 DEF t

LEMMA Pair ==
  ASSUME NEW x \in Panels \X Nat
  PROVE  \E q \in Panels, i \in Nat : x = <<q, i>>
OBVIOUS

LEMMA PairParts ==
  ASSUME NEW q \in Panels, NEW i \in Nat, NEW r \in Panels, NEW j \in Nat
  PROVE  /\ <<q, i>> \in Panels \X Nat /\ <<q, i>>[1] = q /\ <<q, i>>[2] = i
         /\ <<q, i>> = <<r, j>> => q = r /\ i = j
OBVIOUS

\* A panel posts an edit, or says that it is ready.
LEMMA ViewHitsAppend ==
  ASSUME fromView \in [Panels -> Seq(FromView)], IsFiniteSet(ViewHits(fromView)),
         NEW p \in Panels, NEW m \in FromView,
         fromView' = [fromView EXCEPT ![p] = Append(@, m)]
  PROVE  /\ IsFiniteSet(ViewHits(fromView'))
         /\ Cardinality(ViewHits(fromView'))
              = Cardinality(ViewHits(fromView)) + IF m \in Posting THEN 1 ELSE 0
<1>. DEFINE s == fromView[p]
            t == Append(s, m)
            new == <<p, Len(s) + 1>>
<1>1. /\ Len(s) \in Nat /\ DOMAIN s = 1..Len(s) /\ DOMAIN t = 1..(Len(s) + 1)
      /\ \A i \in 1..Len(s) : t[i] = s[i]
      /\ t[Len(s) + 1] = m
  BY AppendIndexed
<1>2. fromView'[p] = t /\ \A q \in Panels \ {p} : fromView'[q] = fromView[q]
  OBVIOUS
<1>. HIDE DEF s, t
<1>3. Hits(t, Posting) = IF m \in Posting THEN Hits(s, Posting) \cup {Len(s) + 1}
                         ELSE Hits(s, Posting)
  BY <1>1 DEF Hits
<1>4. new \notin ViewHits(fromView)
  BY <1>1 DEF ViewHits, Hits, s
<1>5. ViewHits(fromView') = IF m \in Posting THEN ViewHits(fromView) \cup {new}
                            ELSE ViewHits(fromView)
  <2>1. ASSUME NEW q \in Panels, NEW i \in Nat
        PROVE  <<q, i>> \in ViewHits(fromView') <=>
                 \/ <<q, i>> \in ViewHits(fromView)
                 \/ m \in Posting /\ q = p /\ i = Len(s) + 1
    <3>1. CASE q = p
      BY <1>2, <1>3, <3>1 DEF ViewHits, s
    <3>2. CASE q # p
      BY <1>2, <3>2 DEF ViewHits
    <3>. QED  BY <3>1, <3>2
  <2>2. Len(s) + 1 \in Nat /\ new \in Panels \X Nat
    BY <1>1, PairParts
  <2>3. ASSUME NEW x \in Panels \X Nat
        PROVE  x \in ViewHits(fromView') <=>
                 x \in ViewHits(fromView) \/ (m \in Posting /\ x = new)
    <3>1. PICK q \in Panels, i \in Nat : x = <<q, i>>
      BY Pair
    <3>2. x = new <=> q = p /\ i = Len(s) + 1
      BY <2>2, <3>1, PairParts
    <3>. QED  BY <2>1, <3>1, <3>2
  <2>4. ViewHits(fromView) \subseteq Panels \X Nat /\ ViewHits(fromView') \subseteq Panels \X Nat
    BY DEF ViewHits
  <2>. HIDE DEF new
  <2>. QED  BY <2>2, <2>3, <2>4
<1>6. Cardinality(ViewHits(fromView)) \in Nat
  BY FS_CardinalityType
<1>. HIDE DEF new
<1>7. /\ IsFiniteSet(ViewHits(fromView) \cup {new})
      /\ Cardinality(ViewHits(fromView) \cup {new}) = Cardinality(ViewHits(fromView)) + 1
  BY <1>4, FS_AddElement
<1>. QED  BY <1>5, <1>6, <1>7

\* The renderer takes a message off a panel's queue.
LEMMA ViewHitsTail ==
  ASSUME fromView \in [Panels -> Seq(FromView)], IsFiniteSet(ViewHits(fromView)),
         NEW p \in Panels, fromView[p] # <<>>,
         fromView' = [fromView EXCEPT ![p] = Tail(@)]
  PROVE  /\ IsFiniteSet(ViewHits(fromView'))
         /\ Cardinality(ViewHits(fromView'))
              + (IF Head(fromView[p]) \in Posting THEN 1 ELSE 0)
              <= Cardinality(ViewHits(fromView))
<1>. DEFINE s == fromView[p]
            t == Tail(s)
            first == <<p, 1>>
            rest == ViewHits(fromView) \ {first}
            shift == [x \in ViewHits(fromView') |-> IF x[1] = p THEN <<p, x[2] + 1>> ELSE x]
<1>1. /\ Len(s) \in Nat /\ Len(s) >= 1 /\ DOMAIN s = 1..Len(s)
      /\ DOMAIN t = 1..(Len(s) - 1)
      /\ Head(s) = s[1]
      /\ \A i \in 1..(Len(s) - 1) : t[i] = s[i + 1]
  BY TailIndexed
<1>2. fromView'[p] = t /\ \A q \in Panels \ {p} : fromView'[q] = fromView[q]
  OBVIOUS
<1>3. IsFiniteSet(rest) /\ Cardinality(rest) \in Nat /\ Cardinality(ViewHits(fromView)) \in Nat
  BY FS_Subset, FS_CardinalityType
<1>. HIDE DEF s, t
<1>4. \A i \in Hits(t, Posting) : i + 1 \in Hits(s, Posting) /\ i + 1 # 1 /\ i + 1 \in Nat
  <2>. SUFFICES ASSUME NEW i \in Hits(t, Posting)
                PROVE  i + 1 \in Hits(s, Posting) /\ i + 1 # 1 /\ i + 1 \in Nat
    OBVIOUS
  <2>1. i \in 1..(Len(s) - 1) /\ i + 1 \in 1..Len(s)
    BY <1>1 DEF Hits
  <2>. QED  BY <1>1, <2>1 DEF Hits
<1>5. ASSUME NEW q \in Panels, NEW i \in Nat, <<q, i>> \in ViewHits(fromView')
      PROVE  (IF q = p THEN <<p, i + 1>> ELSE <<q, i>>) \in rest
  <2>1. i \in Hits(fromView'[q], Posting)
    BY <1>5 DEF ViewHits
  <2>2. CASE q = p
    <3>1. i + 1 \in Hits(s, Posting) /\ i + 1 # 1 /\ i + 1 \in Nat
      BY <1>2, <1>4, <2>1, <2>2
    <3>. QED  BY <2>2, <3>1 DEF ViewHits, s
  <2>3. CASE q # p
    BY <1>2, <2>1, <2>3 DEF ViewHits
  <2>. QED  BY <2>2, <2>3
<1>6. \A x \in ViewHits(fromView') : x \in Panels \X Nat
  BY DEF ViewHits
<1>7. shift \in Injection(ViewHits(fromView'), rest)
  <2>1. ASSUME NEW x \in ViewHits(fromView') PROVE shift[x] \in rest
    <3>1. PICK q \in Panels, i \in Nat : x = <<q, i>>
      BY <1>6, Pair
    <3>2. shift[x] = IF q = p THEN <<p, i + 1>> ELSE <<q, i>>
      BY <3>1, PairParts
    <3>. QED  BY <1>5, <3>1, <3>2
  <2>2. ASSUME NEW x \in ViewHits(fromView'), NEW y \in ViewHits(fromView'), shift[x] = shift[y]
        PROVE  x = y
    <3>1. PICK q \in Panels, i \in Nat : x = <<q, i>>
      BY <1>6, Pair
    <3>2. PICK r \in Panels, j \in Nat : y = <<r, j>>
      BY <1>6, Pair
    <3>3. /\ shift[x] = IF q = p THEN <<p, i + 1>> ELSE <<q, i>>
          /\ shift[y] = IF r = p THEN <<p, j + 1>> ELSE <<r, j>>
      BY <3>1, <3>2
    <3>. QED  BY <2>2, <3>1, <3>2, <3>3
  <2>. HIDE DEF rest
  <2>. QED  BY <2>1, <2>2 DEF Injection, IsInjective
<1>8. /\ IsFiniteSet(ViewHits(fromView')) /\ Cardinality(ViewHits(fromView')) \in Nat
      /\ Cardinality(ViewHits(fromView')) <= Cardinality(rest)
  BY <1>3, <1>7, FS_Injection, FS_CardinalityType
<1>9. Head(s) \in Posting => Cardinality(rest) = Cardinality(ViewHits(fromView)) - 1
  <2>1. Head(s) \in Posting => first \in ViewHits(fromView)
    BY <1>1 DEF ViewHits, Hits, s
  <2>. QED  BY <2>1, FS_RemoveElement
<1>10. Cardinality(rest) <= Cardinality(ViewHits(fromView))
  BY FS_Subset
<1>. QED  BY <1>3, <1>8, <1>9, <1>10 DEF s

LEMMA HostSame ==
  /\ UNCHANGED toHost => HostEdits' = HostEdits
  /\ HostEdits' = Cardinality(Hits(toHost', PostedOn))
BY DEF HostEdits, Hits

LEMMA Counts ==
  ASSUME TypeOK, IsFiniteSet(wired), IsFiniteSet(ViewSet)
  PROVE  /\ Changes \in Nat /\ ViewEdits \in Nat /\ HostEdits \in Nat /\ Unready \in Nat
         /\ Opened \in Nat /\ Paid \in Nat /\ IsFiniteSet(Uninitialized)
         /\ version \in Nat /\ acts \in Nat /\ Len(toModel) \in Nat /\ Len(preparing) \in Nat
<1>1. IsFiniteSet(Uninitialized)
  <2>1. Uninitialized \subseteq wired
    BY DEF Uninitialized
  <2>. QED  BY <2>1, FS_Subset
<1>2. HostEdits \in Nat
  BY HitsFinite DEF TypeOK, HostEdits
<1>3. ViewEdits \in Nat /\ Unready \in Nat /\ Opened \in Nat
  BY <1>1, FS_CardinalityType DEF ViewEdits, Unready, Opened
<1>4. version \in Nat /\ acts \in Nat /\ Len(toModel) \in Nat /\ Len(preparing) \in Nat
  BY ActsAssumption DEF TypeOK
<1>. QED  BY <1>1, <1>2, <1>3, <1>4 DEF Changes, Paid

LEMMA CountsAfter ==
  ASSUME TypeOK', IsFiniteSet(wired'), IsFiniteSet(ViewSet')
  PROVE  /\ Changes' \in Nat /\ ViewEdits' \in Nat /\ HostEdits' \in Nat /\ Unready' \in Nat
         /\ Opened' \in Nat /\ Paid' \in Nat
<1>1. IsFiniteSet(Uninitialized')
  <2>1. Uninitialized' \subseteq wired'
    BY DEF Uninitialized
  <2>. QED  BY <2>1, FS_Subset
<1>2. HostEdits' \in Nat
  <2>1. toHost' \in Seq(ToHost)
    BY DEF TypeOK
  <2>. QED  BY <2>1, HitsFinite, HostSame
<1>3. ViewEdits' \in Nat /\ Unready' \in Nat /\ Opened' \in Nat
  BY <1>1, FS_CardinalityType DEF ViewEdits, Unready, Opened
<1>4. version' \in Nat /\ acts' \in Nat /\ Len(toModel') \in Nat /\ Len(preparing') \in Nat
  BY ActsAssumption DEF TypeOK
<1>5. Changes' \in Nat
  BY <1>4 DEF Changes
<1>6. Paid' \in Nat
  <2>1. Paid' = acts' + Opened'
    BY DEF Paid
  <2>2. PICK a \in Nat : a = acts'
    BY <1>4
  <2>3. PICK b \in Nat : b = Opened'
    BY <1>3
  <2>4. Paid' = a + b
    BY <2>1, <2>2, <2>3, Zenon
  <2>5. a + b \in Nat
    OBVIOUS
  <2>. QED  BY <2>4, <2>5, Zenon
<1>. QED  BY <1>2, <1>3, <1>5, <1>6

\* A panel posts, or the renderer takes what it posted.
LEMMA ViewAppend ==
  ASSUME TypeOK, IsFiniteSet(ViewSet), NEW p \in Panels, NEW m \in FromView,
         fromView' = [fromView EXCEPT ![p] = Append(@, m)]
  PROVE  IsFiniteSet(ViewSet)' /\ ViewEdits' = ViewEdits + IF m \in Posting THEN 1 ELSE 0
<1>1. ViewSet = ViewHits(fromView) /\ ViewSet' = ViewHits(fromView')
  BY DEF ViewSet, ViewHits, Hits
<1>2. fromView \in [Panels -> Seq(FromView)]
  BY DEF TypeOK
<1>3. /\ IsFiniteSet(ViewHits(fromView'))
      /\ Cardinality(ViewHits(fromView'))
           = Cardinality(ViewHits(fromView)) + IF m \in Posting THEN 1 ELSE 0
  BY <1>1, <1>2, ViewHitsAppend
<1>. QED  BY <1>1, <1>3 DEF ViewEdits

LEMMA ViewTail ==
  ASSUME TypeOK, IsFiniteSet(ViewSet), NEW p \in Panels, fromView[p] # <<>>,
         fromView' = [fromView EXCEPT ![p] = Tail(@)]
  PROVE  /\ IsFiniteSet(ViewSet)'
         /\ ViewEdits' + (IF Head(fromView[p]) \in Posting THEN 1 ELSE 0) <= ViewEdits
<1>1. ViewSet = ViewHits(fromView) /\ ViewSet' = ViewHits(fromView')
  BY DEF ViewSet, ViewHits, Hits
<1>2. fromView \in [Panels -> Seq(FromView)]
  BY DEF TypeOK
<1>3. /\ IsFiniteSet(ViewHits(fromView'))
      /\ Cardinality(ViewHits(fromView')) + (IF Head(fromView[p]) \in Posting THEN 1 ELSE 0)
           <= Cardinality(ViewHits(fromView))
  BY <1>1, <1>2, ViewHitsTail
<1>. QED  BY <1>1, <1>3 DEF ViewEdits

LEMMA ViewSame == UNCHANGED fromView => ViewSet' = ViewSet /\ ViewEdits' = ViewEdits
BY DEF ViewSet, ViewHits, Hits, ViewEdits

LEMMA WiredSame == UNCHANGED wired => Opened' = Opened
BY DEF Opened

LEMMA ReadySame == UNCHANGED <<wired, initialized>> => Unready' = Unready
BY DEF Unready, Uninitialized

LEMMA PaidSame == UNCHANGED <<acts, wired>> => Paid' = Paid
BY DEF Paid, Opened

LEMMA ChangesSame == UNCHANGED <<version, toModel, preparing>> => Changes' = Changes
BY DEF Changes

\* A step that pays for the edits it adds keeps the account.
LEMMA EchoStep ==
  ASSUME TypeOK, EchoInv, TypeOK', IsFiniteSet(wired'), IsFiniteSet(ViewSet'), FromOpened',
         (Changes' - Changes) + (ViewEdits' - ViewEdits) + (HostEdits' - HostEdits)
           + (Unready' - Unready) <= Paid' - Paid
  PROVE  EchoInv'
<1>1. /\ Changes \in Nat /\ ViewEdits \in Nat /\ HostEdits \in Nat /\ Unready \in Nat /\ Paid \in Nat
      /\ Changes' \in Nat /\ ViewEdits' \in Nat /\ HostEdits' \in Nat /\ Unready' \in Nat
      /\ Paid' \in Nat
  BY Counts, CountsAfter DEF EchoInv
<1>2. PICK c \in Nat, v \in Nat, h \in Nat : c = Changes /\ v = ViewEdits /\ h = HostEdits
  BY <1>1
<1>3. PICK u \in Nat, b \in Nat : u = Unready /\ b = Paid
  BY <1>1
<1>4. PICK cc \in Nat, vv \in Nat, hh \in Nat : cc = Changes' /\ vv = ViewEdits' /\ hh = HostEdits'
  BY <1>1
<1>5. PICK uu \in Nat, bb \in Nat : uu = Unready' /\ bb = Paid'
  BY <1>1
<1>6. c + v + h + u <= 1 + b
  BY <1>2, <1>3 DEF EchoInv
<1>7. (cc - c) + (vv - v) + (hh - h) + (uu - u) <= bb - b
  BY <1>2, <1>3, <1>4, <1>5
<1>8. cc + vv + hh + uu <= 1 + bb
  BY <1>6, <1>7
<1>. QED  BY <1>4, <1>5, <1>8 DEF EchoInv

LEMMA CountsInv ==
  ASSUME TypeOK, EchoInv
  PROVE  /\ Changes \in Nat /\ ViewEdits \in Nat /\ HostEdits \in Nat /\ Unready \in Nat
         /\ Opened \in Nat /\ Paid \in Nat /\ IsFiniteSet(Uninitialized)
         /\ version \in Nat /\ acts \in Nat /\ Len(toModel) \in Nat /\ Len(preparing) \in Nat
         /\ FromOpened /\ IsFiniteSet(wired) /\ IsFiniteSet(ViewSet)
<1>1. FromOpened /\ IsFiniteSet(wired) /\ IsFiniteSet(ViewSet)
  BY DEF EchoInv
<1>. QED  BY <1>1, Counts

\* What the host is told of a change is no edit of a panel.
LEMMA ReplyNoHit ==
  ASSUME NEW p \in Panels, NEW b \in BOOLEAN, NEW m,
         m = [kind |-> "reply", panel |-> p, isApplied |-> b]
  PROVE  m \in ToHost /\ m \notin PostedOn /\ m.kind # "view"
BY HostMessages DEF PostedOn

LEMMA DirtyNoHit == BecameDirty \in ToHost /\ BecameDirty \notin PostedOn /\ BecameDirty.kind # "view"
BY DirtyMessage DEF BecameDirty, PostedOn

LEMMA EventsNoHit ==
  ASSUME NEW content \in Texts, version \in Nat, NEW events \in ChangeEvents(content)
  PROVE  /\ events \in Seq(ToHost)
         /\ \A i \in DOMAIN events : events[i] \notin PostedOn /\ events[i].kind # "view"
<1>. DEFINE changed == [kind |-> "changed", text |-> content, version |-> version + 1]
<1>1. changed \in ToHost /\ changed.kind = "changed" /\ BecameDirty.kind = "dirty"
  BY ChangedMessage DEF BecameDirty
<1>2. \/ events = <<changed>>
      \/ events = <<changed, BecameDirty>>
      \/ events = <<BecameDirty, changed>>
  BY DEF ChangeEvents, BecameDirty
<1>. HIDE DEF changed
<1>3. events \in Seq(ToHost)
  BY EventsOfChange
<1>4. \A i \in DOMAIN events : events[i] = changed \/ events[i] = BecameDirty
  BY <1>2
<1>. QED  BY <1>1, <1>3, <1>4 DEF PostedOn

\* A message that is no edit of a panel goes to the host.
LEMMA HostAppend ==
  ASSUME TypeOK, FromOpened, NEW q \in Seq(ToHost), NEW m \in ToHost, m.kind # "view",
         \A i \in DOMAIN q : q[i].kind = "view" => q[i].panel \in wired,
         toHost' = Append(q, m)
  PROVE  /\ HostEdits' = Cardinality(Hits(q, PostedOn))
         /\ \A i \in DOMAIN toHost' : toHost'[i].kind = "view" => toHost'[i].panel \in wired
<1>1. m \notin PostedOn
  BY DEF PostedOn
<1>2. Cardinality(Hits(q, PostedOn)) \in Nat
  BY HitsFinite
<1>3. /\ Len(q) \in Nat /\ DOMAIN q = 1..Len(q) /\ DOMAIN toHost' = 1..(Len(q) + 1)
      /\ \A i \in 1..Len(q) : toHost'[i] = q[i]
      /\ toHost'[Len(q) + 1] = m
  BY AppendIndexed
<1>4. Cardinality(Hits(Append(q, m), PostedOn)) = Cardinality(Hits(q, PostedOn))
  BY <1>1, <1>2, HitsAppend
<1>. QED  BY <1>1, <1>3, <1>4, HostSame

LEMMA HostNews ==
  ASSUME TypeOK, FromOpened, NEW m \in ToHost, m.kind # "view", toHost' = Append(toHost, m)
  PROVE  /\ HostEdits' = HostEdits
         /\ \A i \in DOMAIN toHost' : toHost'[i].kind = "view" => toHost'[i].panel \in wired
<1>1. toHost \in Seq(ToHost)
  BY DEF TypeOK
<1>2. \A i \in DOMAIN toHost : toHost[i].kind = "view" => toHost[i].panel \in wired
  BY DEF FromOpened
<1>. QED  BY <1>1, <1>2, HostAppend DEF HostEdits

\* The news of a change goes to the host.
LEMMA HostConcat ==
  ASSUME TypeOK, FromOpened, NEW content \in Texts, NEW events \in ChangeEvents(content),
         NEW q, q = toHost \o events
  PROVE  /\ q \in Seq(ToHost) /\ Cardinality(Hits(q, PostedOn)) = HostEdits
         /\ \A i \in DOMAIN q : q[i].kind = "view" => q[i].panel \in wired
<1>1. events \in Seq(ToHost) /\ toHost \in Seq(ToHost)
      /\ \A i \in DOMAIN events : events[i] \notin PostedOn /\ events[i].kind # "view"
  BY EventsNoHit DEF TypeOK
<1>2. /\ Len(toHost) \in Nat /\ Len(events) \in Nat
      /\ DOMAIN toHost = 1..Len(toHost) /\ DOMAIN events = 1..Len(events)
      /\ DOMAIN q = 1..(Len(toHost) + Len(events))
      /\ \A i \in 1..(Len(toHost) + Len(events)) :
           q[i] = IF i <= Len(toHost) THEN toHost[i] ELSE events[i - Len(toHost)]
  BY <1>1
<1>3. ASSUME NEW i \in DOMAIN q, q[i].kind = "view" PROVE q[i].panel \in wired
  <2>1. CASE i <= Len(toHost)
    BY <1>2, <1>3, <2>1 DEF FromOpened
  <2>2. CASE i > Len(toHost)
    <3>1. i - Len(toHost) \in 1..Len(events) /\ q[i] = events[i - Len(toHost)]
      BY <1>2, <2>2
    <3>. QED  BY <1>1, <1>2, <1>3, <3>1
  <2>. QED  BY <1>2, <2>1, <2>2
<1>4. Cardinality(Hits(q, PostedOn)) = HostEdits
  <2>1. Hits(toHost \o events, PostedOn) = Hits(toHost, PostedOn)
    BY <1>1, HitsConcat
  <2>. QED  BY <2>1 DEF HostEdits
<1>. QED  BY <1>1, <1>3, <1>4

\* The host takes a message off its queue.
LEMMA HostTail ==
  ASSUME TypeOK, FromOpened, NEW kind, Hear(kind)
  PROVE  /\ HostEdits' + (IF Head(toHost) \in PostedOn THEN 1 ELSE 0)
              <= HostEdits
         /\ HostEdits' \in Nat
         /\ HostEdits \in Nat
         /\ \A i \in DOMAIN toHost' : toHost'[i].kind = "view" => toHost'[i].panel \in wired
         /\ Head(toHost).kind = "view" => Head(toHost).panel \in wired
<1>1. toHost \in Seq(ToHost) /\ toHost # <<>> /\ toHost' = Tail(toHost) /\ toHost' \in Seq(ToHost)
  BY DEF TypeOK, Hear
<1>2. /\ \A i \in DOMAIN toHost' : i + 1 \in DOMAIN toHost /\ toHost'[i] = toHost[i + 1]
      /\ 1 \in DOMAIN toHost /\ toHost[1] = Head(toHost)
  BY HearQueue
<1>3. HostEdits = Cardinality(Hits(toHost, PostedOn)) /\ HostEdits' = Cardinality(Hits(toHost', PostedOn))
  BY HostSame DEF HostEdits
<1>. QED  BY <1>1, <1>2, <1>3, HitsTail, HitsFinite DEF FromOpened

LEMMA OpenEchoes == ASSUME TypeOK, EchoInv, TypeOK', NEW p \in Panels, Open(p) PROVE EchoInv'
<1>. DEFINE m == [kind |-> "ready"]
<1>1. m \in FromView /\ m \notin Posting
  BY ViewMessages, EmptyAssumption DEF Posting
<1>2. fromView' = [fromView EXCEPT ![p] = Append(@, m)] /\ wired' = wired \cup {p} /\ p \notin wired
      /\ UNCHANGED <<model, initialized, toView, toHost, toModel, acts>>
  BY DEF Open, views
<1>. HIDE DEF m
<1>3. /\ IsFiniteSet(ViewSet')
      /\ ViewEdits' = ViewEdits
  <2>1. ViewEdits \in Nat
    BY CountsInv
  <2>2. /\ IsFiniteSet(ViewSet')
        /\ ViewEdits' = ViewEdits + IF m \in Posting THEN 1 ELSE 0
    BY <1>1, <1>2, ViewAppend, CountsInv
  <2>3. ViewEdits' = ViewEdits + 0
    BY <1>1, <2>2
  <2>. QED  BY <2>1, <2>2, <2>3
<1>4. IsFiniteSet(wired') /\ Opened' = Opened + 1
  BY <1>2, FS_AddElement DEF EchoInv, Opened
<1>5. Unready' = Unready + 1
  <2>1. ~initialized[p] /\ p \notin Uninitialized
    BY <1>2 DEF EchoInv, FromOpened, Uninitialized, Unready
  <2>2. Uninitialized' = Uninitialized \cup {p}
    BY <1>2, <2>1 DEF Uninitialized
  <2>. QED  BY <2>1, <2>2, Counts, FS_AddElement DEF EchoInv, Unready
<1>6. FromOpened'
  <2>1. \A q \in Panels \ wired' : q # p /\ fromView'[q] = fromView[q]
    BY <1>2 DEF TypeOK
  <2>. QED  BY <1>2, <2>1 DEF EchoInv, FromOpened
<1>7. /\ Changes' = Changes /\ ViewEdits' = ViewEdits /\ HostEdits' = HostEdits
      /\ Unready' = Unready + 1 /\ Paid' = Paid + 1
  BY <1>1, <1>2, <1>3, <1>4, <1>5, CountsInv, ViewSame, HostSame, WiredSame, ReadySame, PaidSame, ChangesSame DEF Changes, Paid, Opened, model
<1>8. /\ Changes' - Changes = 0 /\ ViewEdits' - ViewEdits = 0 /\ HostEdits' - HostEdits = 0
      /\ Unready' - Unready = 1 /\ Paid' - Paid = 1
  BY <1>7, CountsInv
<1>9. IsFiniteSet(wired') /\ IsFiniteSet(ViewSet') /\ FromOpened'
  BY <1>3, <1>4, <1>6, ViewSame DEF EchoInv, host
<1>. QED  BY <1>8, <1>9, EchoStep

LEMMA TypeEchoes ==
  ASSUME TypeOK, EchoInv, TypeOK', NEW p \in Panels, NEW content \in Texts, Type(p, content)
  PROVE  EchoInv'
<1>. DEFINE m == [kind |-> "edit", content |-> content]
<1>1. m \in FromView /\ m \in Posting
  BY ViewMessages DEF Posting
<1>2. fromView' = [fromView EXCEPT ![p] = Append(@, m)] /\ acts' = acts + 1
      /\ UNCHANGED <<model, host, initialized, toView, toHost, toModel>> /\ p \in wired
  BY DEF Type, Act, EchoInv, FromOpened
<1>. HIDE DEF m
<1>3. /\ IsFiniteSet(ViewSet')
      /\ ViewEdits' = ViewEdits + 1
  BY <1>1, <1>2, ViewAppend DEF EchoInv, TypeOK
<1>4. FromOpened'
  BY <1>2 DEF EchoInv, FromOpened, TypeOK, host
<1>5. Unready' = Unready
  BY <1>2 DEF Uninitialized, Unready, host
<1>6. /\ Changes' = Changes /\ ViewEdits' = ViewEdits + 1 /\ HostEdits' = HostEdits
      /\ Unready' = Unready /\ Paid' = Paid + 1
  BY <1>2, <1>3, <1>5, CountsInv, ViewSame, HostSame, WiredSame, ReadySame, PaidSame, ChangesSame DEF Changes, Paid, Opened, model, host
<1>7. /\ Changes' - Changes = 0 /\ ViewEdits' - ViewEdits = 1 /\ HostEdits' - HostEdits = 0
      /\ Unready' - Unready = 0 /\ Paid' - Paid = 1
  BY <1>6, CountsInv
<1>8. IsFiniteSet(wired') /\ IsFiniteSet(ViewSet') /\ FromOpened'
  BY <1>2, <1>3, <1>4, ViewSame DEF EchoInv, host
<1>. QED  BY <1>7, <1>8, EchoStep

LEMMA EditElsewhereEchoes ==
  ASSUME TypeOK, EchoInv, TypeOK', NEW content \in Texts, EditElsewhere(content)
  PROVE  EchoInv'
<1>1. PICK events \in ChangeEvents(content) : toHost' = toHost \o events
  BY DEF EditElsewhere
<1>2. HostEdits' = HostEdits
      /\ \A i \in DOMAIN toHost' : toHost'[i].kind = "view" => toHost'[i].panel \in wired
  BY <1>1, HostConcat, HostSame DEF EchoInv
<1>3. /\ version' = version + 1 /\ acts' = acts + 1
      /\ UNCHANGED <<preparing, host, views, fromView, toView, toModel>>
  BY DEF EditElsewhere, ChangeModel, Act
<1>4. FromOpened' /\ Unready' = Unready
  BY <1>2, <1>3 DEF EchoInv, FromOpened, Uninitialized, Unready, host, views
<1>5. /\ Changes' = Changes + 1 /\ ViewEdits' = ViewEdits /\ HostEdits' = HostEdits
      /\ Unready' = Unready /\ Paid' = Paid + 1
  <2>1. Changes' = Changes + 1
    <3>1. version' = version + 1 /\ Len(toModel') = Len(toModel) /\ Len(preparing') = Len(preparing)
      BY <1>3
    <3>2. version \in Nat /\ Len(toModel) \in Nat /\ Len(preparing) \in Nat
      BY CountsInv
    <3>. QED  BY <3>1, <3>2 DEF Changes
  <2>2. Paid' = Paid + 1
    BY <1>3, CountsInv, WiredSame DEF Paid, host
  <2>. QED  BY <1>2, <1>3, <1>4, <2>1, <2>2, ViewSame DEF host
<1>6. /\ Changes' - Changes = 1 /\ ViewEdits' - ViewEdits = 0 /\ HostEdits' - HostEdits = 0
      /\ Unready' - Unready = 0 /\ Paid' - Paid = 1
  BY <1>5, CountsInv
<1>7. IsFiniteSet(wired') /\ IsFiniteSet(ViewSet') /\ FromOpened'
  BY <1>3, <1>4, ViewSame DEF EchoInv, host
<1>. QED  BY <1>6, <1>7, EchoStep

LEMMA SaveEchoes == ASSUME TypeOK, EchoInv, TypeOK', Save PROVE EchoInv'
<1>1. /\ toHost' = Append(toHost, BecameDirty) /\ acts' = acts + 1
      /\ UNCHANGED <<version, preparing, host, views, fromView, toView, toModel>>
  BY DEF Save, Act, BecameDirty
<1>2. HostEdits' = HostEdits
      /\ \A i \in DOMAIN toHost' : toHost'[i].kind = "view" => toHost'[i].panel \in wired
  BY <1>1, DirtyNoHit, HostNews, CountsInv
<1>3. FromOpened' /\ Unready' = Unready
  BY <1>1, <1>2 DEF EchoInv, FromOpened, Uninitialized, Unready, host, views
<1>4. /\ Changes' = Changes /\ ViewEdits' = ViewEdits /\ HostEdits' = HostEdits
      /\ Unready' = Unready /\ Paid' = Paid + 1
  BY <1>1, <1>2, <1>3, CountsInv, ViewSame, HostSame, WiredSame, ReadySame, PaidSame, ChangesSame DEF Changes, Paid, Opened, host
<1>5. /\ Changes' - Changes = 0 /\ ViewEdits' - ViewEdits = 0 /\ HostEdits' - HostEdits = 0
      /\ Unready' - Unready = 0 /\ Paid' - Paid = 1
  BY <1>4, CountsInv
<1>6. IsFiniteSet(wired') /\ IsFiniteSet(ViewSet') /\ FromOpened'
  BY <1>1, <1>3, ViewSame DEF EchoInv, host
<1>. QED  BY <1>5, <1>6, EchoStep

LEMMA HandleInitEchoes ==
  ASSUME TypeOK, EchoInv, TypeOK', NEW p \in Panels, HandleInit(p)
  PROVE  EchoInv'
<1>1. /\ toView' = [toView EXCEPT ![p] = Tail(@)] /\ p \in wired
      /\ UNCHANGED <<model, host, toHost, toModel, acts>>
  BY DEF HandleInit, Deliver, EchoInv, FromOpened
<1>2. CASE initialized[p]
  <2>1. UNCHANGED <<views, fromView>>
    BY <1>2 DEF HandleInit
  <2>2. FromOpened' /\ Unready' = Unready
    BY <1>1, <2>1 DEF EchoInv, FromOpened, Uninitialized, Unready, TypeOK, host, views
  <2>3. /\ Changes' = Changes /\ ViewEdits' = ViewEdits /\ HostEdits' = HostEdits
        /\ Unready' = Unready /\ Paid' = Paid
    BY <1>1, <2>1, <2>2, CountsInv, ViewSame, HostSame, WiredSame, ReadySame, PaidSame, ChangesSame DEF Changes, Paid, model, host, views
  <2>4. /\ Changes' - Changes = 0 /\ ViewEdits' - ViewEdits = 0 /\ HostEdits' - HostEdits = 0
        /\ Unready' - Unready = 0 /\ Paid' - Paid = 0
    BY <2>3, CountsInv
  <2>5. IsFiniteSet(wired') /\ IsFiniteSet(ViewSet') /\ FromOpened'
    BY <1>1, <2>1, <2>2, ViewSame DEF EchoInv, host
  <2>. QED  BY <2>4, <2>5, EchoStep
<1>3. CASE ~initialized[p]
  <2>. DEFINE m == [kind |-> "edit", content |-> Head(toView[p]).content]
  <2>1. Head(toView[p]) \in ToView
    BY DEF TypeOK, HandleInit, Deliver
  <2>2. m \in FromView /\ m \in Posting
    BY <2>1, ToViewContent, ViewMessages DEF Posting
  <2>3. fromView' = [fromView EXCEPT ![p] = Append(@, m)]
        /\ initialized' = [initialized EXCEPT ![p] = TRUE]
    BY <1>3 DEF HandleInit, PostFromView
  <2>. HIDE DEF m
  <2>4. /\ IsFiniteSet(ViewSet')
        /\ ViewEdits' = ViewEdits + 1
    BY <2>2, <2>3, ViewAppend DEF EchoInv, TypeOK
  <2>5. Unready' = Unready - 1
    <3>1. p \in Uninitialized
      BY <1>1, <1>3 DEF Uninitialized
    <3>2. Uninitialized' = Uninitialized \ {p}
      BY <1>1, <2>3 DEF Uninitialized, TypeOK, host
    <3>. QED  BY <3>1, <3>2, Counts, FS_RemoveElement DEF EchoInv, Unready
  <2>6. FromOpened'
    BY <1>1, <2>3 DEF EchoInv, FromOpened, TypeOK, host
  <2>7. /\ Changes' = Changes /\ ViewEdits' = ViewEdits + 1 /\ HostEdits' = HostEdits
        /\ Unready' = Unready - 1 /\ Paid' = Paid
    BY <1>1, <2>4, <2>5, CountsInv, ViewSame, HostSame, WiredSame, ReadySame, PaidSame, ChangesSame DEF Changes, Paid, model, host
  <2>8. /\ Changes' - Changes = 0 /\ ViewEdits' - ViewEdits = 1 /\ HostEdits' - HostEdits = 0
        /\ Unready' - Unready = -1 /\ Paid' - Paid = 0
    BY <2>7, CountsInv
  <2>9. IsFiniteSet(wired') /\ IsFiniteSet(ViewSet') /\ FromOpened'
    BY <1>1, <2>4, <2>6, ViewSame DEF EchoInv, host
  <2>. QED  BY <2>8, <2>9, EchoStep
<1>. QED  BY <1>2, <1>3

LEMMA UpdateEchoes ==
  ASSUME TypeOK, EchoInv, TypeOK', NEW p \in Panels, HandleUpdate(p)
  PROVE  EchoInv'
<1>1. /\ toView' = [toView EXCEPT ![p] = Tail(@)] /\ p \in wired
      /\ UNCHANGED <<model, host, initialized, fromView, toHost, toModel, acts>>
  BY DEF HandleUpdate, Deliver, EchoInv, FromOpened
<1>2. FromOpened' /\ Unready' = Unready
  BY <1>1 DEF EchoInv, FromOpened, Uninitialized, Unready, TypeOK, host
<1>3. /\ Changes' = Changes /\ ViewEdits' = ViewEdits /\ HostEdits' = HostEdits
      /\ Unready' = Unready /\ Paid' = Paid
  BY <1>1, <1>2, CountsInv, ViewSame, HostSame, WiredSame, ReadySame, PaidSame, ChangesSame DEF Changes, Paid, model, host
<1>4. /\ Changes' - Changes = 0 /\ ViewEdits' - ViewEdits = 0 /\ HostEdits' - HostEdits = 0
      /\ Unready' - Unready = 0 /\ Paid' - Paid = 0
  BY <1>3, CountsInv
<1>5. IsFiniteSet(wired') /\ IsFiniteSet(ViewSet') /\ FromOpened'
  BY <1>1, <1>2, ViewSame DEF EchoInv, host
<1>. QED  BY <1>4, <1>5, EchoStep

\* Adding up what one step takes from one count and gives to another.
LEMMA Traded == \A a, b, c, d \in Nat :
                  a + 1 <= b /\ (c = d \/ c = d + 1) => a + c <= b + d
OBVIOUS

LEMMA Kept == \A a, b, c \in Nat : a <= b => a + c <= b + c
OBVIOUS

LEMMA SumsUp == \A c, c2, h, h2, t, t2 \in Nat :
                  c2 + t = c + t2 /\ h2 + t2 <= h + t => c2 + h2 <= c + h
OBVIOUS

LEMMA OthersSame ==
  \A c, c2, v, v2, h, h2, u, u2, p, p2 \in Nat :
    c2 + h2 <= c + h /\ v2 = v /\ u2 = u /\ p2 = p =>
      (c2 - c) + (v2 - v) + (h2 - h) + (u2 - u) <= p2 - p
OBVIOUS

LEMMA Passed ==
  /\ \A v, v2, h, h2 \in Nat : h2 = h + 1 /\ v2 + 1 <= v => v2 + h2 <= v + h
  /\ \A v, v2, h, h2 \in Nat : h2 = h + 0 /\ v2 + 0 <= v => v2 + h2 <= v + h
OBVIOUS

LEMMA OnlyPassed ==
  \A c, c2, v, v2, h, h2, u, u2, p, p2 \in Nat :
    v2 + h2 <= v + h /\ c2 = c /\ u2 = u /\ p2 = p =>
      (c2 - c) + (v2 - v) + (h2 - h) + (u2 - u) <= p2 - p
OBVIOUS

LEMMA FewerOrSame ==
  /\ \A a, b \in Nat : a + 1 <= b => a <= b
  /\ \A a, b \in Nat : a + 0 <= b => a <= b
OBVIOUS

LEMMA ForwardEchoes == ASSUME TypeOK, EchoInv, TypeOK', NEW p \in Panels, Forward(p) PROVE EchoInv'
<1>. DEFINE old == Head(fromView[p])
            m == [kind |-> "view", panel |-> p, message |-> old]
<1>1. /\ fromView[p] # <<>> /\ fromView' = [fromView EXCEPT ![p] = Tail(@)]
      /\ toHost' = Append(toHost, m) /\ p \in wired
      /\ UNCHANGED <<model, host, views, toView, toModel, acts>>
  BY DEF Forward, EchoInv, FromOpened
<1>2. old \in FromView
  BY <1>1 DEF TypeOK
<1>3. m \in ToHost /\ (m \in PostedOn <=> old \in Posting) /\ m.kind = "view" /\ m.panel = p
  <2>1. m \in ToHost
    BY <1>2, HostMessages
  <2>. QED  BY <1>2, <2>1 DEF PostedOn, Posting
<1>. HIDE DEF m, old
<1>4. HostEdits'
        = HostEdits + IF m \in PostedOn THEN 1 ELSE 0
  BY <1>1, <1>3, HitsAppend, HostSame DEF TypeOK, HostEdits
<1>5. /\ IsFiniteSet(ViewSet')
      /\ ViewEdits' + (IF old \in Posting THEN 1 ELSE 0)
           <= ViewEdits
  BY <1>1, ViewTail DEF EchoInv, TypeOK, old
<1>6. ViewEdits' \in Nat
  BY <1>5, FS_CardinalityType DEF ViewEdits
<1>7. FromOpened'
  <2>1. /\ Len(toHost) \in Nat /\ DOMAIN toHost = 1..Len(toHost)
        /\ DOMAIN toHost' = 1..(Len(toHost) + 1)
        /\ \A i \in 1..Len(toHost) : toHost'[i] = toHost[i]
        /\ toHost'[Len(toHost) + 1] = m
    BY <1>1, <1>3, AppendIndexed DEF TypeOK
  <2>2. \A i \in DOMAIN toHost' : toHost'[i].kind = "view" => toHost'[i].panel \in wired
    BY <1>1, <1>3, <2>1 DEF EchoInv, FromOpened
  <2>3. \A q \in Panels \ wired : fromView'[q] = fromView[q]
    BY <1>1 DEF TypeOK
  <2>. QED  BY <1>1, <2>2, <2>3 DEF EchoInv, FromOpened, host, views
<1>8. Unready' = Unready
  BY <1>1 DEF Uninitialized, Unready, host, views
<1>9. /\ Changes' = Changes /\ Unready' = Unready /\ Paid' = Paid
  BY <1>1, <1>8, ChangesSame, PaidSame DEF model, host
<1>10. /\ Changes \in Nat /\ ViewEdits \in Nat /\ HostEdits \in Nat /\ Unready \in Nat
       /\ Paid \in Nat
  BY CountsInv
<1>11. ViewEdits' + HostEdits' <= ViewEdits + HostEdits /\ HostEdits' \in Nat
  <2>1. CASE m \in PostedOn
    <3>1. HostEdits' = HostEdits + 1 /\ ViewEdits' + 1 <= ViewEdits
      BY <1>3, <1>4, <1>5, <2>1
    <3>2. HostEdits' \in Nat
      BY <1>10, <3>1
    <3>. QED  BY Zenon, <1>6, <1>10, <3>1, <3>2, Passed
  <2>2. CASE m \notin PostedOn
    <3>1. HostEdits' = HostEdits + 0 /\ ViewEdits' + 0 <= ViewEdits
      BY <1>3, <1>4, <1>5, <2>2
    <3>2. HostEdits' \in Nat
      BY <1>10, <3>1
    <3>. QED  BY Zenon, <1>6, <1>10, <3>1, <3>2, Passed
  <2>. QED  BY <2>1, <2>2
<1>12. (Changes' - Changes) + (ViewEdits' - ViewEdits) + (HostEdits' - HostEdits)
         + (Unready' - Unready) <= Paid' - Paid
  <2>1. Changes' \in Nat /\ Unready' \in Nat /\ Paid' \in Nat
    BY Zenon, <1>9, <1>10
  <2>. QED  BY ZenonT(60), <1>6, <1>9, <1>10, <1>11, <2>1, OnlyPassed
<1>13. IsFiniteSet(wired')
  BY <1>1, CountsInv DEF host
<1>. QED  BY <1>5, <1>7, <1>12, <1>13, EchoStep

\* The renderer answers an edit, or makes the change.
LEMMA DecideEchoes ==
  ASSUME TypeOK, EchoInv, TypeOK', ReceiveEdit \/ ApplyEdit
  PROVE  EchoInv'
<1>1. /\ UNCHANGED <<host, views, fromView, toView, acts>>
      /\ toModel \in Seq(WorkspaceEdit) /\ preparing \in Seq(WorkspaceEdit)
  BY DEF ReceiveEdit, ApplyEdit, TypeOK
<1>2. \A edit \in WorkspaceEdit : \A b \in BOOLEAN :
        Reply(edit, b) \in ToHost /\ Reply(edit, b).kind # "view"
  BY ReplyNoHit DEF Reply, WorkspaceEdit
<1>3. ASSUME NEW edit \in WorkspaceEdit, Reject(edit)
      PROVE  /\ UNCHANGED version
             /\ HostEdits' = HostEdits
             /\ \A i \in DOMAIN toHost' : toHost'[i].kind = "view" => toHost'[i].panel \in wired
  <2>1. toHost' = Append(toHost, Reply(edit, FALSE)) /\ UNCHANGED version
    BY <1>3 DEF Reject, model
  <2>. QED  BY <1>2, <2>1, HostNews, CountsInv
<1>4. ASSUME NEW edit \in WorkspaceEdit, Accept(edit)
      PROVE  /\ version' = version + 1
             /\ HostEdits' = HostEdits
             /\ \A i \in DOMAIN toHost' : toHost'[i].kind = "view" => toHost'[i].panel \in wired
  <2>1. PICK events \in ChangeEvents(edit.content) :
          toHost' = Append(toHost \o events, Reply(edit, TRUE))
    BY <1>4 DEF Accept
  <2>2. edit.content \in Texts
    BY DEF WorkspaceEdit
  <2>. DEFINE q == toHost \o events
  <2>3. /\ q \in Seq(ToHost) /\ Cardinality(Hits(q, PostedOn)) = HostEdits
        /\ \A i \in DOMAIN q : q[i].kind = "view" => q[i].panel \in wired
    BY <2>1, <2>2, HostConcat DEF EchoInv
  <2>. HIDE DEF q
  <2>4. toHost' = Append(q, Reply(edit, TRUE))
    BY <2>1 DEF q
  <2>. QED  BY <1>2, <1>4, <2>3, <2>4, HostAppend DEF Accept, ChangeModel, EchoInv
<1>5. HostEdits' = HostEdits
      /\ \A i \in DOMAIN toHost' : toHost'[i].kind = "view" => toHost'[i].panel \in wired
  <2>1. CASE ReceiveEdit
    <3>1. Head(toModel) \in WorkspaceEdit
      BY <1>1, <2>1 DEF ReceiveEdit
    <3>2. UNCHANGED toHost \/ Reject(Head(toModel))
      BY <2>1 DEF ReceiveEdit
    <3>3. CASE UNCHANGED toHost
      BY <1>1, <3>3, HostSame, CountsInv DEF FromOpened, views
    <3>. QED  BY <1>3, <3>1, <3>2, <3>3
  <2>2. CASE ApplyEdit
    <3>1. Head(preparing) \in WorkspaceEdit
      BY <1>1, <2>2 DEF ApplyEdit
    <3>. QED  BY <1>3, <1>4, <2>2, <3>1 DEF ApplyEdit
  <2>. QED  BY <2>1, <2>2
<1>6. Changes' <= Changes /\ Changes' \in Nat
  <2>1. CASE ReceiveEdit
    <3>1. /\ Head(toModel) \in WorkspaceEdit /\ toModel' = Tail(toModel) /\ toModel # <<>>
          /\ Len(toModel') = Len(toModel) - 1 /\ Len(toModel') \in Nat
      BY <1>1, <2>1 DEF ReceiveEdit
    <3>2. version' = version /\ (preparing' = preparing \/ preparing' = Append(preparing, Head(toModel)))
      BY <1>3, <2>1, <3>1 DEF ReceiveEdit
    <3>3. Len(preparing') \in {Len(preparing), Len(preparing) + 1} /\ Len(preparing) \in Nat
      BY <1>1, <3>1, <3>2
    <3>4. /\ Len(toModel') = Len(toModel) - 1 /\ version' = version
          /\ Len(preparing') = Len(preparing) \/ Len(preparing') = Len(preparing) + 1
      BY <3>1, <3>2, <3>3
    <3>5. version \in Nat /\ Len(toModel) \in Nat /\ Len(preparing) \in Nat /\ Len(toModel') \in Nat
      BY <3>1, CountsInv
    <3>. QED  BY <3>4, <3>5 DEF Changes
  <2>2. CASE ApplyEdit
    <3>1. /\ Head(preparing) \in WorkspaceEdit /\ UNCHANGED toModel
          /\ Len(preparing') = Len(preparing) - 1 /\ Len(preparing') \in Nat
      BY <1>1, <2>2 DEF ApplyEdit
    <3>2. version' \in {version, version + 1}
      BY <1>3, <1>4, <2>2, <3>1 DEF ApplyEdit
    <3>3. /\ Len(toModel') = Len(toModel) /\ Len(preparing') = Len(preparing) - 1
          /\ version' = version \/ version' = version + 1
      BY <3>1, <3>2
    <3>4. version \in Nat /\ Len(toModel) \in Nat /\ Len(preparing) \in Nat /\ Len(preparing') \in Nat
      BY <3>1, CountsInv
    <3>. QED  BY <3>3, <3>4 DEF Changes
  <2>. QED  BY <2>1, <2>2
<1>7. FromOpened' /\ Unready' = Unready
  BY <1>1, <1>5 DEF EchoInv, FromOpened, Uninitialized, Unready, host, views
<1>8. ViewEdits' = ViewEdits /\ Paid' = Paid
  BY <1>1, ViewSame, PaidSame DEF host
<1>. QED  BY <1>1, <1>5, <1>6, <1>7, <1>8, Counts, EchoStep, ViewSame DEF EchoInv, host

\* The host handles a message.
LEMMA HostEchoes == ASSUME TypeOK, EchoInv, TypeOK', Host PROVE EchoInv'
<1>1. /\ UNCHANGED <<version, preparing, wired, initialized, fromView, acts>>
      /\ toModel \in Seq(WorkspaceEdit)
  BY DEF Host, AcceptModelChanged, AcceptDirtyStateChanged, HandleReady, HandleEdit,
         HandleReply, model, host, views, TypeOK
<1>0. HostEdits \in Nat /\ Len(toModel) \in Nat /\ Changes \in Nat
  BY CountsInv
<1>2. PICK kind : Hear(kind)
  BY DEF Host, AcceptModelChanged, AcceptDirtyStateChanged, HandleReady, HandleEdit, HandleReply
<1>3. /\ HostEdits' + (IF Head(toHost) \in PostedOn THEN 1 ELSE 0)
           <= HostEdits
      /\ HostEdits' \in Nat
      /\ \A i \in DOMAIN toHost' : toHost'[i].kind = "view" => toHost'[i].panel \in wired
      /\ Head(toHost).kind = "view" => Head(toHost).panel \in wired
  BY <1>2, HostTail DEF EchoInv
<1>4. \A q \in Panels \ wired : toView'[q] = toView[q]
  <2>1. CASE AcceptModelChanged \/ AcceptDirtyStateChanged
    BY <2>1 DEF AcceptModelChanged, AcceptDirtyStateChanged, PostUpdates
  <2>2. CASE HandleReady
    <3>1. Head(toHost).panel \in wired
      BY <1>3, <2>2 DEF HandleReady, Hear
    <3>. QED  BY <2>2, <3>1 DEF HandleReady, TypeOK
  <2>3. CASE HandleEdit \/ HandleReply
    BY <2>3 DEF HandleEdit, HandleReply
  <2>. QED  BY <2>1, <2>2, <2>3 DEF Host
<1>5. FromOpened' /\ Unready' = Unready
  BY <1>1, <1>3, <1>4 DEF EchoInv, FromOpened, Uninitialized, Unready
<1>6. HostEdits' + Len(toModel')
        <= HostEdits + Len(toModel)
      /\ Len(toModel') \in Nat
  <2>1. CASE HandleEdit
    <3>1. Head(toHost) \in PostedOn
      <4>1. Head(toHost) \in ToHost
        BY <2>1, HearTypes DEF HandleEdit
      <4>. QED  BY <2>1, <4>1 DEF HandleEdit, Hear, PostedOn
    <3>2. toModel' = toModel \/ \E edit : toModel' = Append(toModel, edit)
      BY <2>1 DEF HandleEdit, SendEdit
    <3>3. Len(toModel') \in {Len(toModel), Len(toModel) + 1} /\ Len(toModel) \in Nat
      BY <1>1, <3>2
    <3>4. HostEdits' + 1 <= HostEdits /\ HostEdits' \in Nat
      BY Zenon, <1>3, <3>1
    <3>5. Len(toModel') = Len(toModel) \/ Len(toModel') = Len(toModel) + 1
      BY <3>3
    <3>6. Len(toModel') \in Nat
      BY <1>0, <3>3
    <3>7. HostEdits' + Len(toModel') <= HostEdits + Len(toModel)
      BY Zenon, <1>0, <3>4, <3>5, <3>6, Traded
    <3>. QED  BY Zenon, <3>6, <3>7
  <2>2. CASE ~HandleEdit
    <3>1. toModel' = toModel
      BY <2>2 DEF Host, AcceptModelChanged, AcceptDirtyStateChanged, HandleReady, HandleReply
    <3>2. HostEdits' <= HostEdits /\ HostEdits' \in Nat
      <4>1. CASE Head(toHost) \in PostedOn
        <5>1. HostEdits' + 1 <= HostEdits
          BY Zenon, <1>3, <4>1
        <5>. QED  BY Zenon, <1>0, <1>3, <5>1, FewerOrSame
      <4>2. CASE Head(toHost) \notin PostedOn
        <5>1. HostEdits' + 0 <= HostEdits
          BY Zenon, <1>3, <4>2
        <5>. QED  BY Zenon, <1>0, <1>3, <5>1, FewerOrSame
      <4>. QED  BY <4>1, <4>2
    <3>. QED  BY Zenon, <1>0, <3>1, <3>2, Kept
  <2>. QED  BY <2>1, <2>2
<1>7. Changes' + Len(toModel) = Changes + Len(toModel') /\ Changes' \in Nat
  <2>1. Changes' = version + Len(toModel') + Len(preparing)
    BY <1>1 DEF Changes
  <2>2. Changes = version + Len(toModel) + Len(preparing)
    BY DEF Changes
  <2>3. version \in Nat /\ Len(preparing) \in Nat
    BY CountsInv
  <2>. QED  BY <1>0, <1>6, <2>1, <2>2, <2>3
<1>8. Changes' + HostEdits' <= Changes + HostEdits
  BY Zenon, <1>0, <1>3, <1>6, <1>7, SumsUp
<1>9. ViewEdits' = ViewEdits /\ Paid' = Paid /\ Unready' = Unready
  BY <1>1, <1>5, ViewSame, PaidSame
<1>10. ViewEdits \in Nat /\ Unready \in Nat /\ Paid \in Nat
  BY CountsInv
<1>11. ViewEdits' \in Nat /\ Unready' \in Nat /\ Paid' \in Nat
  BY Zenon, <1>9, <1>10
<1>12. (Changes' - Changes) + (ViewEdits' - ViewEdits) + (HostEdits' - HostEdits)
         + (Unready' - Unready) <= Paid' - Paid
  <2>1. Changes \in Nat /\ Changes' \in Nat /\ HostEdits \in Nat /\ HostEdits' \in Nat
    BY Zenon, <1>0, <1>3, <1>7
  <2>. QED  BY ZenonT(60), <1>8, <1>9, <1>10, <1>11, <2>1, OthersSame
<1>13. IsFiniteSet(wired') /\ IsFiniteSet(ViewSet')
  BY <1>1, CountsInv, ViewSame
<1>. QED  BY Zenon, <1>5, <1>12, <1>13, EchoStep

LEMMA EchoInit == Init => EchoInv
<1>. SUFFICES ASSUME Init PROVE EchoInv
  OBVIOUS
<1>1. ViewSet = {} /\ wired = {} /\ Uninitialized = {} /\ Hits(toHost, PostedOn) = {}
  BY DEF Init, ViewSet, ViewHits, Hits, Uninitialized
<1>2. ViewEdits = 0 /\ Opened = 0 /\ Unready = 0 /\ HostEdits = 0
  BY <1>1, FS_EmptySet DEF ViewEdits, Opened, Unready, HostEdits
<1>3. Changes = 1 + 0 + 0 /\ Paid = 0 + Opened
  BY DEF Init, Changes, Paid
<1>4. FromOpened
  BY DEF Init, FromOpened
<1>5. Changes + ViewEdits + HostEdits + Unready <= 1 + Paid
  BY <1>2, <1>3
<1>. QED  BY <1>1, <1>4, <1>5, FS_EmptySet DEF EchoInv

\* However updates and edits cross on their ways, they do not chase each
\* other: there are never more changes than acts of people and panels opened.
THEOREM MarkdownNoEchoLoop == Spec => []NoEchoLoop
<1>1. TypeOK /\ EchoInv /\ Next /\ TypeOK' => EchoInv'
  BY OpenEchoes, TypeEchoes, EditElsewhereEchoes, SaveEchoes, HandleInitEchoes,
     UpdateEchoes, ForwardEchoes, DecideEchoes, HostEchoes
     DEF Next, People, Renderer, Webview
<1>2. EchoInv /\ UNCHANGED vars => EchoInv'
  BY ViewSame, HostSame, ReadySame, PaidSame, ChangesSame DEF EchoInv, FromOpened, vars, model, host, views
<1>3. TypeOK /\ EchoInv => NoEchoLoop
  <2>. SUFFICES ASSUME TypeOK, EchoInv PROVE NoEchoLoop
    OBVIOUS
  <2>1. Changes + ViewEdits + HostEdits + Unready <= 1 + Paid
    BY DEF EchoInv
  <2>2. version <= Changes
    BY CountsInv DEF Changes
  <2>3. version <= 1 + Paid
    BY <2>1, <2>2, CountsInv
  <2>4. Paid = acts + Cardinality(wired)
    BY DEF Paid, Opened
  <2>. QED  BY <2>3, <2>4, CountsInv DEF NoEchoLoop, Opened
<1>. QED  BY <1>1, <1>2, <1>3, EchoInit, MarkdownTypes, PTL DEF Spec
=============================================================================

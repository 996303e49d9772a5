--------------------------- MODULE WritingAssistant ---------------------------
(***************************************************************************)
(* The writing assistant and what it needs to reach TokenMix: the key in   *)
(* the settings (TokenMixCredentialService), the refresh of the models     *)
(* when a setting changes (TokenMixContribution), the list of models that  *)
(* LanguageModelsService keeps of TokenMixLanguageModelProvider, and the   *)
(* requests of the chat (NorrisWriterWritingAssistant.invoke).             *)
(*                                                                         *)
(* One action is one callback up to its next await.  getApiKey is awaited  *)
(* by every one of them: it answers at once from the settings, else it     *)
(* reads the secret storage and moves the key found there to the settings  *)
(* in three further steps.                                                 *)
(*                                                                         *)
(* The list of models is represented by the settings it was made with:     *)
(* listing always succeeds, a server that does not answer gives the        *)
(* default model alone.  baseUrl stands for the default model as well.     *)
(*                                                                         *)
(* Bounds: MaxChanges bounds what people do to the settings and to the     *)
(* list, MaxFailures the failures of settings file and secret storage.     *)
(***************************************************************************)
EXTENDS Naturals, Sequences

CONSTANTS
  Keys, Urls,
  Legacy,       \* the key an earlier build left in the secret storage
  Requests, None,
  Anyone,       \* on the queue: a caller that does not use the list itself
  MaxChanges, MaxFailures

ASSUME NameAssumption ==
  /\ None \notin Keys /\ None \notin [apiKey : Keys, baseUrl : Urls]
  /\ Legacy \in Keys /\ Anyone \notin Requests
ASSUME BoundAssumption == MaxChanges \in Nat /\ MaxFailures \in Nat

VARIABLES
  settings,      \* the three norrisWriter.tokenMix settings
  secret,        \* what the secret storage holds
  refreshing,    \* step of getApiKey -> the refreshModels that await it
  queue,         \* _resolveLMSequencer: who waits for the list, first in line first
  resolver,      \* the resolution at the head of the queue
  modelCache,    \* the settings TokenMix's models were listed with, or None
  chat,          \* request -> how far invoke has come
  steady,        \* history: request -> configured, and nothing changed since
  cleared,       \* history: the last edit cleared a key, the legacy one had been
                 \* moved, and nobody who had read it was about to write it
  changes, failures

vars == <<settings, secret, refreshing, queue, resolver, modelCache, chat,
          steady, cleared, changes, failures>>
lists == <<resolver, modelCache>>
history == <<cleared, changes>>

KeySteps == {"reading", "writing", "deleting"}
Settings == [enabled : BOOLEAN, apiKey : Keys \cup {None}, baseUrl : Urls]
Listed == [apiKey : Keys, baseUrl : Urls]
Outcomes == {"answered", "failed", "disabled", "notConfigured", "noModels", "gone"}
ChatSteps == KeySteps \cup {"idle", "choosing", "building", "sent"} \cup Outcomes

IdleResolver == [step |-> "idle", made |-> None]

----------------------------------------------------------------------------
(* What follows from a change of the settings. *)

Anonymous(n) == [i \in 1..n |-> Anyone]

\* n refreshModels start and m resolutions are queued beside them.
\* refreshModels goes straight on to the resolution when the settings hold a
\* key, and ends at once when TokenMix is disabled.
Announce(s, awaiting, waiting, n, m) ==
  IF s.enabled /\ s.apiKey = None
  THEN /\ refreshing' = [awaiting EXCEPT !["reading"] = @ + n]
       /\ queue' = waiting \o Anonymous(m)
  ELSE /\ refreshing' = awaiting
       /\ queue' = waiting \o Anonymous(m + IF s.enabled THEN n ELSE 0)

Configured(s) == s.enabled /\ s.apiKey # None

Init ==
  /\ settings \in Settings /\ secret \in {None, Legacy}
  /\ refreshing = [k \in KeySteps |->
       IF k = "reading" /\ settings.enabled /\ settings.apiKey = None THEN 1 ELSE 0]
  /\ queue = IF Configured(settings) THEN <<Anyone>> ELSE <<>>
  /\ resolver = IdleResolver /\ modelCache = None
  /\ chat = [r \in Requests |-> [step |-> "idle", selected |-> FALSE, sending |-> FALSE]]
  /\ steady = [r \in Requests |-> FALSE]
  /\ cleared = FALSE /\ changes = 0 /\ failures = 0

NobodySteady == [r \in Requests |-> FALSE]

----------------------------------------------------------------------------
(* People. *)

Change == changes < MaxChanges /\ changes' = changes + 1

\* Somebody has read the key of the earlier build and not written it yet.
Moving == \/ refreshing["writing"] > 0 \/ resolver.step = "writing"
          \/ \E r \in Requests : chat[r].step = "writing"

\* The key is edited in the settings: the credential service and the
\* contribution both hear of it, and the former tells the contribution and
\* the provider.
EditKey(key) ==
  LET edited == [settings EXCEPT !.apiKey = key]
  IN /\ Change /\ key # settings.apiKey
     /\ settings' = edited
     /\ Announce(edited, refreshing, queue, 2, 1)
     /\ steady' = NobodySteady /\ cleared' = (key = None /\ secret = None /\ ~Moving)
     /\ UNCHANGED <<secret, lists, chat, failures>>

\* Mutant: the provider does not listen for the base URL.
EditSettingUnheard(enabled, baseUrl) ==
  LET edited == [settings EXCEPT !.enabled = enabled, !.baseUrl = baseUrl]
  IN /\ Change /\ edited # settings
     /\ settings' = edited
     /\ Announce(edited, refreshing, queue, 0, 0)
     /\ steady' = NobodySteady
     /\ UNCHANGED <<secret, lists, chat, cleared, failures>>

\* Another setting is edited: contribution and provider hear of it.
EditSetting(enabled, baseUrl) ==
  LET edited == [settings EXCEPT !.enabled = enabled, !.baseUrl = baseUrl]
  IN /\ Change /\ edited # settings
     /\ settings' = edited
     /\ Announce(edited, refreshing, queue, 1, 1)
     /\ steady' = NobodySteady
     /\ UNCHANGED <<secret, lists, chat, cleared, failures>>

\* The chat's model picker asks for the list.
OpenPicker ==
  /\ Change
  /\ queue' = Append(queue, Anyone)
  /\ UNCHANGED <<settings, secret, refreshing, lists, chat, steady, cleared, failures>>

People == \/ \E key \in Keys \cup {None} : EditKey(key)
          \/ \E enabled \in BOOLEAN, baseUrl \in Urls : EditSetting(enabled, baseUrl)
          \/ OpenPicker

----------------------------------------------------------------------------
(* getApiKey, once the settings held no key. *)

\* setApiKey: everybody hears of a setting that changes, and in any case the
\* credential service fires once more.
WriteKey(awaiting) ==
  LET written == [settings EXCEPT !.apiKey = Legacy]
      same == written = settings
  IN /\ settings' = written
     /\ Announce(written, awaiting, queue, IF same THEN 1 ELSE 3, IF same THEN 1 ELSE 2)
     /\ steady' = IF same THEN steady ELSE NobodySteady

DeleteSecret == secret' = None

Fail == failures < MaxFailures /\ failures' = failures + 1

----------------------------------------------------------------------------
(* refreshModels. *)

Moved(from, to) == [refreshing EXCEPT ![from] = @ - 1, ![to] = @ + 1]
Left(from) == [refreshing EXCEPT ![from] = @ - 1]

\* Mutant: the secret is cached when it is first read.
RefreshReadsCached ==
  /\ refreshing["reading"] > 0
  /\ refreshing' = Moved("reading", "writing")
  /\ UNCHANGED <<settings, secret, queue, lists, chat, steady, history, failures>>

RefreshReads ==
  /\ refreshing["reading"] > 0
  /\ refreshing' = IF secret = None THEN Left("reading") ELSE Moved("reading", "writing")
  /\ UNCHANGED <<settings, secret, queue, lists, chat, steady, history, failures>>

RefreshWrites ==
  /\ refreshing["writing"] > 0
  /\ WriteKey(Moved("writing", "deleting"))
  /\ UNCHANGED <<secret, lists, chat, history, failures>>

\* hasApiKey was true: the list is made anew.
RefreshDeletes ==
  /\ refreshing["deleting"] > 0
  /\ DeleteSecret
  /\ refreshing' = Left("deleting")
  /\ queue' = Append(queue, Anyone)
  /\ UNCHANGED <<settings, lists, chat, steady, history, failures>>

RefreshFails ==
  /\ Fail
  /\ \E k \in KeySteps : refreshing[k] > 0 /\ refreshing' = Left(k)
  /\ UNCHANGED <<settings, secret, queue, lists, chat, steady, history>>

Refresh == RefreshReads \/ RefreshWrites \/ RefreshDeletes

----------------------------------------------------------------------------
(* _resolveAllLanguageModels, one resolution at a time. *)

\* Mutant: returning without models, the resolution does not let the next run.
ResolvedWithoutNext(models) ==
  /\ modelCache' = models
  /\ queue' = IF models = None THEN queue ELSE Tail(queue)
  /\ resolver' = IdleResolver

\* The models replace those of the last resolution, and the next one may run.
Resolved(models) == /\ modelCache' = models
                    /\ queue' = Tail(queue)
                    /\ resolver' = IdleResolver

At(step) == queue # <<>> /\ resolver.step = step

Listing(s) == [step |-> "listing", made |-> [apiKey |-> s.apiKey, baseUrl |-> s.baseUrl]]

Resolving(step) == /\ resolver' = [step |-> step, made |-> None]
                   /\ UNCHANGED <<modelCache, queue>>

\* provideLanguageModelChatInfo.
BeginResolve ==
  /\ At("idle")
  /\ CASE ~settings.enabled -> Resolved(None)
       [] Configured(settings) -> resolver' = Listing(settings)
                                  /\ UNCHANGED <<modelCache, queue>>
       [] OTHER -> Resolving("reading")
  /\ UNCHANGED <<settings, secret, refreshing, chat, steady, history, failures>>

ResolveReads ==
  /\ At("reading")
  /\ IF secret = None THEN Resolved(None) ELSE Resolving("writing")
  /\ UNCHANGED <<settings, secret, refreshing, chat, steady, history, failures>>

ResolveWrites ==
  /\ At("writing")
  /\ WriteKey(refreshing)
  /\ resolver' = [step |-> "deleting", made |-> None]
  /\ UNCHANGED <<secret, modelCache, chat, history, failures>>

ResolveDeletes ==
  /\ At("deleting")
  /\ DeleteSecret
  /\ resolver' = Listing([settings EXCEPT !.apiKey = Legacy])
  /\ UNCHANGED <<settings, refreshing, queue, modelCache, chat, steady, history, failures>>

\* The provider rejects: the vendor has no models.
ResolveFails ==
  /\ Fail
  /\ \E k \in KeySteps : At(k)
  /\ Resolved(None)
  /\ UNCHANGED <<settings, secret, refreshing, chat, steady, history>>

FinishResolve ==
  /\ At("listing")
  /\ Resolved(resolver.made)
  /\ UNCHANGED <<settings, secret, refreshing, chat, steady, history, failures>>

Resolve == BeginResolve \/ ResolveReads \/ ResolveWrites \/ ResolveDeletes \/ FinishResolve

----------------------------------------------------------------------------
(* NorrisWriterWritingAssistant.invoke. *)

Becomes(r, c, step) == chat' = [chat EXCEPT ![r] = [c EXCEPT !.step = step]]

\* Mutant: the models that happen to be cached are taken for the list.
ChooseCached(r, c) ==
  IF modelCache = None THEN Becomes(r, c, "noModels") /\ UNCHANGED queue
  ELSE Becomes(r, c, "building") /\ UNCHANGED queue

\* _resolveModelId: the model selected in the chat if it is in the list,
\* otherwise the first one of a list made anew.
Choose(r, c) ==
  \/ c.selected /\ modelCache # None /\ Becomes(r, c, "building") /\ UNCHANGED queue
  \/ /\ Becomes(r, [c EXCEPT !.selected = FALSE], "choosing")
     /\ queue' = Append(queue, r)

WithKey(r, c) == IF c.sending THEN Becomes(r, c, "sent") /\ UNCHANGED queue
                 ELSE Choose(r, c)

GetKey(r, c) == IF settings.apiKey # None THEN WithKey(r, c)
                ELSE Becomes(r, c, "reading") /\ UNCHANGED queue

Ask(r, selected) ==
  LET c == [step |-> "idle", selected |-> selected, sending |-> FALSE]
  IN /\ chat[r].step = "idle"
     /\ IF settings.enabled THEN GetKey(r, c)
        ELSE Becomes(r, c, "disabled") /\ UNCHANGED queue
     /\ steady' = [steady EXCEPT ![r] = Configured(settings)]
     /\ UNCHANGED <<settings, secret, refreshing, lists, history, failures>>

ChatReads(r) ==
  /\ chat[r].step = "reading"
  /\ Becomes(r, chat[r], IF secret = None THEN "notConfigured" ELSE "writing")
  /\ UNCHANGED <<settings, secret, refreshing, queue, lists, steady, history, failures>>

ChatWrites(r) ==
  /\ chat[r].step = "writing"
  /\ WriteKey(refreshing)
  /\ Becomes(r, chat[r], "deleting")
  /\ UNCHANGED <<secret, lists, history, failures>>

ChatDeletes(r) ==
  /\ chat[r].step = "deleting"
  /\ DeleteSecret
  /\ WithKey(r, chat[r])
  /\ UNCHANGED <<settings, refreshing, lists, steady, history, failures>>

\* selectLanguageModels has its resolution: the first model, if any.
TakeModel(r) ==
  /\ chat[r].step = "choosing"
  /\ \A i \in DOMAIN queue : queue[i] # r
  /\ Becomes(r, chat[r], IF modelCache = None THEN "noModels" ELSE "building")
  /\ UNCHANGED <<settings, secret, refreshing, queue, lists, steady, history, failures>>

\* _buildMessages is done: sendChatRequest looks the model up, and the
\* provider asks for the key once more.
Send(r) ==
  /\ chat[r].step = "building"
  /\ IF modelCache = None THEN Becomes(r, chat[r], "gone") /\ UNCHANGED queue
     ELSE GetKey(r, [chat[r] EXCEPT !.sending = TRUE])
  /\ UNCHANGED <<settings, secret, refreshing, lists, steady, history, failures>>

\* TokenMix answers or refuses.
Answer(r) ==
  /\ chat[r].step = "sent"
  /\ \E outcome \in {"answered", "failed"} : Becomes(r, chat[r], outcome)
  /\ UNCHANGED <<settings, secret, refreshing, queue, lists, steady, history, failures>>

ChatFails(r) ==
  /\ Fail
  /\ chat[r].step \in KeySteps
  /\ Becomes(r, chat[r], "failed")
  /\ UNCHANGED <<settings, secret, refreshing, queue, lists, steady, history>>

Chat(r) == \/ ChatReads(r) \/ ChatWrites(r) \/ ChatDeletes(r)
           \/ TakeModel(r) \/ Send(r) \/ Answer(r)

----------------------------------------------------------------------------

Next == \/ People \/ Refresh \/ RefreshFails \/ Resolve \/ ResolveFails
        \/ \E r \in Requests :
             Chat(r) \/ ChatFails(r) \/ \E selected \in BOOLEAN : Ask(r, selected)

Spec == Init /\ [][Next]_vars

\* Settings file, secret storage, TokenMix and the codex answer what they are
\* asked, each caller in its turn.  Nothing is asked of people.
FairSpec == /\ Spec /\ WF_vars(Resolve)
            /\ \A r \in Requests : WF_vars(Chat(r))

----------------------------------------------------------------------------
(* Properties. *)

\* Every variable has its type.
TypeOK ==
  /\ settings \in Settings /\ secret \in {None, Legacy}
  /\ refreshing \in [KeySteps -> Nat]
  /\ queue \in Seq(Requests \cup {Anyone})
  /\ resolver \in [step : KeySteps \cup {"idle", "listing"}, made : Listed \cup {None}]
  /\ modelCache \in Listed \cup {None}
  /\ chat \in [Requests -> [step : ChatSteps, selected : BOOLEAN, sending : BOOLEAN]]
  /\ steady \in [Requests -> BOOLEAN]
  /\ cleared \in BOOLEAN /\ changes \in Nat /\ failures \in Nat

\* The list the settings call for.
Wanted == IF Configured(settings)
          THEN [apiKey |-> settings.apiKey, baseUrl |-> settings.baseUrl] ELSE None

\* However the settings change while models are being listed, and whatever
\* the migration of the key does meanwhile, the chat ends up with the models
\* of the settings as they are: none once TokenMix is disabled or the key is
\* cleared, and never those of an address or a key that was replaced.
ModelsFollowSettings == queue = <<>> => modelCache = Wanted

\* A request made with TokenMix enabled and a key in the settings is sent if
\* nothing is changed before: it is never told to configure a key or that
\* there are no models because the list was just being made.  (A model the
\* user picked can have left the list.)
ConfiguredRequestsAreSent ==
  \A r \in Requests : steady[r] /\ ~chat[r].selected =>
    chat[r].step \notin {"disabled", "notConfigured", "noModels", "gone"}

\* The key of the earlier build is moved once: when it has left the secret
\* storage and is then cleared in the settings, it does not come back, unless
\* somebody else had read it too and has yet to write it.
ClearedKeyStaysCleared == cleared => settings.apiKey = None

\* Every request of the chat comes to an end.
RequestsEnd ==
  \A r \in Requests : chat[r].step # "idle" ~> chat[r].step \in Outcomes
=============================================================================

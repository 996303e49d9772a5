------------------------ MODULE WritingAssistantProofs ------------------------
(***************************************************************************)
(* Proofs about WritingAssistant: its type correctness, and that the list  *)
(* of models follows the settings, for any number of keys, addresses and   *)
(* requests, and without the bounds on what people do.                     *)
(*                                                                         *)
(* ModelsFollowSettings speaks of the moment when nobody waits for the     *)
(* list.  What makes it inductive is Fresh: whoever waits behind the       *)
(* resolution that is running will list the models anew, so only the last  *)
(* one in the line must be right, and every change of the settings puts    *)
(* somebody behind it.                                                     *)
(***************************************************************************)
EXTENDS WritingAssistant, TLAPS

Waiters == Requests \cup {Anyone}

\* The resolution that nobody waits behind works for the settings as they are.
Fresh ==
  \/ Len(queue) > 1
  \/ queue = <<>> /\ modelCache = Wanted
  \/ /\ Len(queue) = 1
     /\ \/ resolver.step = "idle"
        \/ resolver.step = "listing" /\ resolver.made = Wanted
        \/ resolver.step \in {"reading", "writing"} /\ Wanted = None

FreshInv ==
  /\ TypeOK
  /\ queue = <<>> => resolver.step = "idle"
  /\ resolver.step = "listing" => resolver.made \in Listed
  /\ Fresh

----------------------------------------------------------------------------
(* Queues. *)

\* n nameless callers are a queue of length n.
LEMMA AnonymousType ==
  ASSUME NEW n \in Nat
  PROVE  Anonymous(n) \in Seq(Waiters) /\ Len(Anonymous(n)) = n
BY DEF Anonymous, Waiters

\* Announcing keeps the types and makes the queue at least m longer.
LEMMA AnnounceGrows ==
  ASSUME TypeOK, NEW s \in Settings, NEW awaiting \in [KeySteps -> Nat],
         NEW n \in Nat, NEW m \in Nat, Announce(s, awaiting, queue, n, m)
  PROVE  /\ refreshing' \in [KeySteps -> Nat]
         /\ queue' \in Seq(Waiters)
         /\ Len(queue') >= Len(queue) + m
<1>. queue \in Seq(Waiters)
  BY DEF TypeOK, Waiters
<1>1. CASE s.enabled /\ s.apiKey = None
  <2>1. refreshing' = [awaiting EXCEPT !["reading"] = @ + n] /\ queue' = queue \o Anonymous(m)
    BY <1>1 DEF Announce
  <2>. QED  BY <2>1, AnonymousType DEF KeySteps
<1>2. CASE ~(s.enabled /\ s.apiKey = None)
  <2>. DEFINE k == m + IF s.enabled THEN n ELSE 0
  <2>1. refreshing' = awaiting /\ queue' = queue \o Anonymous(k)
    BY <1>2 DEF Announce
  <2>2. k \in Nat /\ k >= m
    OBVIOUS
  <2>. HIDE DEF k
  <2>. QED  BY <2>1, <2>2, AnonymousType
<1>. QED  BY <1>1, <1>2

\* A caller at the end of the queue.
LEMMA AppendGrows ==
  ASSUME TypeOK, NEW w \in Waiters, queue' = Append(queue, w)
  PROVE  queue' \in Seq(Waiters) /\ Len(queue') = Len(queue) + 1
BY DEF TypeOK, Waiters

\* Moving a refreshModels from step to step.
LEMMA RefreshingMoves ==
  ASSUME TypeOK, NEW k \in KeySteps, NEW l \in KeySteps, refreshing[k] > 0, k # l
  PROVE  Left(k) \in [KeySteps -> Nat] /\ Moved(k, l) \in [KeySteps -> Nat]
<1>1. refreshing \in [KeySteps -> Nat] /\ refreshing[k] - 1 \in Nat /\ refreshing[l] + 1 \in Nat
  BY DEF TypeOK
<1>. QED  BY <1>1 DEF Left, Moved

\* A line that is not empty has one in it or more.
LEMMA OneOrMore == \A k \in Nat : k >= 1 => k = 1 \/ k > 1
OBVIOUS

----------------------------------------------------------------------------
(* What a step does to Fresh, by what it leaves alone. *)

\* The settings change and somebody is put behind the resolution.
LEMMA ChangeKeepsFresh ==
  ASSUME FreshInv, queue' \in Seq(Waiters), Len(queue') >= Len(queue) + 1,
         UNCHANGED resolver, TypeOK'
  PROVE  FreshInv'
<1>1. queue' # <<>>
  BY DEF FreshInv, TypeOK
<1>2. CASE queue = <<>>
  <2>1. Len(queue) = 0 /\ Len(queue') \in Nat /\ Len(queue') >= 0 + 1
    BY <1>2
  <2>2. resolver'.step = "idle"
    BY <1>2 DEF FreshInv
  <2>3. Len(queue') > 1 \/ Len(queue') = 1
    BY <2>1, OneOrMore
  <2>. QED  BY <1>1, <2>2, <2>3 DEF FreshInv, Fresh
<1>3. CASE queue # <<>>
  <2>1. Len(queue) >= 1
    BY <1>3 DEF FreshInv, TypeOK
  <2>. QED  BY <1>1, <2>1 DEF FreshInv, Fresh, TypeOK
<1>. QED  BY <1>2, <1>3

\* Nothing Fresh speaks of changes.
LEMMA StutterKeepsFresh ==
  ASSUME FreshInv, UNCHANGED <<settings, queue, resolver, modelCache>>, TypeOK'
  PROVE  FreshInv'
BY DEF FreshInv, Fresh, Wanted, Configured

\* A resolution ends with the models the settings call for, unless somebody
\* waits behind it.
LEMMA ResolvedKeepsFresh ==
  ASSUME FreshInv, NEW models, Resolved(models), queue # <<>>, UNCHANGED settings,
         Len(queue) = 1 => models = Wanted, TypeOK'
  PROVE  FreshInv'
<1>1. queue' = Tail(queue) /\ resolver' = IdleResolver /\ modelCache' = models
  BY DEF Resolved
<1>2. queue \in Seq(Waiters) /\ Len(queue) >= 1 /\ Len(queue) \in Nat
  BY DEF FreshInv, TypeOK, Waiters
<1>3. Len(queue') = Len(queue) - 1
  BY <1>1, <1>2
<1>4. queue' \in Seq(Waiters)
  BY <1>1, <1>2
<1>5. Wanted' = Wanted
  BY DEF Wanted, Configured
<1>6. resolver'.step = "idle"
  BY <1>1 DEF IdleResolver
<1>7. CASE Len(queue) = 1
  <2>1. queue' = <<>>
    BY <1>3, <1>4, <1>7
  <2>2. modelCache' = Wanted'
    BY <1>1, <1>5, <1>7
  <2>. QED  BY <1>6, <2>1, <2>2 DEF FreshInv, Fresh
<1>8. CASE Len(queue) > 1
  <2>1. Len(queue') = 1 \/ Len(queue') > 1
    BY <1>2, <1>3, <1>8
  <2>2. queue' # <<>>
    BY <2>1
  <2>. QED  BY <1>6, <2>1, <2>2 DEF FreshInv, Fresh
<1>. QED  BY <1>2, <1>7, <1>8, OneOrMore

\* A caller is put behind the resolution; nothing else Fresh speaks of changes.
LEMMA AppendKeepsFresh ==
  ASSUME FreshInv, NEW w \in Waiters, queue' = Append(queue, w),
         UNCHANGED resolver, TypeOK'
  PROVE  FreshInv'
<1>1. queue' \in Seq(Waiters) /\ Len(queue') = Len(queue) + 1
  BY AppendGrows DEF FreshInv
<1>2. Len(queue) \in Nat
  BY DEF FreshInv, TypeOK
<1>. QED  BY <1>1, <1>2, ChangeKeepsFresh

----------------------------------------------------------------------------
(* Types. *)

\* A request's own steps keep its type.
LEMMA BecomesType ==
  ASSUME TypeOK, NEW r \in Requests, NEW step \in ChatSteps,
         NEW c \in [step : ChatSteps, selected : BOOLEAN, sending : BOOLEAN],
         Becomes(r, c, step)
  PROVE  chat' \in [Requests -> [step : ChatSteps, selected : BOOLEAN, sending : BOOLEAN]]
BY DEF TypeOK, Becomes

ChatRecords == [step : ChatSteps, selected : BOOLEAN, sending : BOOLEAN]

\* Whatever getApiKey is awaited for, the request goes on to a step of its
\* own, and the queue grows by that request at most.
LEMMA WithKeyType ==
  ASSUME TypeOK, NEW r \in Requests, NEW c \in ChatRecords, WithKey(r, c)
  PROVE  /\ chat' \in [Requests -> ChatRecords]
         /\ queue' = queue \/ queue' = Append(queue, r)
<1>1. /\ [c EXCEPT !.selected = FALSE] \in ChatRecords
      /\ {"sent", "building", "choosing"} \subseteq ChatSteps
  BY DEF ChatRecords, ChatSteps
<1>2. CASE c.sending
  BY <1>1, <1>2, BecomesType DEF WithKey, ChatRecords
<1>3. CASE ~c.sending
  <2>1. \/ Becomes(r, c, "building") /\ UNCHANGED queue
        \/ Becomes(r, [c EXCEPT !.selected = FALSE], "choosing") /\ queue' = Append(queue, r)
    BY <1>3 DEF WithKey, Choose
  <2>. QED  BY <1>1, <2>1, BecomesType DEF ChatRecords
<1>. QED  BY <1>2, <1>3

LEMMA GetKeyType ==
  ASSUME TypeOK, NEW r \in Requests, NEW c \in ChatRecords, GetKey(r, c)
  PROVE  /\ chat' \in [Requests -> ChatRecords]
         /\ queue' = queue \/ queue' = Append(queue, r)
<1>1. CASE settings.apiKey # None
  BY <1>1, WithKeyType DEF GetKey
<1>2. CASE settings.apiKey = None
  BY <1>2, BecomesType DEF GetKey, ChatRecords, ChatSteps, KeySteps
<1>. QED  BY <1>1, <1>2

\* The queue after a request has joined it, or not.
LEMMA JoinedType ==
  ASSUME TypeOK, NEW r \in Requests, queue' = queue \/ queue' = Append(queue, r)
  PROVE  queue' \in Seq(Waiters)
BY AppendGrows DEF TypeOK, Waiters

\* What a resolution leaves is well typed.
LEMMA ResolvedType ==
  ASSUME TypeOK, NEW models \in Listed \cup {None}, Resolved(models), queue # <<>>
  PROVE  /\ queue' \in Seq(Waiters) /\ modelCache' \in Listed \cup {None}
         /\ resolver' \in [step : KeySteps \cup {"idle", "listing"}, made : Listed \cup {None}]
BY DEF TypeOK, Resolved, IdleResolver, Waiters

\* Listing with a key gives a list.
LEMMA ListingType ==
  ASSUME NEW s \in Settings, s.apiKey # None
  PROVE  /\ Listing(s) \in [step : KeySteps \cup {"idle", "listing"}, made : Listed \cup {None}]
         /\ Listing(s).step = "listing" /\ Listing(s).made \in Listed
         /\ Listing(s).made = [apiKey |-> s.apiKey, baseUrl |-> s.baseUrl]
BY DEF Listing, Settings, Listed

\* The migration writes settings, and puts at least one caller in the line.
LEMMA WriteKeyGrows ==
  ASSUME TypeOK, NEW awaiting \in [KeySteps -> Nat], WriteKey(awaiting)
  PROVE  /\ settings' \in Settings /\ steady' \in [Requests -> BOOLEAN]
         /\ refreshing' \in [KeySteps -> Nat]
         /\ queue' \in Seq(Waiters) /\ Len(queue') >= Len(queue) + 1
<1>. DEFINE written == [settings EXCEPT !.apiKey = Legacy]
            n == IF written = settings THEN 1 ELSE 3
            m == IF written = settings THEN 1 ELSE 2
<1>1. written \in Settings
  BY NameAssumption DEF TypeOK, Settings
<1>2. settings' = written /\ Announce(written, awaiting, queue, n, m)
  BY DEF WriteKey
<1>3. n \in Nat /\ m \in Nat /\ m >= 1
  OBVIOUS
<1>4. steady' \in [Requests -> BOOLEAN]
  BY DEF WriteKey, TypeOK, NobodySteady
<1>. HIDE DEF n, m, written
<1>5. /\ refreshing' \in [KeySteps -> Nat] /\ queue' \in Seq(Waiters)
      /\ Len(queue') >= Len(queue) + m
  BY <1>1, <1>2, <1>3, AnnounceGrows
<1>6. Len(queue) \in Nat /\ Len(queue') \in Nat
  BY <1>5 DEF TypeOK
<1>7. Len(queue') >= Len(queue) + 1
  BY <1>3, <1>5, <1>6
<1>. QED  BY <1>1, <1>2, <1>4, <1>5, <1>7

----------------------------------------------------------------------------
(* The actions. *)

LEMMA InitFresh ==
  ASSUME Init
  PROVE  FreshInv
<1>1. TypeOK
  <2>0. <<Anyone>> \in Seq(Requests \cup {Anyone}) /\ <<>> \in Seq(Requests \cup {Anyone})
    OBVIOUS
  <2>1. queue \in Seq(Requests \cup {Anyone})
    BY <2>0 DEF Init
  <2>2. settings \in Settings /\ secret \in {None, Legacy} /\ cleared \in BOOLEAN
    BY DEF Init
  <2>3. refreshing \in [KeySteps -> Nat]
    BY DEF Init
  <2>4. /\ resolver \in [step : KeySteps \cup {"idle", "listing"}, made : Listed \cup {None}]
        /\ modelCache \in Listed \cup {None} /\ changes \in Nat /\ failures \in Nat
    BY DEF Init, IdleResolver
  <2>5. chat \in [Requests -> [step : ChatSteps, selected : BOOLEAN, sending : BOOLEAN]]
    BY DEF Init, ChatSteps
  <2>6. steady \in [Requests -> BOOLEAN]
    BY DEF Init
  <2>. QED  BY <2>1, <2>2, <2>3, <2>4, <2>5, <2>6 DEF TypeOK
<1>2. queue = <<>> \/ Len(queue) = 1
  BY DEF Init
<1>3. queue = <<>> => modelCache = Wanted
  <2>1. CASE Configured(settings)
    BY <2>1 DEF Init
  <2>2. CASE ~Configured(settings)
    BY <2>2 DEF Init, Wanted
  <2>. QED  BY <2>1, <2>2
<1>4. resolver.step = "idle"
  BY DEF Init, IdleResolver
<1>. QED  BY <1>1, <1>2, <1>3, <1>4 DEF FreshInv, Fresh

LEMMA PeopleKeepFresh ==
  ASSUME FreshInv, People
  PROVE  FreshInv'
<1>. USE DEF FreshInv
<1>1. ASSUME NEW key \in Keys \cup {None}, EditKey(key)
      PROVE  FreshInv'
  <2>. DEFINE edited == [settings EXCEPT !.apiKey = key]
  <2>1. edited \in Settings
    BY DEF TypeOK, Settings
  <2>2. settings' = edited /\ Announce(edited, refreshing, queue, 2, 1)
    BY <1>1 DEF EditKey
  <2>3. /\ refreshing' \in [KeySteps -> Nat] /\ queue' \in Seq(Waiters)
        /\ Len(queue') >= Len(queue) + 1
    BY <2>1, <2>2, AnnounceGrows DEF TypeOK
  <2>4. TypeOK'
    BY <1>1, <2>1, <2>2, <2>3 DEF EditKey, TypeOK, Change, NobodySteady, lists, Waiters
  <2>. QED  BY <1>1, <2>3, <2>4, ChangeKeepsFresh DEF EditKey, lists
<1>2. ASSUME NEW enabled \in BOOLEAN, NEW baseUrl \in Urls, EditSetting(enabled, baseUrl)
      PROVE  FreshInv'
  <2>. DEFINE edited == [settings EXCEPT !.enabled = enabled, !.baseUrl = baseUrl]
  <2>1. edited \in Settings
    BY DEF TypeOK, Settings
  <2>2. settings' = edited /\ Announce(edited, refreshing, queue, 1, 1)
    BY <1>2 DEF EditSetting
  <2>3. /\ refreshing' \in [KeySteps -> Nat] /\ queue' \in Seq(Waiters)
        /\ Len(queue') >= Len(queue) + 1
    BY <2>1, <2>2, AnnounceGrows DEF TypeOK
  <2>4. TypeOK'
    BY <1>2, <2>1, <2>2, <2>3 DEF EditSetting, TypeOK, Change, NobodySteady, lists, Waiters
  <2>. QED  BY <1>2, <2>3, <2>4, ChangeKeepsFresh DEF EditSetting, lists
<1>3. ASSUME OpenPicker
      PROVE  FreshInv'
  <2>1. queue' \in Seq(Waiters)
    BY <1>3, AppendGrows DEF OpenPicker, Waiters
  <2>2. TypeOK'
    BY <1>3, <2>1 DEF OpenPicker, TypeOK, Change, lists, Waiters
  <2>. QED  BY <1>3, <2>2, AppendKeepsFresh DEF OpenPicker, Waiters, lists
<1>. QED  BY <1>1, <1>2, <1>3 DEF People

LEMMA RefreshKeepsFresh ==
  ASSUME FreshInv, Refresh \/ RefreshFails
  PROVE  FreshInv'
<1>. USE DEF FreshInv
<1>1. CASE RefreshReads
  <2>1. refreshing' \in [KeySteps -> Nat]
    BY <1>1, RefreshingMoves DEF RefreshReads, KeySteps
  <2>2. TypeOK'
    BY <1>1, <2>1 DEF RefreshReads, TypeOK, lists, history
  <2>. QED  BY <1>1, <2>2, StutterKeepsFresh DEF RefreshReads, lists
<1>2. CASE RefreshWrites
  <2>1. Moved("writing", "deleting") \in [KeySteps -> Nat]
    BY <1>2, RefreshingMoves DEF RefreshWrites, KeySteps
  <2>2. /\ settings' \in Settings /\ steady' \in [Requests -> BOOLEAN]
        /\ refreshing' \in [KeySteps -> Nat]
        /\ queue' \in Seq(Waiters) /\ Len(queue') >= Len(queue) + 1
    BY <1>2, <2>1, WriteKeyGrows DEF RefreshWrites
  <2>3. TypeOK'
    BY <1>2, <2>2 DEF RefreshWrites, TypeOK, lists, history, Waiters
  <2>. QED  BY <1>2, <2>2, <2>3, ChangeKeepsFresh DEF RefreshWrites, lists
<1>3. CASE RefreshDeletes
  <2>1. refreshing' \in [KeySteps -> Nat]
    BY <1>3, RefreshingMoves DEF RefreshDeletes, KeySteps
  <2>2. queue' \in Seq(Waiters)
    BY <1>3, AppendGrows DEF RefreshDeletes, Waiters
  <2>3. TypeOK'
    BY <1>3, <2>1, <2>2 DEF RefreshDeletes, DeleteSecret, TypeOK, lists, history, Waiters
  <2>. QED  BY <1>3, <2>3, AppendKeepsFresh DEF RefreshDeletes, Waiters, lists
<1>4. CASE RefreshFails
  <2>1. PICK k \in KeySteps : refreshing[k] > 0 /\ refreshing' = Left(k)
    BY <1>4 DEF RefreshFails
  <2>2. refreshing' \in [KeySteps -> Nat]
    <3>1. refreshing \in [KeySteps -> Nat] /\ refreshing[k] - 1 \in Nat
      BY <2>1 DEF TypeOK
    <3>. QED  BY <2>1, <3>1 DEF Left
  <2>3. TypeOK'
    BY <1>4, <2>2 DEF RefreshFails, Fail, TypeOK, lists, history
  <2>. QED  BY <1>4, <2>3, StutterKeepsFresh DEF RefreshFails, lists
<1>. QED  BY <1>1, <1>2, <1>3, <1>4 DEF Refresh

\* A resolution goes on to a step that is not the end.
LEMMA ResolvingKeepsFresh ==
  ASSUME FreshInv, NEW step \in KeySteps, Resolving(step), queue # <<>>, UNCHANGED settings,
         \/ Len(queue) > 1
         \/ step \in {"reading", "writing"} /\ Wanted = None,
         TypeOK'
  PROVE  FreshInv'
<1>1. queue' = queue /\ resolver'.step = step
  BY DEF Resolving
<1>2. Wanted' = Wanted
  BY DEF Wanted, Configured
<1>3. Len(queue) \in Nat /\ Len(queue) >= 1
  BY DEF FreshInv, TypeOK
<1>4. step # "listing"
  BY DEF KeySteps
<1>. QED  BY <1>1, <1>2, <1>3, <1>4, OneOrMore DEF FreshInv, Fresh

\* A resolution goes on to list the models.
LEMMA ListingKeepsFresh ==
  ASSUME FreshInv, NEW s \in Settings, s.apiKey # None, resolver' = Listing(s),
         UNCHANGED <<queue, settings>>, queue # <<>>,
         Len(queue) > 1 \/ Wanted = [apiKey |-> s.apiKey, baseUrl |-> s.baseUrl],
         TypeOK'
  PROVE  FreshInv'
<1>1. /\ resolver'.step = "listing" /\ resolver'.made \in Listed
      /\ resolver'.made = [apiKey |-> s.apiKey, baseUrl |-> s.baseUrl]
  BY ListingType
<1>2. Wanted' = Wanted
  BY DEF Wanted, Configured
<1>3. Len(queue) \in Nat /\ Len(queue) >= 1
  BY DEF FreshInv, TypeOK
<1>. QED  BY <1>1, <1>2, <1>3, OneOrMore DEF FreshInv, Fresh

LEMMA ResolveKeepsFresh ==
  ASSUME FreshInv, Resolve \/ ResolveFails
  PROVE  FreshInv'
<1>. USE DEF FreshInv
<1>0. queue # <<>> => Len(queue) \in Nat /\ Len(queue) >= 1
  BY DEF TypeOK
<1>1. CASE BeginResolve
  <2>1. queue # <<>>
    BY <1>1 DEF BeginResolve, At
  <2>2. CASE ~settings.enabled
    <3>1. Resolved(None)
      BY <1>1, <2>2 DEF BeginResolve, Configured
    <3>2. TypeOK'
      BY <1>1, <2>1, <3>1, ResolvedType DEF BeginResolve, TypeOK, history, Waiters
    <3>. QED  BY <1>1, <2>1, <2>2, <3>1, <3>2, ResolvedKeepsFresh
              DEF BeginResolve, Wanted, Configured
  <2>3. CASE settings.enabled /\ Configured(settings)
    <3>1. resolver' = Listing(settings) /\ UNCHANGED <<modelCache, queue>>
      BY <1>1, <2>3 DEF BeginResolve
    <3>2. settings.apiKey # None /\ settings \in Settings
      BY <2>3 DEF Configured, TypeOK
    <3>3. TypeOK'
      BY <1>1, <3>1, <3>2, ListingType DEF BeginResolve, TypeOK, history
    <3>. QED  BY <1>1, <2>1, <2>3, <3>1, <3>2, <3>3, ListingKeepsFresh DEF BeginResolve, Wanted
  <2>4. CASE settings.enabled /\ ~Configured(settings)
    <3>1. Resolving("reading")
      BY <1>1, <2>4 DEF BeginResolve
    <3>2. TypeOK'
      BY <1>1, <3>1 DEF BeginResolve, Resolving, TypeOK, history, KeySteps
    <3>. QED  BY <1>1, <2>1, <2>4, <3>1, <3>2, ResolvingKeepsFresh
              DEF BeginResolve, Wanted, KeySteps
  <2>. QED  BY <2>2, <2>3, <2>4
<1>2. CASE ResolveReads
  <2>1. queue # <<>> /\ resolver.step = "reading"
    BY <1>2 DEF ResolveReads, At
  <2>2. Len(queue) = 1 => Wanted = None
    BY <2>1 DEF Fresh
  <2>3. CASE secret = None
    <3>1. Resolved(None)
      BY <1>2, <2>3 DEF ResolveReads
    <3>2. TypeOK'
      BY <1>2, <2>1, <3>1, ResolvedType DEF ResolveReads, TypeOK, history, Waiters
    <3>. QED  BY <1>2, <2>1, <2>2, <3>1, <3>2, ResolvedKeepsFresh DEF ResolveReads
  <2>4. CASE secret # None
    <3>1. Resolving("writing")
      BY <1>2, <2>4 DEF ResolveReads
    <3>2. TypeOK'
      BY <1>2, <3>1 DEF ResolveReads, Resolving, TypeOK, history, KeySteps
    <3>. QED  BY <1>0, <1>2, <2>1, <2>2, <3>1, <3>2, OneOrMore, ResolvingKeepsFresh
              DEF ResolveReads, KeySteps
  <2>. QED  BY <2>3, <2>4
<1>3. CASE ResolveWrites
  <2>1. queue # <<>> /\ resolver.step = "writing" /\ refreshing \in [KeySteps -> Nat]
    BY <1>3 DEF ResolveWrites, At, TypeOK
  <2>2. /\ settings' \in Settings /\ steady' \in [Requests -> BOOLEAN]
        /\ refreshing' \in [KeySteps -> Nat]
        /\ queue' \in Seq(Waiters) /\ Len(queue') >= Len(queue) + 1
    BY <1>3, <2>1, WriteKeyGrows DEF ResolveWrites
  <2>3. resolver' = [step |-> "deleting", made |-> None]
    BY <1>3 DEF ResolveWrites
  <2>4. TypeOK'
    BY <1>3, <2>2, <2>3 DEF ResolveWrites, TypeOK, history, Waiters, KeySteps
  <2>5. Len(queue') > 1
    BY <1>0, <2>1, <2>2
  <2>6. queue' # <<>>
    BY <2>5
  <2>. QED  BY <2>3, <2>4, <2>5, <2>6 DEF Fresh
<1>4. CASE ResolveDeletes
  <2>1. queue # <<>> /\ resolver.step = "deleting"
    BY <1>4 DEF ResolveDeletes, At
  <2>. DEFINE moved == [settings EXCEPT !.apiKey = Legacy]
  <2>2. Len(queue) > 1
    BY <2>1 DEF Fresh
  <2>3. moved \in Settings /\ moved.apiKey # None
    BY NameAssumption DEF TypeOK, Settings
  <2>4. resolver' = Listing(moved) /\ UNCHANGED <<queue, settings>>
    BY <1>4 DEF ResolveDeletes
  <2>. HIDE DEF moved
  <2>5. TypeOK'
    <3>1. resolver' \in [step : KeySteps \cup {"idle", "listing"}, made : Listed \cup {None}]
      BY <2>3, <2>4, ListingType
    <3>. QED  BY <1>4, <3>1 DEF ResolveDeletes, DeleteSecret, TypeOK, history
  <2>. QED  BY <2>1, <2>2, <2>3, <2>4, <2>5, ListingKeepsFresh
<1>5. CASE FinishResolve
  <2>1. queue # <<>> /\ resolver.step = "listing" /\ Resolved(resolver.made)
    BY <1>5 DEF FinishResolve, At
  <2>2. resolver.made \in Listed
    BY <2>1
  <2>3. Len(queue) = 1 => resolver.made = Wanted
    BY <2>1 DEF Fresh
  <2>4. TypeOK'
    BY <1>5, <2>1, <2>2, ResolvedType DEF FinishResolve, TypeOK, history, Waiters
  <2>. QED  BY <1>5, <2>1, <2>3, <2>4, ResolvedKeepsFresh DEF FinishResolve
<1>6. CASE ResolveFails
  <2>1. queue # <<>> /\ resolver.step \in KeySteps /\ Resolved(None)
    BY <1>6 DEF ResolveFails, At
  <2>2. Len(queue) = 1 => Wanted = None
    BY <2>1 DEF Fresh, KeySteps
  <2>3. TypeOK'
    BY <1>6, <2>1, ResolvedType DEF ResolveFails, Fail, TypeOK, history, Waiters
  <2>. QED  BY <1>6, <2>1, <2>2, <2>3, ResolvedKeepsFresh DEF ResolveFails
<1>. QED  BY <1>1, <1>2, <1>3, <1>4, <1>5, <1>6 DEF Resolve

LEMMA ChatKeepsFresh ==
  ASSUME FreshInv, NEW r \in Requests,
         Chat(r) \/ ChatFails(r) \/ \E selected \in BOOLEAN : Ask(r, selected)
  PROVE  FreshInv'
<1>. USE DEF FreshInv
<1>0. /\ chat \in [Requests -> ChatRecords] /\ chat[r] \in ChatRecords
      /\ [chat[r] EXCEPT !.sending = TRUE] \in ChatRecords
  BY DEF TypeOK, ChatRecords
<1>a. ASSUME UNCHANGED <<settings, secret, refreshing, lists, history>>,
             chat' \in [Requests -> ChatRecords], steady' \in [Requests -> BOOLEAN],
             failures' \in Nat, queue' = queue \/ queue' = Append(queue, r)
      PROVE  FreshInv'
  <2>1. TypeOK'
    BY <1>a, JoinedType DEF TypeOK, ChatRecords, lists, history, Waiters
  <2>2. CASE queue' = queue
    BY <1>a, <2>1, <2>2, StutterKeepsFresh DEF lists
  <2>3. CASE queue' = Append(queue, r)
    BY <1>a, <2>1, <2>3, AppendKeepsFresh DEF lists, Waiters
  <2>. QED  BY <1>a, <2>2, <2>3
<1>b. failures \in Nat /\ steady \in [Requests -> BOOLEAN]
  BY DEF TypeOK
<1>1. ASSUME NEW selected \in BOOLEAN, Ask(r, selected)
      PROVE  FreshInv'
  <2>. DEFINE c == [step |-> "idle", selected |-> selected, sending |-> FALSE]
  <2>1. c \in ChatRecords /\ "disabled" \in ChatSteps
    BY DEF ChatRecords, ChatSteps, Outcomes
  <2>2. GetKey(r, c) \/ (Becomes(r, c, "disabled") /\ UNCHANGED queue)
    BY <1>1 DEF Ask
  <2>. HIDE DEF c
  <2>3. chat' \in [Requests -> ChatRecords] /\ (queue' = queue \/ queue' = Append(queue, r))
    BY <2>1, <2>2, GetKeyType, BecomesType DEF ChatRecords
  <2>4. steady' \in [Requests -> BOOLEAN]
    BY <1>1, <1>b DEF Ask, Configured, TypeOK, Settings
  <2>. QED  BY <1>1, <1>a, <1>b, <2>3, <2>4 DEF Ask
<1>2. CASE ChatReads(r)
  <2>1. chat' \in [Requests -> ChatRecords]
    BY <1>0, <1>2, BecomesType DEF ChatReads, ChatRecords, ChatSteps, KeySteps, Outcomes
  <2>. QED  BY <1>2, <1>a, <1>b, <2>1 DEF ChatReads
<1>3. CASE ChatWrites(r)
  <2>1. chat' \in [Requests -> ChatRecords]
    BY <1>0, <1>3, BecomesType DEF ChatWrites, ChatRecords, ChatSteps, KeySteps
  <2>2. /\ settings' \in Settings /\ steady' \in [Requests -> BOOLEAN]
        /\ refreshing' \in [KeySteps -> Nat]
        /\ queue' \in Seq(Waiters) /\ Len(queue') >= Len(queue) + 1
    BY <1>3, WriteKeyGrows DEF ChatWrites, TypeOK
  <2>3. TypeOK'
    BY <1>3, <2>1, <2>2 DEF ChatWrites, TypeOK, lists, history, ChatRecords, Waiters
  <2>. QED  BY <1>3, <2>2, <2>3, ChangeKeepsFresh DEF ChatWrites, lists
<1>4. CASE ChatDeletes(r)
  <2>1. chat' \in [Requests -> ChatRecords] /\ (queue' = queue \/ queue' = Append(queue, r))
    BY <1>0, <1>4, WithKeyType DEF ChatDeletes
  <2>2. TypeOK'
    BY <1>4, <2>1, JoinedType
       DEF ChatDeletes, DeleteSecret, TypeOK, lists, history, ChatRecords, Waiters
  <2>3. CASE queue' = queue
    BY <1>4, <2>2, <2>3, StutterKeepsFresh DEF ChatDeletes, lists
  <2>4. CASE queue' = Append(queue, r)
    BY <1>4, <2>2, <2>4, AppendKeepsFresh DEF ChatDeletes, lists, Waiters
  <2>. QED  BY <2>1, <2>3, <2>4
<1>5. CASE TakeModel(r)
  <2>1. chat' \in [Requests -> ChatRecords]
    BY <1>0, <1>5, BecomesType DEF TakeModel, ChatRecords, ChatSteps, Outcomes
  <2>. QED  BY <1>5, <1>a, <1>b, <2>1 DEF TakeModel
<1>6. CASE Send(r)
  <2>1. CASE modelCache = None
    <3>1. Becomes(r, chat[r], "gone") /\ queue' = queue
      BY <1>6, <2>1 DEF Send
    <3>2. chat' \in [Requests -> ChatRecords]
      BY <1>0, <3>1, BecomesType DEF ChatRecords, ChatSteps, Outcomes
    <3>. QED  BY <1>6, <1>a, <1>b, <3>1, <3>2 DEF Send
  <2>2. CASE modelCache # None
    <3>1. GetKey(r, [chat[r] EXCEPT !.sending = TRUE])
      BY <1>6, <2>2 DEF Send
    <3>2. chat' \in [Requests -> ChatRecords] /\ (queue' = queue \/ queue' = Append(queue, r))
      BY <1>0, <3>1, GetKeyType
    <3>. QED  BY <1>6, <1>a, <1>b, <3>2 DEF Send
  <2>. QED  BY <2>1, <2>2
<1>7. CASE Answer(r)
  <2>1. chat' \in [Requests -> ChatRecords]
    BY <1>0, <1>7, BecomesType DEF Answer, ChatRecords, ChatSteps, Outcomes
  <2>. QED  BY <1>7, <1>a, <1>b, <2>1 DEF Answer
<1>8. CASE ChatFails(r)
  <2>1. chat' \in [Requests -> ChatRecords]
    BY <1>0, <1>8, BecomesType DEF ChatFails, ChatRecords, ChatSteps, Outcomes
  <2>. QED  BY <1>8, <1>a, <1>b, <2>1 DEF ChatFails, Fail
<1>. QED  BY <1>1, <1>2, <1>3, <1>4, <1>5, <1>6, <1>7, <1>8 DEF Chat

----------------------------------------------------------------------------

LEMMA FreshStays == FreshInv /\ [Next]_vars => FreshInv'
<1>1. CASE UNCHANGED vars
  BY <1>1 DEF FreshInv, TypeOK, Fresh, Wanted, Configured, vars, lists, history
<1>2. FreshInv /\ Next => FreshInv'
  BY PeopleKeepFresh, RefreshKeepsFresh, ResolveKeepsFresh, ChatKeepsFresh DEF Next
<1>. QED  BY <1>1, <1>2

\* However the steps of the settings, the list and the requests interleave,
\* the resolution that nobody waits behind works for the settings as they are.
THEOREM ListStaysFresh == Spec => []FreshInv
BY InitFresh, FreshStays, PTL DEF Spec

\* Every variable of the assistant has its type.
THEOREM AssistantTypes == Spec => []TypeOK
<1>1. FreshInv => TypeOK
  BY DEF FreshInv
<1>. QED  BY <1>1, ListStaysFresh, PTL

\* When nobody waits for the list of models, it is the list of the settings
\* as they are, whatever was changed or moved while it was being made.
THEOREM ListFollowsSettings == Spec => []ModelsFollowSettings
<1>1. FreshInv => ModelsFollowSettings
  <2>1. queue = <<>> => Len(queue) = 0
    OBVIOUS
  <2>. QED  BY <2>1 DEF FreshInv, Fresh, ModelsFollowSettings
<1>. QED  BY <1>1, ListStaysFresh, PTL

----------------------------------------------------------------------------
(* The key of the earlier build. *)

\* Nothing is left that could write the key again.
NothingToMove == secret = None /\ ~Moving
ClearedInv == TypeOK /\ (cleared => NothingToMove /\ settings.apiKey = None)

\* Without a secret, a request does not come to write the key.
LEMMA ChatMovesOn ==
  ASSUME TypeOK, secret = None, NEW r \in Requests,
         \A q \in Requests : chat[q].step # "writing",
         Chat(r) \/ ChatFails(r) \/ \E selected \in BOOLEAN : Ask(r, selected)
  PROVE  \A q \in Requests : chat'[q].step # "writing"
<1>0. chat \in [Requests -> ChatRecords]
  BY DEF TypeOK, ChatRecords
<1>1. ASSUME NEW c \in ChatRecords, NEW step \in ChatSteps, Becomes(r, c, step), step # "writing"
      PROVE  \A q \in Requests : chat'[q].step # "writing"
  BY <1>0, <1>1 DEF Becomes, ChatRecords
<1>2. ASSUME NEW c \in ChatRecords, WithKey(r, c) \/ GetKey(r, c)
      PROVE  \A q \in Requests : chat'[q].step # "writing"
  <2>1. \/ \E step \in {"sent", "building", "reading"} : Becomes(r, c, step)
        \/ Becomes(r, [c EXCEPT !.selected = FALSE], "choosing")
    BY <1>2 DEF WithKey, GetKey, Choose
  <2>2. [c EXCEPT !.selected = FALSE] \in ChatRecords
    BY DEF ChatRecords
  <2>3. {"sent", "building", "reading", "choosing"} \subseteq ChatSteps
    BY DEF ChatSteps, KeySteps
  <2>. QED  BY <1>1, <2>1, <2>2, <2>3
<1>3. chat[r] \in ChatRecords /\ [chat[r] EXCEPT !.sending = TRUE] \in ChatRecords
  BY <1>0 DEF ChatRecords
<1>4. {"notConfigured", "noModels", "building", "gone", "answered", "failed", "disabled"} \subseteq ChatSteps
  BY DEF ChatSteps, Outcomes
<1>5. CASE ChatReads(r)
  BY <1>1, <1>3, <1>4, <1>5 DEF ChatReads
<1>6. CASE ChatDeletes(r)
  BY <1>2, <1>3, <1>6 DEF ChatDeletes
<1>7. CASE TakeModel(r) \/ Answer(r) \/ ChatFails(r)
  <2>1. \E step \in {"noModels", "building", "answered", "failed"} : Becomes(r, chat[r], step)
    BY <1>7 DEF TakeModel, Answer, ChatFails
  <2>. QED  BY <1>1, <1>3, <1>4, <2>1
<1>8. CASE Send(r)
  <2>1. Becomes(r, chat[r], "gone") \/ GetKey(r, [chat[r] EXCEPT !.sending = TRUE])
    BY <1>8 DEF Send
  <2>. QED  BY <1>1, <1>2, <1>3, <1>4, <2>1
<1>9. ASSUME NEW selected \in BOOLEAN, Ask(r, selected)
      PROVE  \A q \in Requests : chat'[q].step # "writing"
  <2>. DEFINE c == [step |-> "idle", selected |-> selected, sending |-> FALSE]
  <2>1. c \in ChatRecords
    BY DEF ChatRecords, ChatSteps
  <2>2. GetKey(r, c) \/ Becomes(r, c, "disabled")
    BY <1>9 DEF Ask
  <2>. QED  BY <1>1, <1>2, <1>4, <2>1, <2>2
<1>10. ~ChatWrites(r)
  BY DEF ChatWrites
<1>. QED  BY <1>5, <1>6, <1>7, <1>8, <1>9, <1>10 DEF Chat

\* Nobody starts to write the key once the secret is gone, so that only
\* people change it.
LEMMA OnlyPeopleChangeKey ==
  ASSUME ClearedInv, cleared,
         \/ Refresh \/ RefreshFails \/ Resolve \/ ResolveFails
         \/ \E r \in Requests : Chat(r) \/ ChatFails(r)
         \/ \E r \in Requests, selected \in BOOLEAN : Ask(r, selected)
  PROVE  NothingToMove' /\ settings' = settings /\ cleared' = cleared
<1>. USE DEF ClearedInv
<1>0. /\ secret = None /\ refreshing["writing"] = 0 /\ resolver.step # "writing"
      /\ \A r \in Requests : chat[r].step # "writing"
      /\ refreshing \in [KeySteps -> Nat]
  BY DEF NothingToMove, Moving, TypeOK, KeySteps
<1>1. CASE Refresh \/ RefreshFails
  <2>0. RefreshReads \/ RefreshDeletes \/ RefreshFails
    BY <1>0, <1>1 DEF Refresh, RefreshWrites
  <2>1. settings' = settings /\ cleared' = cleared /\ chat' = chat /\ resolver' = resolver
        /\ secret' = None
    BY <1>0, <2>0 DEF RefreshReads, RefreshDeletes, RefreshFails, DeleteSecret, lists, history
  <2>2. refreshing'["writing"] = 0
    BY <1>0, <2>0 DEF RefreshReads, RefreshDeletes, RefreshFails, Left, KeySteps
  <2>. QED  BY <1>0, <2>1, <2>2 DEF NothingToMove, Moving
<1>2. CASE Resolve \/ ResolveFails
  <2>1. settings' = settings /\ cleared' = cleared /\ chat' = chat
        /\ secret' = None /\ refreshing' = refreshing
    BY <1>0, <1>2 DEF Resolve, BeginResolve, ResolveReads, ResolveWrites, ResolveDeletes,
                      FinishResolve, ResolveFails, DeleteSecret, history, At, Fail
  <2>2. resolver'.step # "writing"
    BY <1>0, <1>2 DEF Resolve, BeginResolve, ResolveReads, ResolveWrites, ResolveDeletes,
                      FinishResolve, ResolveFails, Resolved, Resolving, Listing,
                      IdleResolver, At
  <2>. QED  BY <1>0, <2>1, <2>2 DEF NothingToMove, Moving
<1>3. ASSUME NEW r \in Requests, Chat(r) \/ ChatFails(r) \/ \E selected \in BOOLEAN : Ask(r, selected)
      PROVE  NothingToMove' /\ settings' = settings /\ cleared' = cleared
  <2>1. settings' = settings /\ cleared' = cleared /\ resolver' = resolver
        /\ secret' = None /\ refreshing' = refreshing
    BY <1>0, <1>3 DEF Chat, ChatReads, ChatWrites, ChatDeletes, TakeModel, Send, Answer,
                      ChatFails, Ask, DeleteSecret, lists, history, Fail
  <2>2. \A q \in Requests : chat'[q].step # "writing"
    BY <1>0, <1>3, ChatMovesOn
  <2>. QED  BY <1>0, <2>1, <2>2 DEF NothingToMove, Moving
<1>. QED  BY <1>1, <1>2, <1>3

\* Clearing the key with nothing to move leaves nothing to move.
LEMMA EditKeyClears ==
  ASSUME TypeOK, NEW key \in Keys \cup {None}, EditKey(key), cleared'
  PROVE  NothingToMove' /\ settings'.apiKey = None
<1>1. key = None /\ secret' = None /\ ~Moving /\ settings'.apiKey = None
  BY DEF EditKey, TypeOK, Settings
<1>2. resolver' = resolver /\ chat' = chat /\ refreshing'["writing"] = refreshing["writing"]
  BY DEF EditKey, Announce, lists, TypeOK, KeySteps
<1>. QED  BY <1>1, <1>2 DEF NothingToMove, Moving

\* Other edits do not touch the key.
LEMMA OtherEditsKeep ==
  ASSUME ClearedInv, cleared',
         OpenPicker \/ \E enabled \in BOOLEAN, baseUrl \in Urls : EditSetting(enabled, baseUrl)
  PROVE  NothingToMove' /\ settings'.apiKey = None
<1>1. cleared /\ secret' = secret /\ resolver' = resolver /\ chat' = chat
  BY DEF OpenPicker, EditSetting, lists
<1>2. refreshing'["writing"] = refreshing["writing"]
  BY DEF OpenPicker, EditSetting, Announce, ClearedInv, TypeOK, KeySteps
<1>3. settings'.apiKey = settings.apiKey
  BY DEF OpenPicker, EditSetting, ClearedInv, TypeOK, Settings
<1>. QED  BY <1>1, <1>2, <1>3 DEF ClearedInv, NothingToMove, Moving

\* What is not done by people keeps a cleared key cleared.
LEMMA OthersKeepCleared ==
  ASSUME ClearedInv, Next /\ ~People, cleared'
  PROVE  NothingToMove' /\ settings'.apiKey = None
<1>1. cleared
  BY DEF Next, Refresh, RefreshReads, RefreshWrites, RefreshDeletes, RefreshFails, Resolve,
         BeginResolve, ResolveReads, ResolveWrites, ResolveDeletes, FinishResolve,
         ResolveFails, Chat, ChatReads, ChatWrites, ChatDeletes, TakeModel, Send, Answer,
         ChatFails, Ask, history
<1>2. \/ Refresh \/ RefreshFails \/ Resolve \/ ResolveFails
      \/ \E r \in Requests : Chat(r) \/ ChatFails(r)
      \/ \E r \in Requests, selected \in BOOLEAN : Ask(r, selected)
  BY DEF Next
<1>. QED  BY <1>1, <1>2, OnlyPeopleChangeKey DEF ClearedInv

\* Until the key of the earlier build is read again, a key that was cleared
\* stays cleared: nothing but people changes the settings.
THEOREM ClearedStays == Spec => []ClearedKeyStaysCleared
<1>1. Init => ClearedInv
  BY InitFresh DEF Init, FreshInv, ClearedInv
<1>2. TypeOK' /\ ClearedInv /\ [Next]_vars => ClearedInv'
  <2>. SUFFICES ASSUME TypeOK', ClearedInv, [Next]_vars
                PROVE  (cleared => NothingToMove /\ settings.apiKey = None)'
    BY DEF ClearedInv
  <2>1. CASE UNCHANGED vars
    BY <2>1 DEF ClearedInv, NothingToMove, Moving, vars, lists, history
  <2>2. ASSUME NEW key \in Keys \cup {None}, EditKey(key)
        PROVE  (cleared => NothingToMove /\ settings.apiKey = None)'
    BY <2>2, EditKeyClears DEF ClearedInv
  <2>3. CASE OpenPicker \/ \E enabled \in BOOLEAN, baseUrl \in Urls : EditSetting(enabled, baseUrl)
    BY <2>3, OtherEditsKeep
  <2>4. CASE Next /\ ~People
    BY <2>4, OthersKeepCleared
  <2>. QED  BY <2>1, <2>2, <2>3, <2>4 DEF Next, People
<1>3. ClearedInv => ClearedKeyStaysCleared
  BY DEF ClearedInv, ClearedKeyStaysCleared
<1>. QED  BY <1>1, <1>2, <1>3, AssistantTypes, PTL DEF Spec

----------------------------------------------------------------------------
(* Requests made with TokenMix configured. *)

\* The list being made, if any, was begun with a key.
Works == resolver.step \in {"idle", "listing"}

\* r's turn comes after the resolution that is running.
Behind(r) == \E i \in DOMAIN queue : i > 1 /\ queue[i] = r
First(r) == queue # <<>> /\ queue[1] = r

\* r gets a list with models: of a resolution to come, of the one that is
\* running for it, or it has got one and no other can take it away.
Served(r) == Behind(r) \/ (Works /\ (First(r) \/ modelCache # None))

\* Where a request is that was made with TokenMix configured, as long as
\* nothing is changed.  A model the user had picked may leave the list.
Attended(r) ==
  steady[r] =>
    /\ Configured(settings)
    /\ chat[r].step \in {"choosing", "building", "sent", "answered", "failed", "gone"}
    /\ chat[r].step = "choosing" => ~chat[r].selected /\ Served(r)
    /\ ~chat[r].selected =>
         /\ chat[r].step # "gone"
         /\ chat[r].step = "building" => Works /\ modelCache # None

\* Callers join behind those who wait.
Grown == /\ queue' \in Seq(Waiters) /\ Len(queue') >= Len(queue)
         /\ \A i \in 1..Len(queue) : queue'[i] = queue[i]

LEMMA JoinedGrows ==
  ASSUME TypeOK, NEW s \in Seq(Waiters), queue' = queue \o s
  PROVE  Grown
BY DEF TypeOK, Waiters, Grown

LEMMA QueueGrows ==
  ASSUME TypeOK, \/ queue' = queue
                 \/ \E w \in Waiters : queue' = Append(queue, w)
                 \/ \E k \in Nat : queue' = queue \o Anonymous(k)
  PROVE  Grown
<1>1. CASE queue' = queue
  BY <1>1 DEF TypeOK, Waiters, Grown
<1>2. ASSUME NEW w \in Waiters, queue' = Append(queue, w)
      PROVE  Grown
  BY <1>2 DEF TypeOK, Waiters, Grown
<1>3. ASSUME NEW k \in Nat, queue' = queue \o Anonymous(k)
      PROVE  Grown
  BY <1>3, AnonymousType, JoinedGrows
<1>. QED  BY <1>1, <1>2, <1>3

\* The migration changes the settings, or leaves all of them alone.
LEMMA WriteKeyKeeps ==
  ASSUME TypeOK, NEW awaiting, WriteKey(awaiting)
  PROVE  Grown /\ (steady' = NobodySteady \/ UNCHANGED <<settings, steady>>)
<1>. DEFINE same == [settings EXCEPT !.apiKey = Legacy] = settings
            n == IF same THEN 1 ELSE 3
            m == IF same THEN 1 ELSE 2
<1>1. n \in Nat /\ m \in Nat
  OBVIOUS
<1>2. Announce([settings EXCEPT !.apiKey = Legacy], awaiting, queue, n, m)
  BY DEF WriteKey
<1>3. steady' = NobodySteady \/ UNCHANGED <<settings, steady>>
  BY DEF WriteKey
<1>. HIDE DEF n, m
<1>. HIDE DEF same
<1>4. \E k \in Nat : queue' = queue \o Anonymous(k)
  <2>1. \E k \in {m, m + n, m + 0} : queue' = queue \o Anonymous(k)
    BY <1>2 DEF Announce
  <2>2. {m, m + n, m + 0} \subseteq Nat
    BY <1>1
  <2>. QED  BY <2>1, <2>2
<1>. QED  BY <1>3, <1>4, QueueGrows

\* Steps that leave a request and the list alone.
LEMMA OthersAttended ==
  ASSUME FreshInv, NEW r \in Requests, Attended(r), Grown, UNCHANGED lists,
         steady'[r] => steady[r] /\ settings' = settings, chat'[r] = chat[r]
  PROVE  Attended(r)'
<1>1. queue \in Seq(Waiters) /\ Len(queue) \in Nat
  BY DEF FreshInv, TypeOK, Waiters
<1>2. Behind(r) => Behind(r)'
  BY <1>1 DEF Behind, Grown
<1>3. First(r) => First(r)'
  BY <1>1 DEF First, Grown
<1>4. Served(r) => Served(r)'
  BY <1>2, <1>3 DEF Served, Works, lists
<1>. QED  BY <1>4 DEF Attended, Works, lists

LEMMA PeopleAttended ==
  ASSUME FreshInv, NEW r \in Requests, Attended(r), People \/ Refresh \/ RefreshFails
  PROVE  Attended(r)'
<1>1. UNCHANGED <<lists, chat>>
  BY DEF People, EditKey, EditSetting, OpenPicker, Refresh, RefreshReads, RefreshWrites,
         RefreshDeletes, RefreshFails
<1>2. CASE steady' = NobodySteady
  BY <1>2 DEF Attended, NobodySteady
<1>3. CASE RefreshWrites
  BY <1>1, <1>2, <1>3, WriteKeyKeeps, OthersAttended DEF RefreshWrites, FreshInv
<1>4. CASE OpenPicker \/ RefreshReads \/ RefreshDeletes \/ RefreshFails
  <2>1. UNCHANGED <<settings, steady>> /\ (queue' = queue \/ queue' = Append(queue, Anyone))
    BY <1>4 DEF OpenPicker, RefreshReads, RefreshDeletes, RefreshFails
  <2>2. Grown
    BY <2>1, QueueGrows DEF FreshInv, Waiters
  <2>. QED  BY <1>1, <2>1, <2>2, OthersAttended
<1>. QED  BY <1>2, <1>3, <1>4 DEF People, EditKey, EditSetting, Refresh

\* The resolution ends, and those behind it move up.
LEMMA ResolvedAttended ==
  ASSUME FreshInv, NEW r \in Requests, Attended(r), NEW models, Resolved(models),
         queue # <<>>, UNCHANGED <<settings, chat, steady>>,
         steady[r] /\ Works => models # None
  PROVE  Attended(r)'
<1>1. /\ queue \in Seq(Waiters) /\ Len(queue) \in Nat /\ Len(queue) >= 1
      /\ queue' = Tail(queue) /\ resolver'.step = "idle" /\ modelCache' = models
  BY DEF FreshInv, TypeOK, Waiters, Resolved, IdleResolver
<1>2. Works'
  BY <1>1 DEF Works
<1>3. ASSUME Behind(r)
      PROVE  Behind(r)' \/ First(r)'
  <2>1. PICK i \in 2..Len(queue) : queue[i] = r
    BY <1>1, <1>3 DEF Behind
  <2>2. i - 1 \in 1..Len(queue') /\ queue'[i - 1] = r
    BY <1>1, <2>1
  <2>3. queue' \in Seq(Waiters)
    BY <1>1
  <2>. QED  BY <2>2, <2>3 DEF Behind, First
<1>4. steady[r] /\ Served(r) => Served(r)'
  BY <1>1, <1>2, <1>3 DEF Served
<1>. QED  BY <1>1, <1>2, <1>4 DEF Attended

LEMMA ResolveAttended ==
  ASSUME FreshInv, NEW r \in Requests, Attended(r), Resolve \/ ResolveFails
  PROVE  Attended(r)'
<1>0. /\ queue # <<>> /\ chat' = chat
      /\ steady[r] => Configured(settings)
      /\ None \notin Listed
  BY NameAssumption DEF Resolve, BeginResolve, ResolveReads, ResolveWrites, ResolveDeletes,
     FinishResolve, ResolveFails, At, Attended, Listed
<1>1. ASSUME UNCHANGED <<settings, queue, modelCache, chat, steady>>, steady[r] /\ Works => Works'
      PROVE  Attended(r)'
  <2>1. steady[r] /\ Served(r) => Served(r)'
    BY <1>1 DEF Served, Behind, First
  <2>. QED  BY <1>1, <2>1 DEF Attended
<1>2. CASE BeginResolve
  <2>0. UNCHANGED <<settings, chat, steady>> /\ resolver.step = "idle"
    BY <1>2 DEF BeginResolve, At
  <2>1. CASE ~settings.enabled
    <3>1. Resolved(None) /\ ~steady[r]
      BY <1>0, <1>2, <2>1 DEF BeginResolve, Configured
    <3>. QED  BY <1>0, <2>0, <3>1, ResolvedAttended
  <2>2. CASE Configured(settings)
    <3>1. resolver' = Listing(settings) /\ UNCHANGED <<modelCache, queue>>
      BY <1>2, <2>2 DEF BeginResolve, Configured
    <3>. QED  BY <1>1, <2>0, <3>1 DEF Works, Listing
  <2>3. CASE settings.enabled /\ ~Configured(settings)
    <3>1. Resolving("reading") /\ ~steady[r]
      BY <1>0, <1>2, <2>3 DEF BeginResolve
    <3>. QED  BY <1>1, <2>0, <3>1 DEF Resolving
  <2>. QED  BY <2>1, <2>2, <2>3
<1>3. CASE ResolveReads
  <2>1. UNCHANGED <<settings, chat, steady>> /\ ~Works
    BY <1>3 DEF ResolveReads, At, Works
  <2>2. CASE Resolved(None)
    BY <1>0, <2>1, <2>2, ResolvedAttended
  <2>3. CASE Resolving("writing")
    BY <1>1, <2>1, <2>3 DEF Resolving
  <2>. QED  BY <1>3, <2>2, <2>3 DEF ResolveReads
<1>4. CASE ResolveWrites
  <2>1. /\ ~Works /\ modelCache' = modelCache /\ WriteKey(refreshing)
        /\ steady[r] /\ Served(r) => Behind(r)
    BY <1>4 DEF ResolveWrites, At, Works, Served
  <2>2. Grown /\ (steady' = NobodySteady \/ UNCHANGED <<settings, steady>>)
    BY <2>1, WriteKeyKeeps DEF FreshInv
  <2>3. Behind(r) => Behind(r)'
    BY <2>2 DEF Behind, Grown, FreshInv, TypeOK
  <2>4. CASE steady' = NobodySteady
    BY <2>4 DEF Attended, NobodySteady
  <2>5. CASE UNCHANGED <<settings, steady>>
    BY <1>0, <2>1, <2>3, <2>5 DEF Attended, Served
  <2>. QED  BY <2>2, <2>4, <2>5
<1>5. CASE ResolveDeletes
  BY <1>1, <1>5 DEF ResolveDeletes, Listing, Works
<1>6. CASE ResolveFails
  <2>1. Resolved(None) /\ ~Works /\ UNCHANGED <<settings, chat, steady>>
    BY <1>6 DEF ResolveFails, At, Works, KeySteps
  <2>. QED  BY <1>0, <2>1, ResolvedAttended
<1>7. CASE FinishResolve
  <2>1. /\ Resolved(resolver.made) /\ UNCHANGED <<settings, chat, steady>>
        /\ resolver.made # None
    BY <1>0, <1>7 DEF FinishResolve, At, FreshInv
  <2>. QED  BY <1>0, <2>1, ResolvedAttended
<1>. QED  BY <1>2, <1>3, <1>4, <1>5, <1>6, <1>7 DEF Resolve

\* Somebody else's request.
LEMMA OtherChats ==
  ASSUME FreshInv, NEW r \in Requests, Attended(r), NEW q \in Requests \ {r},
         Chat(q) \/ ChatFails(q) \/ \E selected \in BOOLEAN : Ask(q, selected)
  PROVE  Attended(r)'
<1>0. chat \in [Requests -> ChatRecords] /\ TypeOK
  BY DEF FreshInv, TypeOK, ChatRecords
<1>1. chat'[r] = chat[r]
  BY <1>0 DEF Chat, ChatReads, ChatWrites, ChatDeletes, TakeModel, Send, Answer, ChatFails, Ask,
     GetKey, WithKey, Choose, Becomes
<1>2. UNCHANGED lists
  BY DEF Chat, ChatReads, ChatWrites, ChatDeletes, TakeModel, Send, Answer, ChatFails, Ask
<1>3. CASE ChatWrites(q)
  <2>1. Grown /\ (steady' = NobodySteady \/ UNCHANGED <<settings, steady>>)
    BY <1>0, <1>3, WriteKeyKeeps DEF ChatWrites
  <2>2. steady'[r] => steady[r] /\ settings' = settings
    BY <2>1 DEF NobodySteady
  <2>. QED  BY <1>1, <1>2, <2>1, <2>2, OthersAttended
<1>4. CASE ~ChatWrites(q)
  <2>1. settings' = settings /\ steady'[r] = steady[r]
    BY <1>0, <1>4 DEF Chat, ChatReads, ChatDeletes, TakeModel, Send, Answer, ChatFails, Ask, TypeOK
  <2>2. queue' = queue \/ queue' = Append(queue, q)
    BY <1>4 DEF Chat, ChatReads, ChatDeletes, TakeModel, Send, Answer, ChatFails, Ask,
       GetKey, WithKey, Choose
  <2>3. Grown
    BY <1>0, <2>2, QueueGrows DEF Waiters
  <2>. QED  BY <1>1, <1>2, <2>1, <2>3, OthersAttended
<1>. QED  BY <1>3, <1>4

\* With a key in the settings, a request that chooses its model takes the one
\* the user picked or joins the queue.
LEMMA ChosenAttended ==
  ASSUME FreshInv, NEW r \in Requests, NEW c \in ChatRecords, ~c.sending, WithKey(r, c),
         UNCHANGED <<settings, lists>>, Configured(settings)
  PROVE  Attended(r)'
<1>0. chat \in [Requests -> ChatRecords] /\ queue \in Seq(Waiters)
  BY DEF FreshInv, TypeOK, ChatRecords, Waiters
<1>1. CASE c.selected /\ modelCache # None /\ Becomes(r, c, "building")
  BY <1>0, <1>1 DEF Becomes, Attended, Configured, ChatRecords
<1>2. CASE Becomes(r, [c EXCEPT !.selected = FALSE], "choosing") /\ queue' = Append(queue, r)
  <2>1. chat'[r].step = "choosing" /\ ~chat'[r].selected
    BY <1>0, <1>2 DEF Becomes, ChatRecords
  <2>2. /\ Len(queue') = Len(queue) + 1 /\ queue'[Len(queue) + 1] = r
        /\ queue' \in Seq(Waiters) /\ Len(queue) \in Nat
    BY <1>0, <1>2 DEF Waiters
  <2>3. Served(r)'
    <3>1. CASE queue = <<>>
      <4>1. Works'
        BY <3>1 DEF FreshInv, Works, lists
      <4>2. First(r)'
        BY <2>2, <3>1 DEF First
      <4>. QED  BY <4>1, <4>2 DEF Served
    <3>2. CASE queue # <<>>
      <4>1. Len(queue) + 1 \in DOMAIN queue' /\ Len(queue) + 1 > 1
        BY <1>0, <2>2, <3>2
      <4>. QED  BY <2>2, <4>1 DEF Behind, Served
    <3>. QED  BY <3>1, <3>2
  <2>. QED  BY <2>1, <2>3 DEF Attended, Configured
<1>. QED  BY <1>1, <1>2 DEF WithKey, Choose

LEMMA AskAttended ==
  ASSUME FreshInv, NEW r \in Requests, NEW selected \in BOOLEAN, Ask(r, selected)
  PROVE  Attended(r)'
<1>. DEFINE c == [step |-> "idle", selected |-> selected, sending |-> FALSE]
<1>0. c \in ChatRecords /\ ~c.sending
  BY DEF ChatRecords, ChatSteps
<1>1. UNCHANGED <<settings, lists>> /\ (steady'[r] => Configured(settings))
  BY DEF Ask, FreshInv, TypeOK
<1>2. Configured(settings) => WithKey(r, c)
  BY DEF Ask, GetKey, Configured
<1>. HIDE DEF c
<1>3. CASE Configured(settings)
  BY <1>0, <1>1, <1>2, <1>3, ChosenAttended
<1>4. CASE ~Configured(settings)
  BY <1>1, <1>4 DEF Attended
<1>. QED  BY <1>3, <1>4

LEMMA ChatAttended ==
  ASSUME FreshInv, NEW r \in Requests, Attended(r), Chat(r) \/ ChatFails(r)
  PROVE  Attended(r)'
<1>0. chat \in [Requests -> ChatRecords] /\ chat[r] \in ChatRecords
  BY DEF FreshInv, TypeOK, ChatRecords
<1>1. ASSUME NEW c \in ChatRecords, NEW step \in ChatSteps, Becomes(r, c, step)
      PROVE  /\ chat'[r].step = step /\ chat'[r].selected = c.selected
             /\ chat'[r].sending = c.sending
  BY <1>0, <1>1 DEF Becomes, ChatRecords
<1>2. CASE ~steady'[r]
  BY <1>2 DEF Attended
<1>. SUFFICES ASSUME steady'[r] PROVE Attended(r)'
  BY <1>2
<1>3. ASSUME UNCHANGED steady
      PROVE  /\ Configured(settings)
             /\ chat[r].step \in {"choosing", "building", "sent", "answered", "failed", "gone"}
  BY <1>3 DEF Attended
<1>4. CASE TakeModel(r)
  <2>1. UNCHANGED <<settings, queue, lists, steady>> /\ chat[r].step = "choosing"
    BY <1>4 DEF TakeModel
  <2>2. ~Behind(r) /\ ~First(r)
    <3>1. queue # <<>> => 1 \in DOMAIN queue
      BY DEF FreshInv, TypeOK
    <3>. QED  BY <1>4, <3>1 DEF TakeModel, Behind, First
  <2>3. Works /\ modelCache # None
    BY <2>1, <2>2 DEF Attended, Served
  <2>4. Becomes(r, chat[r], "building")
    BY <1>4, <2>3 DEF TakeModel
  <2>5. chat'[r].step = "building"
    BY <1>0, <1>1, <2>4 DEF ChatSteps
  <2>. QED  BY <1>3, <2>1, <2>3, <2>5 DEF Attended, Configured, Works, lists
<1>5. CASE Send(r)
  <2>1. UNCHANGED <<settings, lists, steady>> /\ chat[r].step = "building"
    BY <1>5 DEF Send
  <2>2. CASE modelCache = None
    <3>1. chat'[r].step = "gone" /\ chat'[r].selected
      <4>1. Becomes(r, chat[r], "gone") /\ "gone" \in ChatSteps
        BY <1>5, <2>2 DEF Send, ChatSteps, Outcomes
      <4>2. chat[r].selected
        BY <1>0, <2>1, <2>2 DEF Attended
      <4>. QED  BY <1>0, <1>1, <4>1, <4>2
    <3>. QED  BY <1>3, <2>1, <3>1 DEF Attended, Configured
  <2>3. CASE modelCache # None
    <3>1. [chat[r] EXCEPT !.sending = TRUE] \in ChatRecords
      BY <1>0 DEF ChatRecords
    <3>2. Becomes(r, [chat[r] EXCEPT !.sending = TRUE], "sent")
      BY <1>0, <1>3, <1>5, <2>1, <2>3 DEF Send, GetKey, WithKey, Configured, ChatRecords
    <3>3. chat'[r].step = "sent"
      BY <1>1, <3>1, <3>2 DEF ChatSteps
    <3>. QED  BY <1>3, <2>1, <3>3 DEF Attended, Configured
  <2>. QED  BY <2>2, <2>3
<1>6. CASE Answer(r)
  <2>1. UNCHANGED <<settings, steady>> /\ chat[r].step = "sent"
    BY <1>6 DEF Answer
  <2>2. PICK outcome \in {"answered", "failed"} : Becomes(r, chat[r], outcome)
    BY <1>6 DEF Answer
  <2>3. chat'[r].step = outcome
    BY <1>0, <1>1, <2>2 DEF ChatSteps, Outcomes
  <2>. QED  BY <1>3, <2>1, <2>3 DEF Attended, Configured
<1>7. ASSUME chat[r].step \in KeySteps
      PROVE  Attended(r)'
  <2>1. ~steady[r]
    BY <1>7 DEF Attended, KeySteps
  <2>2. steady' = NobodySteady \/ UNCHANGED steady
    <3>1. CASE ChatWrites(r)
      BY <3>1, WriteKeyKeeps DEF ChatWrites, FreshInv
    <3>2. CASE ~ChatWrites(r)
      BY <3>2 DEF Chat, ChatReads, ChatDeletes, TakeModel, Send, Answer, ChatFails
    <3>. QED  BY <3>1, <3>2
  <2>. QED  BY <2>1, <2>2 DEF NobodySteady
<1>. QED  BY <1>4, <1>5, <1>6, <1>7
          DEF Chat, ChatReads, ChatWrites, ChatDeletes, ChatFails, KeySteps

\* A request made with TokenMix configured is sent if nothing is changed: the
\* lists that other settings called for, and the failures of their making,
\* are over before its own is made.
THEOREM ConfiguredRequestsSent == Spec => []ConfiguredRequestsAreSent
<1>. DEFINE Inv == FreshInv /\ \A r \in Requests : Attended(r)
<1>1. Init => Inv
  BY InitFresh DEF Init, Attended
<1>2. Inv /\ [Next]_vars => Inv'
  <2>. SUFFICES ASSUME Inv, FreshInv', [Next]_vars, NEW r \in Requests
                PROVE  Attended(r)'
    BY FreshStays
  <2>1. CASE People \/ Refresh \/ RefreshFails
    BY <2>1, PeopleAttended
  <2>2. CASE Resolve \/ ResolveFails
    BY <2>2, ResolveAttended
  <2>3. ASSUME NEW q \in Requests,
               Chat(q) \/ ChatFails(q) \/ \E selected \in BOOLEAN : Ask(q, selected)
        PROVE  Attended(r)'
    BY <2>3, OtherChats, ChatAttended, AskAttended
  <2>4. CASE UNCHANGED vars
    BY <2>4 DEF vars, lists, Attended, Served, Behind, First, Works, Configured
  <2>. QED  BY <2>1, <2>2, <2>3, <2>4 DEF Next
<1>3. Inv => ConfiguredRequestsAreSent
  BY DEF Attended, ConfiguredRequestsAreSent
<1>. QED  BY <1>1, <1>2, <1>3, PTL DEF Spec
=============================================================================

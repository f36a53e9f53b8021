# Verification of the SIMPLE presence engine

The repository holds the legacy presence middleware of Symbian: the SIMPLE
engine (presence subscriptions, publications and instant messages over SIP),
the presence documents, the XDM rules and lists that accompany it, and the
settings, provisioning and device management of both. This directory holds
TLA+ modules of these parts, TLC configurations that check them on small
instances, and proofs checked by TLAPS.

Source files are abbreviated as in this table.

| short | file |
|---|---|
| SC | `src/simpleengine/siputils/src/simplesipconnection.cpp` |
| OB | `src/simpleengine/siputils/src/simplesipconnectionobserver.cpp` |
| RQ | `src/simpleengine/siputils/src/simplerequest.cpp` |
| TI | `src/simpleengine/siputils/src/simplerefreshtimer.cpp` |
| PO | `src/simpleengine/siputils/src/simplesipprofileobserver.cpp` |
| W  | `src/simpleengine/engine/src/simplewatcher.cpp` |
| P  | `src/simpleengine/engine/src/simplepublisher.cpp` |
| ER | `src/simpleengine/engine/src/simpleenginerequest.cpp` |
| CN | `src/simpleengine/engine/src/simpleconnection.cpp` |
| PS | `src/simpleengine/presencesettingsapi/src/pressettingsapi.cpp` |
| XS | `src/XDMEngine/XdmSettingsApi/src/XdmSettingsApi.cpp` |
| RLS | `src/simpleengine/xdmrlspres/src/crlsxdm.cpp` |

## 1. Inventory

### 1.1 The engine

The engine is one thread of active objects. The application owns *clients*
(`CSimpleConnection`, `CSimpleWatcher`, `CSimpleWinfoWatcher`,
`CSimplePublisher`, `CSimpleEngineImHandler`). Each call of a client makes a
`CSimpleEngineRequest`, an active object of the client's, and hands it to the one
`CSimpleSipConnection`, which wraps it in a `CSimpleRequest` of its
`iRequestList`. Events of the SIP stack come in through
`CSimpleSipConnectionObserver`, find the `CSimpleRequest` by transaction or
dialog and call `CSimpleRequest::Complete`, which moves its state machine and
signals the engine request. The engine request's `RunL` calls the client's
`Complete`, and that calls the application's observer.

    application --call--> client --MSimpleEngineRequest--> CSimpleSipConnection --> SIP stack
         ^                  ^                                     |  iRequestList
         |                  | RunL (EPriorityHigh)                v
      callback <--- Complete <--- CSimpleEngineRequest <--- CSimpleRequest <--- events, timers

A handler runs to its end. What interleaves is the *order* in which the active
objects run: calls, SIP events, two timers per request, and the completions,
which have the highest priority.

| component | state | operations | what is hard | what makes it correct |
|---|---|---|---|---|
| watchers and subscriptions (W, RQ, SC, OB, ER) | per watcher `iRequest`, `iResCount`, `iComplete`, `iSubsId`; per request its state, transaction, dialog, timers, counters, type, response method; `iSipState`, `iCurrentNbrSubs`, the list | SubscribeL, SubscribeListL, GetPresenceL, UnsubscribeL, Close; responses, NOTIFYs, refresh failures, timers, network changes; RunL | response and NOTIFY are not ordered; a stop races everything; an old request outlives its watcher's interest by `KDeleteDelay` and shares the watcher's counters with the new one; a suspension leaves requests waiting | one answer per call; told subscribed means subscribed; no wait without a timer; no completion posted twice; ended stays ended; the counter of the limit agrees with what exists |
| watcher info (`simplewinfowatcher.cpp`) | as a watcher, without a list or a fetch | SubscribeWatcherListL, UnsubscribeL, Close | as for watchers; accepted in other states of the connection, and left out of the limit in four places that must agree | as for watchers |
| publications (P, RQ, SC, OB, ER) | per publisher `iRequest`, `iPublished`, `iOpId`, `iETag`; per request also the pending modification and refresh, the document, the ETag | StartPublishL, ContinuePublishL, ModifyPublishL, StopPublishL (with and without ETag), Close; responses, timers, network changes; RunL | a modification overlaps a refresh; the ETag is conditional on the server's; calls that leave after they have changed something; calls from callbacks | one answer per call; told published means kept alive; the document told published is the server's; in use exactly while there is a request |
| refresh and expiry timers (TI, RQ, `simplesettings.cpp`) | `iStartTime`, `iExpires`, running or not; the times asked for, granted and stored | Start, Cancel, RunL, After or At; the waits computed for them | 32-bit seconds, signed and unsigned; waits of zero; long waits by the user's clock; refusals with Retry-After | a wait starts a timer; a publication is refreshed before it ends; an unanswered one is given up |
| registration and connection state (CN, PO, SC) | `iState`, `iSipState`, the profile and connection held | LoginL, ConnectionStatus, the listening request, profile and connection events | the profile and the connection report separately; a request that waits for both | the login is answered once; the application is told every state change |
| instant messages (`simpleengineimhandler.cpp`, SC) | the requests that send, the request that waits for messages | SendMessageL; a MESSAGE that comes in; responses, errors, expiry | a lost connection completes neither; messages that come before the receive request is made again | each send is answered; each message acknowledged is delivered |
| settings (`simplesettings.cpp`) | values read once | getters | conversions | see the timers |

### 1.2 Documents

| component | state | operations | what is hard | what makes it correct |
|---|---|---|---|---|
| presence documents (`xmlutils`) | a tree of nodes with wrappers around them; contents; a message that is composed or parsed | add, list, remove, detach, close elements, ask for a parent; externalize, internalize; contents | who owns which wrapper and node; the room for a message is reserved in one place and filled in another | each node is deleted once; what is written fits and is read back |
| lists (`xdmrlspres/crlsxdm.cpp`) | the document, the current path as names and as pointers, the asynchronous request | service URIs, lists, entries, display names, navigation; update to and from the server, deletion of empty lists, cancellation | the path must survive every edit; the packages must stay last; a deletion runs in passes between which the application edits | path and document agree; the schema holds; each request is answered |
| authorization rules (`cpresencexdm.cpp`, `prescond*.cpp`, `presence*xdm.cpp`) | per rule its conditions, actions and transformations | set, get and delete of identities, exceptions, domains, spheres, validity intervals, actions, permissions | the order of the parts; entries found by scans of siblings; times with an offset | schema order; nobody named twice; "all" stands alone; times mean the same instant |

### 1.3 Settings, provisioning and device management

| component | state | operations | what is hard | what makes it correct |
|---|---|---|---|---|
| presence settings (PS) | rows of the central repository, one key per column; the counter of ids | CreateSetL, UpdateSetL, UpdatePropertyL, RemoveSetL, SettingsSetL, GetAllSetsNamesLC | several processes, no transaction; writes that fail and processes that die in the middle of a row | an id names one set, once; an answer is true |
| XDM settings (XS) | rows keyed by column; names and ids are two lists matched by position | CreateCollectionL, UpdateCollectionL, UpdatePropertyL, RemoveCollectionL, CollectionNamesLC | the two lists must have the same length | names are unique; every name has its id |
| presence and XDM provisioning | the items of a message with their references | visit, validate, save; ids told by the other adapters | the order in which ids and saves come | a saved set has the ids it refers to |
| presence and XDM device management | LUIDs of the nodes, a buffered set | add, update, fetch, delete, list | nodes named before their set has an id; a buffer that others overtake; writes whose errors are dropped | what is answered EOk has happened; what is fetched is what the set holds |
| platform interfaces (`pressrv_plat`) | none | abstract classes | - | their documented promises are the abstract specifications here |
| engine utilities | none | factories, text conversions, logging | - | - |

### 1.4 Hazards

`PROJECT.json` lists, under `hazards`, what is hard to test in this code at the
line where it bites, with the properties that catch it or a note saying why none
does. Section 6 lists what was met and has no run.

## 2. What is modelled

| module | models | extends or instances |
|---|---|---|
| `SubscribeRequest` | one subscription request | - |
| `Subscriptions` | watchers, watcher info, connection, list | `SubscribeRequest`; refines `WatcherContract` |
| `Publications` | one publisher, its request, the server | refines `PublisherContract` |
| `Registration` | login, profile, connection | - |
| `InstantMessages` | messages over the connection | `Registration`, composed with it |
| `Timers` | the arithmetic of both timers | - |
| `PresSettings` | the presence table, call by call of the repository | - |
| `XdmSettings` | both tables, method by method | - |
| `Provisioning`, `DeviceManagement` | plug-ins and adapters over the tables | `XdmSettings` |
| `Config` | all writers of the settings together | `Provisioning`, `DeviceManagement` |
| `XdmDocument` | the asynchronous half of both XDM documents | - |
| `ResourceLists`, `PresenceRules` | lists; rules | `XdmDocument` |
| `Multipart`, `Elements` | messages; wrappers and nodes | - |
| `Docs` | all documents | the four before |
| `MCSubscriptions`, `MCPublications` | instances for TLC | |
| `SubscriptionsProofs`, `PublicationsProofs`, `RegistrationProofs`, `InstantMessagesProofs`, `TimersProofs`, `PresSettingsProofs`, `ConfigProofs`, `DocsProofs` | theorems | |

### 2.1 Subscriptions

`SubscribeRequest` holds one request as a record and the methods of
`CSimpleRequest` and `CSimpleEngineRequest` as functions of that record:
`Complete`, `CompleteSubscription` (RQ `DoCompleteSubscription`),
`CompleteNotification`, `SetReqState`, `DestroyStart`, `Post` (ER `Complete`).
`Subscriptions` holds the list (`rq`, and `ahead` for its order), the connection
(`sip`, `nbrSubs`), the watchers (`w`) and a history of what the callbacks have
told the application (`app`). One action stands for each handler: `Subscribe`,
`Unsubscribe`, `Close` for the calls; `RunL` (`Destroy` or `Deliver`) for
`CSimpleEngineRequest::RunL` and `CSimpleWatcher::Complete`; `ExpiryFires`,
`RefreshFires` for the timers; `Response`, `TransactionFails`, `RefreshFails`,
`NotifyState`, `NotifyTerminated` for the SIP events; `Disconnect`, `Suspend`,
`Activate` for `ConnectionStateChange` with `CompleteRegularRequests` and
`HandlePendings`.

Abstractions: SIP and Symbian error codes are the classes the code tells apart
(`Status`); seconds are gone (a timer runs or not, `long` is a Retry-After above
`KRetryBefore`); documents, addresses and filters are left out. The counters
`errs` and `resps` are capped where the code stops telling their values apart.

Everything around the engine is in the constant `Env`, the set of things that
may happen beyond the ordinary:

| choice | meaning |
|---|---|
| `notifyFirst` | a NOTIFY may overtake the response to its SUBSCRIBE |
| `eagerStop` | UnsubscribeL at any time, not only once told subscribed |
| `stopLeaves` | calls of UnsubscribeL that leave |
| `latePending` | a NOTIFY "pending" may still come to one that is unsubscribing |
| `retryNotify` | the server may end with a reason that asks to try again |
| `preempt` | calls between the posting and the delivery of a completion |
| `sendFails` | the stack may refuse to send |
| `close` | the application closes a watcher |

A watcher of watcher information (kind `Winfo`) is a watcher of its own class:
its request is always refreshed, it is accepted while the connection is
suspended or inactive (`Admits`), the limit does not apply to it and the counter
leaves it out (`Counting`, `WithinLimit`). `CSimpleWinfoWatcher::Complete` and
`UnsubscribeL` are line for line those of `CSimpleWatcher`, so the same
operators (`Answers`, `AsStop`) stand for both.

`WatcherContract` is the abstract promise of `MSimpleWatcher` with
`MSimpleWatcherObserver`: states of use, answers and terminations, no SIP.
`Subscriptions!Contract` is its refinement: `app` is kept, `use` is read off
`CSimpleWatcher::iRequest`.

### 2.2 Publications

A publisher has one request at a time, so `Publications` has one request `req`,
the publisher's fields `pub`, the connection state, the server's document `srv`
and the application `app`. A handler here calls others which may send with
several outcomes; each is an operator from a `World` (all parts) to the set of
Worlds it may end in, and the actions apply them with `Becomes`. The mapping to
the code is by name: `DoCompletePublication`, `HandlePending`, `RefreshPublish`
(SC `DoRefreshPublishL`), `ModifyPublish`, `StopPublish`, `StopPublishScratch`,
`PublisherComplete`.

The server (external) works when the PUBLISH is sent, and the answer arrives
later, by `Response`, or never, by `TransactionFails`. It is RFC 3903's server:
it accepts a PUBLISH with the current ETag, or one without ETag and with a body.
An ETag is `Current`, `Stale` or `None`, as the server would compare it; handing
out a new one makes those handed out before stale, wherever the engine holds
them. `app.dropped` is a history variable: a completion was not passed on.

| choice | meaning |
|---|---|
| `refuse`, `busy` | the server refuses for good, or for the moment (503) |
| `lose` | a PUBLISH or its response is lost |
| `slow` | a timer may fire while a response is on its way |
| `sendFails` | the stack may refuse to send a PUBLISH of the engine's own |
| `modifyLeaves`, `startLeaves` | calls that leave after changing something |
| `overlap` | modifications while a PUBLISH is under way |
| `reenter` | calls from within PublishReqCompleteL |
| `lateStart` | StartPublishL while the connection is suspended |
| `behind` | the request stands behind others in the list that `HandlePendings` walks |

`PublisherContract` is the promise of `MSimplePublisher`, refined by
`Publications!Contract`.

### 2.3 Registration

`Registration` holds the stack as the engine can ask it (`net`: is the profile
registered, what state is the connection in), the pointers `iProfile` and
`iSipConnection` (`prof`), `iSipState` (`sip`), the login request with its timer
and posted completion, the listening request, and the `iState` that
ConnectionStatus returns. `LoginL` covers CN `LoginL` with `RegisterL`,
`RegisterDefaultL`, `RegisterAnyL` and the observer's RegisterDefaultProfileL
and GiveConnectionL. The other actions are the reports: `ProfileRegistered`,
`ProfileDeregistered`, `ProfileUnavailable` and `OtherProfile` of the registry,
`ConnectionChanged` of the connection; each is one `ConnectionStateChange`, in
the order of the code: recognise the state, complete the listening request, give
the connection or complete the logins. `ExpiryFires`, `LoginCompletes` and
`StatusCompletes` are the timer and the two deliveries; which delivery comes
first is left open.

| choice | meaning |
|---|---|
| `enableLeaves` | EnableL leaves, after `iProfile` has been set |
| `connLeaves` | GiveConnectionL leaves with something else than KErrNotReady |
| `others` | the registry reports events of other profiles, which the observer does not tell apart |
| `reinit` | a lost connection goes back to EInit |
| `early` | profile and connection are in any state before the login |

Of the stack it is assumed that a profile becomes registered only over an active
connection, and that a connection reports only changes. Profile and connection
otherwise report in any order and at any time.

What the module on registration does to `sip` is what `Subscriptions` and
`Publications` take as a free choice of the environment (`Disconnect`,
`Suspend`, `Activate`): they allow every order of states, hence also the ones
`Registration` produces.

### 2.4 Instant messages

`InstantMessages` extends `Registration`: each of its steps is one of the
connection, with the messages unchanged, or one of the messages, with the
connection unchanged. `send` holds the request of every unanswered message
(`SendInstantMessageL`, `Answered`, `SendExpires`, `SendCompletes`); `receiving`,
`posted` and `acked` hold the request that waits for messages, its completion,
and the messages answered with 200 that the application has not got
(`DoIncomingRequestL`, `ReceiveCompletes`). The states of the connection do
nothing to a message under way: `CompleteRegularRequests` and `HandlePendings`
leave these kinds of request out. With `burst` in `NetEnv` a second message may
come before the first is handed on.

### 2.5 Timers

`Timers` has one publication or subscription and what is computed for it:
`RefreshWait`, `RetryTime`, `RetryExpiryTime` (RQ), the lifetime from the
repository (`ExpiryApi`), and `Started` for `CSimpleRefreshTimer::Start`, which
waits *after* a number of microseconds or, from `KUseAfterLimit` on, *at* a time of
day. Seconds are words of the machine: `AsTInt` and the `%` of the definitions
are the conversions of the code. Time passes when an event happens: the actions
choose how long that took, no longer than the timers allow. `left` is how long
the server still keeps a publication. A subscription that is refreshed by the stack keeps
`iRefreshTime` at 0 (SetRefreshTime is not called for it, SC:896, SC:958), so its waits
after a refusal are the shortest there are. `ClockSet` is a clock set by the user, which
completes a wait for a time of day at once. Which timers are started and
cancelled among all the other events is in `Subscriptions` and `Publications`,
where a timer runs or does not.

### 2.6 Settings

`PresSettings` is PS one repository call per step: `GetFreshRawInHex` and
`MatchKeys` read one key each time, `ReadCounter`, `CreateCounter` (the first time;
`counted` says that the key exists), `WriteCounter` and `CreateIdKey` make an id,
`CreateKey`/`SetKey`/`GetKey` are one column, `DeleteRow` and `DeleteAgain` the two
attempts to delete, `ListName`, `ListId` and `PurgeRow` what a listing does to a row;
`FindKeys` is FindL, and `Settle` the deletion of a row that failed. The
processes (`Clients`) interleave between the calls; `Env` lets a write fail and a
process die. The eleven columns are two, the name and the rest, which keep the
order in which they are written. `alone` is a history variable: no other
process's call has overlapped this one.

`XdmSettings` is both tables method by method, for the composition: there a
presence set is created, renamed, changed and removed in one step, an XDM
collection by the columns a handler looks at. `Provisioning` holds the items of
one message (`items`), the ids told so far (`heard`) and the operations of both
plug-ins: an item is read and validated, saved, and told the ids of the settings
it refers to, in any order. `DeviceManagement` holds the two adapters: the LUIDs
that the engine keeps for a node, the set buffered between two fetches (`cache`)
and one action for each command and its refusals; `reply` is what the engine was
answered. `Config` composes them, with programs that use the exported interfaces
directly (`Views`), on the same two tables. The scope chosen in the first state
says who is at work.

Two of the actors of a scope are not programs. With `full` the repository takes
nothing more: a Create or a Set fails, each of them or not, and a Delete does not.
The presence settings then delete what they could not write and answer an error
(`CreateSetFails`, `UpdatePresFails`). The XDM settings drop what Create and Set
return (XS:174-184): `UpdateXdmL` writes or does nothing, and is answered EOk either
way; `CreateCollectionL` loses any of its columns (`Losses`), keeps a column that an
earlier failure has left in the row, and gives back the error code as the id when
the id is what it lost (`Failed`), which the plug-in keeps and tells. With `stack`
the name that `CXdmProvItem::SaveL` writes may be any name (`WrittenNames`): `iAppName`
refers to a descriptor that is gone (`xdmprovitem.cpp:472`, `:491`, used at `:182`).
`FetchPres` answers a reference to a collection that the XDM tree does not list with
EOk and an empty object, as the code does. `aged` is a history variable: the set in
the cache was written after it was read.

External: the provisioning and device management engines, and the adapters of
SIP settings.

### 2.7 Lists and rules

`XdmDocument` is the asynchronous half that RLS and `CPresenceXDM` share: one
request at a time (`req`, `status`), the answer of the XDM engine (external), the
handler the application waits for (`owed`), and `CancelUpdate`, which leaves the
request to complete with KErrCancel. `UpdateFromServerLeaves` is a fetch that leaves
after it has reset the contents. `RunLeaves` is a RunL that leaves before the callback,
with RunError behind it: the object is not active any more, the request that
RunError completes is nobody's, and the handler is not called. `broken` marks that
this, or an undefined use of a pointer, has happened since the last request.

`ResourceLists` is the document of RLS as a tree of typed nodes, with the current
path as names (`path`) and as pointers to nodes (`pointers`). Every edit is one
action that does what the method does to the end: taking the packages out and
putting them back behind what was added (`RemovePackageL`), renaming,
deleting, and what becomes of the path. `DeleteEmptyListsL` deletes one list per
run of the active object, and the application may call anything between the runs
and while a document is being fetched. A pointer whose node went with the contents of
the document, or with a list that was deleted, is `Dangling` until the path is set anew.
A method that follows it is undefined: `Stray` notes that (`broken`) and changes nothing
else.

`PresenceRules` holds per rule its children in order and for each part the
sequence of its entries; one action per method of the classes of conditions,
actions and transformations, found by name. Times are minutes with the sign and
the digits they are written with (`FormatToXMLTimeStringL`,
`ParseFromXMLTimeString`), and the application's clock and offset are inputs.

### 2.8 Presence documents

`Multipart` writes and reads a presence document with direct contents. Text is a
length where room is reserved for it (`Reserved`, `Base64`) and a name where it
is compared. A message is a sequence of parts with their types, ids and bodies;
it was written by `DoExternalizeMultiPartL`, or comes from elsewhere.
`Elements` is the wrappers around the nodes of a tree: which wrapper owns its
node, and whose the wrapper is (`holder`): the document's, the application's,
an array's of the wrapper that has listed its children, or the asker's who called
`SimpleParentL`. The wrapper of a parent owns it (`simpleelement.cpp:326`) and may be closed
as any other; `misused` marks that one was closed whose parent was not detached.

`Docs` puts the four together: an object has one or another, and the scope chosen
in the first state says which, so that one run explores all.

## 3. What is checked

| run | module | instance | shows |
|---|---|---|---|
| `SubsSafety` | `MCSubscriptions` | 1 watcher, 1 slot, all kinds, all connection states, all of `Env`, a limit of 1 | types; no wait without a timer (`WaitingIsTimed`); no completion posted over another (`NoOverrun`); ended stays ended (`NeverRevived`) |
| `SubsPromises` | `MCSubscriptions` | 1 watcher, 2 slots, stops at any time, refused sendings, suspensions, with fairness | what the application was told agrees with what lives (`ToldOnIsOn`, `NoOrphan`); its waits are timed (`AppWaitIsTimed`); no watcher is in use for ever (`NeverStuck`); the subscription state follows the NOTIFYs (`SubFollowsNotify`); the counter is never above the requests alive (`CounterBounded`); the refinement of `WatcherContract` with its liveness (`Contract`); every delayed deletion happens (`DeletedInTheEnd`) |
| `PubSafety` | `MCPublications` | everything but calls from callbacks | types, and in use exactly while there is a request (`PublisherSound`); waits are timed; ended stays ended |
| `PubPromises` | `MCPublications` | refusals, losses, late answers, suspensions, leaves, calls from callbacks | `KeptAlive`, `AgreesWithServer` |
| `PubContract` | `MCPublications` | no automatic refresh, with fairness | the refinement of `PublisherContract` with its liveness |
| `RegStates` | `InstantMessages` | every state and report of the connection, two messages, with fairness | profile and connection exist where they are used (`NoNullProfile`); the engine is active exactly when both are (`ReportsUnderstood`); the application's status is true (`StatusFollows`); one login at a time (`OneLogin`); a login with a timer and every accepted message are answered (`LoginAnswered`, `SendAnswered`); what was acknowledged is delivered (`AckedIsDelivered`) |
| `Timers` | `Timers` | times at every limit of the arithmetic, words of 17 bits | nothing waits without a timer (`AlwaysTimed`); what the server does not answer is given up in bounded time (`GivenUpInTime`); a publication is refreshed before it ends (`RefreshedInTime`) |
| `PresSettings` | `PresSettings` | 2 processes, 1 of which creates sets, 2 rows, 2 ids, failing writes, dying processes | an id names one set (`UniqueIds`), once (`NeverReused`); an answer is true (`AnswerHolds`) |
| `Config` | `Config` | provisioning with views, with additions, with reused memory, with a full repository and listings; additions, updates and reads in a full repository; all commands with views | types, unique names, no name without its id while ids can be written (`TablesSound`); saved sets have the ids they refer to, or are gone where a write failed (`RefsResolved`); what is answered to an update has happened, up to the errors that the XDM settings drop, and a fetch answers what the set holds, unless it was written after the adapter read it (`AnswersSound`) |
| `Docs` | `Docs` | one scope for lists, three for rules, one for messages, one for elements, with fairness | the path agrees with the document, or dangles since a fetch or a pass (`PathAgrees`); the shape of lists and of rules after every edit (`ListsSound`, `RulesSound`); messages fit and are read back (`MessagesSound`); each node is deleted once, unless `misused` (`ElementsOwned`); the handler is called in the end, unless `broken` (`HandlerCalled`) |
| `VToldOn`, `PresRace` | `MCSubscriptions`, `PresSettings` | expected violations | section 5 |

`ListsSound`, `RulesSound`, `MessagesSound`, `ElementsOwned`, `TablesSound` and
`PublisherSound` are conjunctions of named parts, each with its comment in the
module it is about; a trace of a violation names the state, and the parts can be
put into the configuration one by one.

**Bounds.**

- Counters of a subscription are capped in the record where the code stops
  distinguishing (`errs`, `resps`, `iResCount`) or bounded by the number of
  requests (`nbrSubs`). Two slots per watcher are one request being deleted and
  its successor. What watchers share is the list's order and the counter; that
  part is proved for any number of them (section 4).
- Two documents of a publisher are one published and one asked for.
- `Registration` has no bound: one login, one profile, one connection. Two
  messages (`Messages`) are one under way while another is sent; `MaxLost = 2`
  is one message owed and one too many.
- `Half` is 2^16 where the code has 2^31, so that every limit of the arithmetic
  (`KRefreshLimit`, the after/at limit, halves, the largest signed and unsigned
  word) is below it and the times chosen lie at and around each of them. The
  proofs are for every `Half` above 2000.
- `NRows = 2` and `MaxIds = 2` give the table a free and a used row, and an id
  that is given out after another; `NRows = 2`, `MaxIds = 2`, `MaxItems = 2` in
  `Config` make two settings of a name, two items of a message and an
  item that refers to another. The scopes of `Config` put together who can disturb whom;
  failing writes are explored with each of the writers, and not with all of them at once.
- `MaxNodes = 6` is enough for a service with its packages, two lists and an
  entry or display name in each; `MaxEntries = 2` for two entries of a part
  of a rule, and `Ids` for two identities.
- `Clock` and `Offsets` have a time after midnight and an offset that crosses it,
  with hours and a half hour.
- `MaxParts = 3` is a root with two contents; `Lengths` has an empty body, one
  byte, and one that needs padding in base64. `MaxElements = 4` and
  `MaxWraps = 4` give a chain of root, parent and child with a sibling, each
  with a wrapper.

**Fairness.** `WF(RunL)`, in `Registration` of `LoginCompletes` and
`StatusCompletes`, in `InstantMessages` of `SendCompletes` and `ReceiveCompletes`,
in `Docs` of `Runs`: the active scheduler runs a signalled active object of the
highest priority. `SF` of the timers: a running timer fires unless it is
cancelled; completions, which go first, only delay it, so it may be disabled and
enabled again many times and weak fairness would promise too little. In `Docs`
also `WF(Engines)`: the XDM engine completes a request, with an error if it gets
no answer. Nothing is assumed of the server, the network or the application.

**What each property needs.** The promises do not hold of every environment, and
the instances leave out exactly the choices that break them; each is either a
finding below or an observation in section 6. `KeptAlive` fails under
`sendFails` with a suspension, `overlap` and `behind`. `AgreesWithServer` fails
under `busy`, `lateStart` and `behind`. `AppWaitIsTimed` of the publications
fails under `reenter`. `ToldOnIsOn` and the watcher's `Contract` fail under
`notifyFirst`; the publisher's `Contract` under `overlap` and with automatic
refresh (a dropped completion). `StatusFollows` leaves out what the application
reads as EIdle and EInactive, `LoginAnswered` the logins that are queued without
a timer, and the second half of `ReportsUnderstood` the engine that has no
connection yet. `AckedIsDelivered` fails under `burst`. `AlwaysTimed` leaves out
grants of 0 and 1 second and of 2^31 and more, and `GivenUpInTime` requests whose
timer a set clock has completed. `UniqueIds` and `NeverReused` need a single
creator, and `AnswerHolds` speaks of calls that none has overlapped. `TablesSound` says
nothing of the names of collections with `stack`, nor of names without an id with `full`;
`RefsResolved` and `AnswersSound` say of `full` what is left. `PathAgrees` leaves out pointers
that dangle, `HandlerCalled` an application that adds lists for ever while its empty ones
are deleted, and both `HandlerCalled` and the half of `ListsSound` about requests what comes
after RunL has left or a pointer that dangles was followed (`broken`). `ElementsOwned`
leaves out what comes after the wrapper of a parent was closed that still has an owner
(`misused`). `NamedOnce` needs callers that do not give an id
twice in one call (`Arrays`), and `RulesSound` methods called on rules that exist.

Every property of a passing run has a mutant in `PROJECT.json`: a plausible slip
in one mapped definition under which TLC finds that property violated. The
definitions whose names end in `Mutant` are these and are used nowhere else.

## 4. What is proved

`SubscriptionsProofs` proves, for any finite set of watchers and of slots, any
limit, any kinds, connection states and environment (`ConstantsAssumption`, all
that is assumed):

| theorem | statement |
|---|---|
| `TypeCorrect` | `Spec => []TypeOK` |
| `RequestsSound` | the inductive invariant below |
| `NoInfiniteWait` | `Spec => []WaitingIsTimed` |
| `NeverSignalledTwice` | `Spec => []NoOverrun` |
| `CounterNeverAhead` | `Spec => []CounterBounded` |
| `EndedNeverRevived` | `Spec => NeverRevived` |
| `TrulyOn` | `Spec => []ToldOnIsOn`, if `Orderly` |
| `NothingOrphaned` | `Spec => []NoOrphan`, if `Orderly` |
| `WaitsAreTimed` | `Spec => []AppWaitIsTimed`, if `Orderly` |
| `NeverLeftInUse` | `Spec => []NeverStuck`, if `Orderly` |
| `ImplementsWatcherContract` | `Spec => Promise!Init /\ [][Promise!Next]_Promise!vars`, if `Orderly` and no watcher is closed |
| `PendingOnlyByNotify` | `Spec => SubFollowsNotify`, if `"notifyFirst" \notin Env` |

`Orderly` leaves four choices of the environment out: a NOTIFY that overtakes the
response to its SUBSCRIBE (`notifyFirst`), a call of UnsubscribeL that leaves
(`stopLeaves`), a late NOTIFY "pending" (`latePending`) and one that asks for a
retry (`retryNotify`). They are the ones that break a promise, as TLC shows with
each alone: `ToldOnIsOn` falls to `notifyFirst`, `stopLeaves` and `retryNotify`,
`NoOrphan` to `stopLeaves`, `AppWaitIsTimed` to `stopLeaves`, `latePending` and
`retryNotify`, `NeverStuck` to `retryNotify`. Everything else the environment may
do is covered: losses, refusals, redirections, suspensions, disconnections,
refused sendings, lost dialogs, deletions under way.

`WaitingIsTimed` and `NoOverrun` are not inductive. That a waiting request has
its timer depends on what the last completion left behind: a request whose
completion is posted may have no timer, and is safe only because nothing else
can reach it before it is delivered, and because delivery either starts its
deletion (with a timer) or leaves it in a state that needs none. `Sound(r)` adds
to `Timed(r)` what keeps an event away from such a request and what a request
that is being deleted still waits for; `AllSound` says it of every live request.
The proof goes method by method: each function of `SubscribeRequest` preserves
the parts it touches (lemmas `...Type`, `...Fields`, `...Sound`), and each action
of `Next` is one of those functions applied to one request (`RequestStep`), or to
all of them (`Disconnect`, `Activate`).

`CounterBounded` speaks of presence subscriptions, the requests that the counter
is about; that a watcher never changes its class (`ClassesKept`) makes it
inductive with `TypeOK`, once it is known what each step does to the set of live
requests: `Subscribe` adds one to both sides, `Close` and `Destroy` take as many
from the counter as from the list, `Deliver` and `Disconnect` only lower the
counter. Its proof is arithmetic over cardinalities (`FiniteSetTheorems`).

`NeverRevived` is an action property, proved from `TypeOK` step by step.

The properties that relate the application to the requests rest on one invariant,
`AllServed`. It says of every watcher that it has at most one request that is not
being deleted (`Current`), that the watcher knows which (`iSubsId`), and that
this request serves it (`Serves`): what the application has been told, the
request and the counters of the watcher agree (`Standing`), the request is one
that may be met (`Regular`), and it is in a phase that ends by itself or by an
event that is awaited (`Phase`: `Starting`, `Begun`, `On`, `Fetching`, `Ceasing`,
`Ended`). The hard part is the end of a subscription, where the watcher counts
answers (`iResCount`) and the request counts responses (`resps`), and a completion
may be posted between the two counts: `Delivered` is the count when what is posted
will have been delivered, and `Ceasing` says that the request is never ahead of it.
The four properties are consequences of `Served`, with the timers of `AllSound`.
The refinement of `WatcherContract` is proved from the same invariant, action by
action; the contract's fairness is not (see below).

`SubFollowsNotify` needs only that a request whose first SUBSCRIBE is not answered
has no subscription state yet (`AllUnheard`), as without `notifyFirst` no NOTIFY
reaches it; `notifyFirst` is the only choice that breaks it.

`PublicationsProofs` proves, for any documents and every `Env`:

| theorem | statement |
|---|---|
| `PublisherAlwaysSound` | `Spec => []PublisherSound` |
| `EndsForGood` | `Spec => EndedStays` |
| `AnswersTimed` | `Spec => []AppWaitIsTimed`, if the application makes no calls from callbacks (`"reenter" \notin Env`) |
| `StaysAlive` | `Spec => []KeptAlive`, without `sendFails`, `overlap` and `behind` |
| `ServerAgrees` | `Spec => []AgreesWithServer`, without `busy`, `lateStart`, `overlap` and `behind` |
| `ImplementsPublisherContract` | `Spec => Promise!Init /\ [][Promise!Next]_Promise!vars`, without automatic refresh, suspended connections, `overlap` and `reenter` |
| `NeverDropped` | `Spec => []NothingDropped`, under the same conditions |
| `KeepsPromiseUntilDropped` | the steps of the contract as long as `~app.dropped`, with automatic refresh and suspensions, without `sendFails`, `modifyLeaves`, `overlap`, `reenter` and `behind` |

Each operator on Worlds has a lemma about the Worlds it may end in: what sending
leaves alone (`PublishKeeps`), that a handler posts a completion unless it is the
answer to a refresh (`Completed`), that a request that has ended is at most asked
to end again (`StaysEnded`). `AppWaitIsTimed` is not inductive: that a response
does not stop the timer without posting depends on the state and the type of the
request, so `Waits` adds, for each thing the application may wait for, the states
and the type in which the request does. A call from a callback breaks this: the
rest of `CSimplePublisher::Complete` overwrites the type of a modification that
the callback has asked for (section 6.2). The steps are then put together by one
relation between Worlds (`Steps`), one lemma per action.

`KeptAlive` follows from `Alive`, which says of a publication how it is while the
application waits for its start (`Starting`), once it has been told (`Started`,
and `Steady` when nothing is posted), and while it waits for a modification
(`Modifying`). Each says what is posted, whether the refresh timer runs, what may
be pending for the network, and which of `iRequest` and the type of the request a
call from a callback may have overwritten: only with this does the delivery of
a completion find the timer running, or post the end. The hypotheses leave out
what breaks it: a send that fails in the engine when the network is back, a
modification while a PUBLISH is under way, a request that HandlePendings does not
reach. `AgreesWithServer` follows from `Agreed`: a request at rest has the ETag and
the server the document (`AtRest`); with a PUBLISH under way the server's are the
ones before or after it, by what is in the transaction (`UnderWay`); what a
completion says of the document is what the server has (`AsTold`).

The safety half of the refinement of `PublisherContract` is proved twice, as no one
setting has all of it. What can go wrong is a completion that comes when the
application awaits none, or another one than it gets. `Bound` says that a
publication that is on has no transaction and that what is posted is its end, that
`iRequest` is the operation the application waits for, and that an answered
modification leaves no transaction behind; and it says that `ResponseMethod` is not
EStatusETag, the mark that a successful refresh leaves and that makes the next
completion disappear (P:339, section 6.2). That mark is why the full contract, with
every refusal, loss, failed send and call that leaves, is for publications without
refresh and a connection that is not suspended, where `CompletionFixed` shows that
no handler sets it: the setting of the run `PubContract`. With refresh and
suspensions `Vowed` gives the contract up to the first completion that is dropped,
and needs `Alive` for it. Each hypothesis is needed for the contract: TLC finds a
counterexample without it. For `NeverDropped` TLC finds none with `overlap`, which
only the invariant rules out. That the answers come is the contract's fairness,
which only TLC checks.

`RegistrationProofs` proves, for every `Env` (`EnvAssumption`):

| theorem | statement |
|---|---|
| `TypeCorrect` | `Spec => []TypeOK` |
| `PointersValid` | `Spec => []NoNullProfile` |
| `StatusIsTrue` | `Spec => []StatusFollows` |
| `LoginsSingle` | `Spec => []OneLogin` |
| `OrderOfReports` | `Spec => ReportsUnderstood` |

The invariant is `TypeOK /\ Held /\ Connected /\ Waits /\ StatusFollows`.
`OneLogin` is not inductive: LoginL looks at `iState` and `iSipState`, not at
the list, and what keeps a second login out is that a login still waiting has
`iState` away from EInactive, unless its completion is posted and the engine is
inactive with a profile held (`Waits`, `Held`). `Connected` is what
`ReportsUnderstood` rests on. Every event of the stack is shown to be one
`ConnectionStateChange` with a few facts about what it reports (`StackChanges`),
so that the case analysis of that handler is made once (`StateChangeHolds`).

`InstantMessagesProofs` proves, for any set of messages:

| theorem | statement |
|---|---|
| `Implements` | `ImSpec => Spec`: the composition implements `Registration`, so the theorems above hold of it (`PointersValidWithMessages` is one) |
| `MessagesTimed` | `ImSpec => []Timed`: an accepted message has a timer, or its answer is posted |
| `MessagesOnce` | `ImSpec => []Once`: no message is completed over a completion |
| `AckedReachesApplication` | `ImSpec => []AckedIsDelivered`, if messages come one at a time |

`AckedIsDelivered` is not inductive; `OneOwed` adds that the receive request
waits exactly while nothing is posted, and that one message is owed otherwise.

`TimersProofs` proves, for words of every width with `Half` above 2000
(`HalfAssumption`) and every set of times:

| theorem | statement |
|---|---|
| `Invariance` | the inductive invariant |
| `TypeCorrect` | `Spec => []TypeOK`: every time stays a word |
| `NothingWaitsForEver` | `Spec => []AlwaysTimed` |
| `EndsInTime` | `Spec => []GivenUpInTime` |
| `RefreshedBeforeEnd` | `Spec => RefreshedInTime` |

Lemmas about the waits (`StartedPositive`, `RefreshWaitType`, ...) say what each
computation returns over the whole range of a word, so that the steps need no
arithmetic of their own.

`PresSettingsProofs` proves, for tables of every size, any number of processes,
failing writes and dying processes:

| theorem | statement |
|---|---|
| `TypeCorrect` | `Spec => []TypeOK` |
| `IdsUnique` | `OneCreator` implies `Spec => []UniqueIds` |
| `IdsNeverReused` | `OneCreator` implies `Spec => NeverReused` |
| `AnswersHold` | `OneCreator` implies `Spec => []AnswerHolds` |

`OneCreator` says that all sets are created by one process; without it the run
`PresRace` violates `UniqueIds`. The invariant `IInv` follows an id on its way
through `CreateUniqueIdL`: what is in the table is not above the counter
(`Given`), what is about to be written to the counter is the next number
(`Bumped`), what is about to be put into a row is not above the counter and in no
row (`Claims`). `NeverReused` follows from a predicate of one id (`Used`) that
every step keeps and under which the id cannot come back. For `AnswerHolds` a
second invariant (`AInv`) says that while an undisturbed call runs all others are
idle (`Alone`), and that its row is the set it is about and the columns before the
place where it is are written, or read, without an error (`Progress`). That the
least row exists (`MinOfRows`) rests on the well-foundedness of the naturals.

`ConfigProofs` proves, for tables and messages of every size, any adapters, names,
ids and commands:

| theorem | statement |
|---|---|
| `Invariance` | the inductive invariant |
| `TypeCorrect` | `Spec => []TypeOK` |
| `TablesAlwaysSound` | `Spec => []TablesSound` |
| `RefsAlwaysResolved` | `Spec => []RefsResolved` |
| `AnswersAlwaysSound` | `Spec => AnswersSound` |

That names stay unique rests on the search for a free name: there is
one number more to try than there are names in use (`NumberLeft`, by cardinality),
so that a least free one exists (`FreeNameIsFree`). That the code
does not index its list of ids out of range needs that a row without an id has no
name either, which holds while ids can be written (`Blank`). References are resolved in whatever order items are saved
and ids told because `Known` ties each item that is saved to the rows and to the
ids it was told, until somebody else edits the collection. `AnswersSound` is an
action property about the cache: what is in it is what the set of its id holds, or the set
was written since (`aged`), and a set that was read is the one that was asked for. All of
it is proved for writes that fail and for names that are read where memory was reused,
with what is left in each case written into the properties.

`DocsProofs` proves, for documents of every size and any names:

| theorem | statement |
|---|---|
| `Invariance` | `Spec => []DocsInv`, the inductive invariant of the lists |
| `PathAlwaysAgrees` | `Spec => []PathAgrees` |
| `ListsAlwaysSound` | `Spec => []ListsSound` |
| `RulesAlwaysSound` | `Spec => []RulesSound` |
| `ElementsAlwaysOwned` | `Spec => []ElementsOwned` |
| `MessagesAlwaysSound` | if `"root" \notin Cids`: `Spec => []MessagesSound` |

Lists. The invariant has two parts. `Placed` says that the document is whole and that
the path is led to by its pointers as far as they do not dangle, and that behind the
first one that dangles all do (`Led`). Whole means: a tree in which every node that is
not gone has one parent (`Tree`) and the children each kind may have, named apart,
display names first and packages last (`Shape`). `Waiting` says what a request under way
means: while a document is being fetched there is no root, and every pointer of the path
dangles. `PathAgrees` alone is not inductive: that removing a list leaves the path on its
nodes needs that what is lost is below the list (`UnderClimbs`), that the list is not on
the path itself, and that with one parent each a chain from the root avoids it
(`ChainNotLost`). `SetCurrentpathL` looks a path up name by name, and chooses a node of
each set it reaches; that these form a chain needs that a name leads to one node only.
The recursive functions of the model, such as the nodes below a node, are unfolded once
and for all by `Iterated`; that `Grow` finds a least free node is `LeastOf`. Nothing is
assumed of the application: it may call any method while a fetch is under way and
between the passes of a deletion.

Rules. `RulesInv` says of each rule that its children are in the order of the
schema, each once, and that each part holds entries of its kind (`Fits`). What a
method leaves out of a sequence is picked from it in its order (`Picked`), so that
removing keeps order and names apart; a child that was missing is put in its place
by the number of those before it (`ChildIsMade`). That a time is read as it was
meant is arithmetic: hours and minutes of the distance to universal time are a
quotient and a remainder, and the sign is the one of the distance (`WrittenIsRead`).

Elements. `ElementsOwned` is not inductive: it says neither which wrappers own a
node nor that what hangs below what is without cycles. `TreeInv` adds that an
element hangs below an older one, or is the root or detached; that only the document's
wrapper and those of parents that were asked for own a node; and that a listed wrapper
refers to a younger node than the wrapper that has listed it. So neither nodes nor
wrappers form a cycle: the top of what is destroyed is its oldest (`TopIsLeast`), and
every node has a top above it (`TopAbove`). Closing the document destroys the root with
all that is below it, and closing the wrapper of a detached parent what is below that;
the two trees are apart, so that no node goes twice. `ElementsOwned` says nothing of
nodes once a parent was closed that its own tree still deletes (`misused`).

Messages. `MimeInv` says that a message of the document's own has the root first
and behind it the contents as they were when it was written, and that what was read
was read from that message. The room that is reserved counts, piece by piece, what
is written, in another order, so that two sums over equal terms are compared
(`RoomIsThere`); that base64 fits in half as much again is arithmetic with three
quotients (`Base64Fits`). A content with the id of the root (`"root" \in Cids`)
breaks it (section 6.5), and nothing in the code forbids one.

Only checked by TLC: liveness (`DeletedInTheEnd`, `LoginAnswered`, `SendAnswered`,
`HandlerCalled`) and the fairness of the two contracts, which are beyond the
prover.

## 5. Findings

| run | property | what |
|---|---|---|
| `VToldOn` | `ToldOnIsOn` | a terminating NOTIFY that overtakes the 200 leaves the application told subscribed, with the request deleted (W:368) |
| `PresRace` | `UniqueIds` | two processes that create sets read the same counter of ids, and both sets get the same id (PS:453) |

## 6. Observations without a run of their own

They are in the models, or noted under `hazards`.

### 6.1 Seen with TLC

Each is a property of the project, in an instance that is not among the runs or with
one of its conditions left out.

| property | instance | what TLC shows |
|---|---|---|
| `LimitHonoured` | `SubsPromises` with `Watchers <- TwoWatchers`, `MaxSubs = 1`, two slots | the deletion of one request decreases `iCurrentNbrSubs` twice (SC:1413, SC:1392), so the limit is exceeded |
| `NothingDropped` | `PubPromises` with `Env = {"slow"}` | a refresh that succeeds leaves the response method `EStatusETag` set; the next completion of another kind is swallowed (P:339, RQ:1000-1006) |
| `AgreesWithServer` | `PubPromises` with `Env = {"busy"}` | a 503 to a modification removes the ETag of a publication that is kept (SC:1694) |
| `KeptAlive` | `PubPromises` with `Env = {"overlap"}` | a modification that waited for the PUBLISH under way is sent in the wrong state: its success fails the publication (RQ:940) |
| `AckedIsDelivered` | `RegStates` with `NetEnv = {"burst"}` | a second message that comes before the receive request is made again is answered 200 and lost |
| `AnswersSound` without `aged` | `Config`, commands with views | the buffered set of an adapter answers a fetch after another program, or an update of the adapter itself, has changed the set (`presencedmadapter.cpp:824`) |
| `AnswersSound` without the disjunct of `Full` | `Config`, updates in a full repository | an XDM update is answered EOk, and nothing was written (XS:174-184, `xdmdmadapter.cpp:542`, `:842`) |
| `PathAgrees` without `Dangling` | `Docs`, lists | a document fetched anew, or a pass of a deletion, leaves `iListPointerPath` pointing to nodes that are gone |
| `DeletedOnce` without `misused` | `Docs`, elements | the wrapper that `SimpleParentL` makes owns the parent: closed while the parent is in its tree, it deletes the parent twice |
| `HandlerCalled` without `broken` | `Docs`, lists | RunL leaves, and the handler of the request is never called, whatever RunError completes (RLS:1205, :1218, :1251) |

### 6.2 Subscriptions, publications, connection

- `HandlePendings` stops at the first request that does not wait for the network (SC:2482): what is behind it stays pending until its timer.
- A 202 to the SUBSCRIBE that re-creates a dialog falls into the branch of failures (RQ:786).
- A NOTIFY that is retried silently leaves the response method at NOTIFY (RQ:862).
- The filter of a list is dropped when the network is suspended at SubscribeListL (SC:862-880).
- A late NOTIFY "pending" counts as one of the two answers a stop waits for (RQ:826).
- UnsubscribeL overwrites the type of the request before it knows whether the stop can be sent (W:556); ModifyPublishL does the same (P:189, SC:660-681), and StartPublishL takes an operation id before it leaves with KErrInUse (P:138).
- A 202 after an active NOTIFY sets the subscription state to pending in the first SUBSCRIBE only (RQ:739-742; `msimplewatcher.h:157`).
- `HandlePendings` completes a publication it cannot send with `errx` of a subscription before it, or with KErrNone (SC:2522).
- The first PUBLISH of a publication started while suspended is sent without body (SC:2427).
- The engine request keeps the ETag of its last completion, so a stop without ETag is taken for one with a given ETag (SC:791).
- A stop from scratch that cannot be sent returns with its request on the cleanup stack (SC:822).
- The refresh timer may fire during a modification or a stop and then ends the publication (SC:2274); DoRefreshPublishL may leave without a timer (SC:2310). It runs before the first PUBLISH is answered, too, and ends it (SC:2254).
- A modification made from PublishReqCompleteL is overwritten by the rest of Complete when the completed operation was itself a modification (P:418-424).
- Watcher information is left out of the limit and of the counter in four places that must agree (SC:1844, SC:1389, SC:1410) but takes part in `CompleteRegularRequests` (SC:1461) and `HandlePendings` (SC:2467).
- A registration that ends after the login timed out makes the engine active without completing the listening request (SC:1187): the application reads EIdle, LoginL leaves with KErrNotReady, until the next change of state.
- A login while the state is ESimpleSipIdle waits without a timer (SC:336-343): after a LoginL that left, or a connection initiated again. If the state then goes Suspend, Active, nothing completes it before the next loss.
- A connection that goes down before it was given leaves the engine inactive with a profile held: the registration that follows is not recognised, and LoginL leaves with KErrAlreadyExists (PO:106) for good, although SC:1221 says that registration is done automatically.
- The observer ignores the identity of the profile (PO:260): another profile that is deregistered or updated disconnects everything.
- RegisterDefaultL makes the engine active when the profile is registered, without asking for the state of the connection (SC:2041).
- A second login leaves with KErrNotReady (CN:143) where `msimpleconnection.h:65` says KErrAlreadyExists.

### 6.3 Instant messages and timers

- The refresh time of a message is 0, so its refresh timer never starts. Its expiry timer is not stopped by the completion (RQ:259), but the request is destroyed in RunL.
- A MESSAGE that is not text/plain is not answered, and one without Content-Type dereferences NULL (OB:563). A lost connection does not complete messages (SC:1458): only their timer does.
- A refresh comes 600 seconds before the end (times above 1200), at half the time, or 5 seconds after the end when it is not refreshed. Grants of 1 second, and times of 2^31 and more, start no timer at all (TI:76).
- After a refused refresh the wait is Retry-After, 300 seconds or a quarter of the time, at least 5 seconds; above 300 it is given up.
- A wait for a time of day is by the user's clock, and the abort that a change of the clock causes is treated as a timer that fired.

### 6.4 Settings

- `KXdmSettingsId` is the first column of a row: `RemoveCollectionL` deletes it first, `CreateCollectionL` writes it last. A process that dies in between leaves a name without an id, and `CollectionNamesLC` then indexes its list of ids out of range.
- XDM ids are given out again after their collection is removed. A collection renamed to the name it has finds itself in use and gets a number.
- `CXdmProvItem::SaveL` keeps a negative error as an id and tells it; a SIP id that is told after the save is lost. `iAppName` refers to descriptors that are gone when `SaveL` reads it (`xdmprovitem.cpp:472`, `:491`, `:182`), so that the name it checks may not be the one it writes.
- The XDM settings drop the errors of Set and Create (XS:174-184) and overwrite those of a new collection's columns (XS:52, :62, :254), of which only the id's comes back, in the place of the id. A column that a failed creation has left in a row keeps its value in the next collection that gets the row.
- `SetSipSetIdL` and `SetXDMSetIdL` of a presence item do not look at what UpdatePropertyL answers (`presenceprovitem.cpp:342`, `:355`), which has deleted the set when it could not write.
- `FetchObjectL` of the presence adapter declares a second `settingsId` where it goes by the digits of the node (`presencedmadapter.cpp:376`): the command is accepted with it, and goes on with the LUID. A reference to a collection that is gone is answered EOk, empty (`presencedmadapter.cpp:1150-1202`).
- `SaveL` and `GetSavingInfoL` of both provisioning adapters leave for every item but the last (`aItem < Count - 1`), where an index above the last was meant.
- `CheckDuplicateNameL` of the presence settings ignores `aSetId`: an update that keeps the name finds itself.
- Adding a node of XDM device management answers EOk even when its collection could not be created.

### 6.5 Lists, rules and documents

- `UpdateAllFromServerL` leaves `iListPointerPath` dangling (RLS:178), also when it leaves afterwards; so does a switch into a list that a pass of `DeleteAllEmptyListsL` deletes later. The passes go on as long as the application adds empty lists.
- A RunL that leaves (no memory for the root, RLS:1205, or in a pass of the deletion, RLS:1218) ends with RunError completing a request of an object that is not active (RLS:1251), against the comment at RLS:1248: the handler is not called, and the signal belongs to nobody. Of `CPresenceXDM` neither RunL nor RunError completes anything then (`cpresencexdm.cpp:513`).
- `SimpleParentL` makes a wrapper that owns the parent (`simpleelement.cpp:326`), and `simpleelement.cpp:316`, `simpleelement.h:205` and `simpledocument.h:285-292` say that ownership IS transferred to the caller; `msimpleelement.h:155-163`, which applications see, says that it is NOT. An application that goes by the first and closes the wrapper has the parent deleted twice; one that goes by the second leaks the wrapper. In the repository only the documents call it, to forward it.
- `SwitchOutFromList` at the top removes the service level of the path, where `crlsxdm.h` says that nothing happens. `UpdateDisplayNameL` empties a list.
- A fetch that is cancelled skips `CreateRootIfNeededL`: `AddServiceURIL` then answers KErrNotFound.
- `AddIdentitiesL` with an identity given twice stores it twice, and `DeleteIdentityL` removes one.
- `AddOrReplaceActionL` with an invalid action leaves an empty sub-handling node. On a rule that does not exist it and `GetTransformChildNodeL` dereference NULL, where `presenceactionxdm.h:69` and `presencetransformxdm.h:80` promise KErrNotFound.
- `FormatToXMLTimeStringL` sets the locale of the whole system for a moment (`prescondvalidity.cpp:382`); `ParseFromXMLTimeString` reads character 23 of shorter texts (`prescondvalidity.cpp:324`).
- A content in the format of presence information that has the root's fixed id (`KCID`) replaces the root when a message is read that starts with that id: TLC finds `RoundTrip` violated as soon as `"root"` is among `Cids`.
- `NewInMultiPartL` does not remove the quotes of `aStart`. A type with parameters is not recognised as a presence document. A second match of the start parameter leaks the first root, and a message without one leaves `iRoot` NULL.
- Values of attributes are written without the escapes that contents get. The array of `SimpleElementsL` dangles after an ancestor is listed anew or one of its elements is removed.

## 7. What is not modelled, and the plan

Not modelled: the local mode of the watcher; an operation id that wraps; a client
destroyed from within its own callback, and other undefined behaviour (a null
dialog in `GetdDialogRequest`, RQ:206, a name without id in
`CollectionNamesLC`); the service URI that a fetch negotiates; the text of XML,
SIP headers and addresses; the other properties of a set, which are copied from
one place to another; logging, factories, text conversions, resource files and
build files. `PROJECT.json` gives the status of each component with its reason.

The branch that skips a part with neither headers nor a body when a message is composed
(`simpledocument.cpp:545-552`) is left out: every part that :676-713 appends has
headers, so no run of the code takes it.

Partial abstractions that a larger model could remove:

- XDM settings are modelled method by method; the interleaving of repository calls
  is modelled for presence settings, whose failures are the same.
- The timers' arithmetic and the choice of which timer runs are in two modules.
- `Docs` explores one document at a time; documents share no state in the code.

Plan, in order:

1. XDM settings call by call of the repository.
2. The local mode of the watcher, over the same record of a request.

# EcomAssistant: TLA+ models, checks and proofs

EcomAssistant answers the WhatsApp customers of online shops. A customer
message reaches the OpenWA bridge, is posted to back as a webhook, is queued, is
answered by an agent that may search products and create orders, and is sent
back through the bridge, unless a human has taken the Conversation over. This
directory holds the TLA+ models of that path, the TLC runs that check them on
small instances, and TLAPS proofs of the promises that matter most. The words
Turn, Draft, Flow, Conversation and Takeover are those of `src/CONTEXT.md`.

## 1. Inventory

### Components

| Component | State | Operations | Correct when | Module |
|---|---|---|---|---|
| **Agent: ProcessMessage, TurnGuard** (`ecom_agent/server.py`, `turn_guard.py`, `db.py`) | handler threads of one or more processes, one Postgres session lock per Conversation, saved result per message | look the message up, greet, take the lock, load or run the Turn, save, answer | one Turn at a time per Conversation; one result per message, whatever is retried | TurnOnce, TurnGuard |
| **Agent: graph, Flows, Draft** (`graph.py`, `routing.py`, `drafts.py`, `flows.py`, `nodes/`) | Conversation notes (flows, one Draft per flow, shared address, shown products), the state of the running Turn | one node per step: hydrate, gate, check, query, flow, extract, call, escalate, reply, persist | an order is made only from what the customer gave and back showed, once, and a stuck Draft reaches a human | DraftTurn |
| **Agent: tool client, LLM access, prompts, evals** | none that outlives a call | gRPC tool call, structured output with fallback | errors reach the graph as data | in DraftTurn |
| **back: webhook** (`whatsapp.controller.ts`, `conversation.service.ts`) | message rows (unique WhatsApp id), requests in progress | duplicate check, store, describe media, queue | one row and one job per message; nothing stored is forgotten | MessagePipeline |
| **back: queue, relay worker, bridge, reply** (`message.queue.ts`, `relay.worker.ts`, `agentBridgeCore.ts`, `reply.service.ts`) | BullMQ jobs with attempts and stalls, five workers, reply rows | take the job, ask the agent, check Takeover, store, send, escalate | every message is answered once or reaches a human | MessagePipeline |
| **back: createOrder, order confirmation** (`createOrderOnce.ts`, `registry.ts`, `order.queue.ts`, `order.worker.ts`) | order rows with the message id as key, current order, a job per order | find, check, insert, find the winner, queue and send the confirmation | one message makes at most one order, and that order is followed up once | CreateOrderOnce |
| **back: tool server, order tools, escalations, ingestion** (`tool.server.ts`, `registry.ts`, `escalations.service.ts`, `orders.service.ts`) | order, Conversation and customer rows | confirm, cancel, modify, escalate, resolve, hold, ingest | what the customer pays fits what he gets; the merchant hears of a Takeover; the state is the order's | OrderDesk |
| **back: shop orders, delivery, notifications, merchant messages** (`ShopifyConnection.ts`, `delivery.service.ts`, `merchantMessage.service.ts`, `whatsapp.controller.ts`) | order rows, parcels, the transcript, the session row | upsert, ship, carrier event, notify, reply, tell own sends from the merchant's | a customer is told of an order once; each sent text has one entry | StoreOrders |
| **OpenWA: session service, whatsapp-web.js adapter** (`session.service.ts`, `whatsapp-web-js.adapter.ts`) | the map of live engines, stop marks, reservations, reconnect states, the client of each engine | start, stop, forceKill, delete, reconnect, the callbacks of an engine | a stop is the last word, a drop is followed up, late callbacks change nothing | SessionLifecycle |
| **OpenWA: Baileys adapter, message store, limiter** (`baileys.adapter.ts`, `baileys-message-store.service.ts`, `concurrency-limiter.ts`) | sockets and their listeners, backoff timer, slots, stored rows | connect, close, disconnect, logout, send, receive, evict | a stop is final, no lost slot, the newest rows kept | BaileysAdapter |
| **OpenWA: messages and webhooks** (`session.service.ts`, `message.service.ts`, `webhook.service.ts`, `webhook.processor.ts`) | message rows, receipts and reactions under way, delivery jobs | receive, import history, send, acknowledge, revoke, react, dispatch, deliver | announced once, receipts not lost, a status only advances | BridgeMessages |
| **OpenWA: bulk messages** (`bulk-message.service.ts`) | the batch row, the loop's copy of it, the cancel flag | create, process, cancel, recover at boot | the counters add up, a heard cancel stands, no batch hangs | BulkBatch |
| **OpenWA: plugins and hooks** (`plugin-loader.service.ts`, `plugin-worker-host.ts`, `hook-manager.service.ts`, `plugins.service.ts`) | loaded plugins, workers, hooks, registry file, package directories | install, enable, disable, update, uninstall, configure, run a hook chain | no worker is lost, an event passes, an update is all or nothing | PluginHost |
| back: accounts, email, billing, products, customers, agent configuration, fake messages; rest of OpenWA; contracts, front, landing | single rows, files, user interface | | | not modelled, section 6 |

### How they interact

The bridge posts `message.received` to back, possibly more than once. back
stores the row, adds a BullMQ job and answers 200. A relay worker takes the job,
looks at Takeover, and calls the agent's `ProcessMessage`. The agent runs a Turn
under its guard; the Turn calls back's tools over gRPC, with the message id as
metadata, which becomes the idempotency key of `createOrder`. The answer is a
reply or a hand-over. back looks at Takeover again, stores the reply and sends it
through the bridge, or marks the Conversation. The bridge reports every message
of the linked account, own sends included, as `message.sent`. Orders also arrive
from Shopify, by webhook and by sync, and carriers report on parcels. back's
processes share one Postgres and Redis; the bridge has its own database, and its
services call each other in one process.

### What is hard

* Concurrency: webhook requests, relay workers, agent threads of several
  processes, tool calls that outlive their deadline, and the merchant all work on
  the same rows; in the bridge every `await` lets another request in.
* Retries: every hop repeats (webhook redelivery, job attempts, stalled jobs, the
  Turn itself, the tool call), so each stage must recognise what was done.
* Crashes between two writes that belong together: row and job, order and
  confirmation job, tool effect and notes, message and announcement.
* Stale reads: Takeover is read, then awaited on; the street is shared by flows
  that keep their own wilaya and commune; a reaction, a batch and a cancel save
  whole rows they read before; an engine that was replaced goes on reporting.
* Teardown that hangs, workers that never answer, and the language model, which
  may answer anything its schema allows.

`PROJECT.json` lists the hazards at their lines with the properties that cover
them, or the reason why none does. Some are behaviours the models have and no
promise of the code forbids: the property next to them is stated without that
case, which a history variable such as `raced`, `overtaken`, `lateReady`, `stale`,
`early` or `late` marks. These, and others of that kind, are reachable in the models,
also where a comment of the code hopes for better:

* An order confirmed or cancelled between the queueing and the send still gets the
  confirmation text (CreateOrderOnce, `SetStatus` before `SendConfirmation`).
* With two open orders to two places, one is sent with the street of the other, or
  with its own old street to the other's place (DraftTurn: an order is `crossed` when
  it collects again after another one changed the shared address;
  `StreetFitsThePlace` leaves those out). `drafts.py` says that a new place drops the
  street; a place the notes already have is not taken for a new one.
* A refused order is sent again just as it was refused: another order moves the
  shared address, repeating the refused order's own address moves it back, and that
  counts as something new; so does a street that so far only the notes had (DraftTurn,
  `FailedDraftWaits`).
* A tool that is given an older order's id, or a notice that makes another order the
  current one, leaves the Conversation's state about one order and `currentOrderId` at
  another (OrderDesk, `aside`), although `tools/__init__.py` says the order tools
  act on the current order.
* A retried `cancelOrder` or `escalate` whose first call failed half-way returns
  early and leaves the state or the notification unwritten; a Conversation once
  resolved is not listed again after a later hand-over (OrderDesk).
* An update that fails after the parcel was created makes a second parcel when
  repeated; carrier events are applied in the order they come, and those of a
  parcel whose number is not stored yet are dropped (StoreOrders).
* A send whose answer names another id than its webhook is stored twice if the webhook
  is looked up before the own row is there (StoreOrders, `early`); the
  second check of `persistMerchantMessage` is made for such ids and needs the row.
* A teardown that takes its full deadline removes whatever engine is in the map by
  then, which may have a running browser; a delete takes the stop mark of a start away
  (SessionLifecycle).
* A stop or delete between the registration of an engine and its launch empties the
  map, and the browser launched afterwards belongs to nobody (`strayed`),
  although the comment beside `stoppingSessions` says the operation destroys any engine
  it just created. After a delete no mark stands, and no property is about it.
* An engine whose `destroy()` hangs can report READY after a late QR code, and the row
  keeps it when the engine is out of the map (`lateReady`):
  only the authenticated event is refused in a teardown.
* A cancel that lands before the loop has read the row is overwritten (BulkBatch).
* A reaction saves the whole row it read, and undoes a receipt; a message that the
  history import stores first, or that a restart cuts between row and announcement, is
  never announced (BridgeMessages: `AnnouncedOnce` bounds it from above only).
* A QR code rendered late sets QR_READY over an open connection; a stop before
  `initialize()` is forgotten by it (BaileysAdapter):
  a stop between the registration of the adapter and its `initialize()` ends in a live
  socket, which the guard of `connectInner` is meant to prevent.
* An uninstall or update during an enable leaves a worker no map knows, and a disable
  that resumes drops the host an overlapping update has just brought up (`raced`). A
  restart in an update leaves its backup, which is loaded at boot; an uninstall
  removes the directory only, so after a further restart `<id>.bak` is loaded
  (PluginHost, `cut`).

## 2. Modules

```
TurnOnce                     what the agent promises back
  ^ implements   ^ used by
TurnGuard        MessagePipeline    DraftTurn        CreateOrderOnce   OrderDesk   StoreOrders
                                    (inside a Turn)

OpenWA:  SessionLifecycle   BaileysAdapter   BridgeMessages   BulkBatch   PluginHost
```

Each component module `M` has an `MCM` that instantiates it for TLC and a
configuration `M.cfg`. The theorems stand in modules of their own (section 4), two
components to a module where one reader wants both; components that share such a
module have no name in common.

* **TurnOnce** is the abstract specification: each message gets one result,
  decided once, and every answer is that result.
* **TurnGuard** is the agent's `ProcessMessage`. `at[t]` is the place of a handler
  thread: `lookup` (get_message), `hold` (waiting for `pg_advisory_lock`), `load`
  (the saved result), `run` (the Turn), `save`, `release` (leaving the `with`
  block). `holder[c]` is the session lock. Faults are a process that dies
  (`Crash`) and a database step that raises (`HoldFails`, `SaveFails`). `DropSpec`
  adds a lock connection that drops under a thread that goes on
  (`ConnectionDrops`). `turnsOf` and `lost` are history variables.
* **CreateOrderOnce** is back's `createOrder` tool with one action per `await`,
  the unique index on the row, and the confirmation job behind it. `told` and
  `leftPending` are history variables.
* **MessagePipeline** is back's path from webhook to reply. It uses the agent
  through `INSTANCE TurnOnce`: `AgentTurn` decides, `AgentAnswers` answers, so what
  TurnGuard is shown to implement is what the pipeline relies on. Each message is
  one job; `rows`, `enqueued`, `replies` and `sent` count. `hit` (a fault cut the
  request between row and job), `wasTaken`, `greeted` and `inFlight` (replies past
  the check when a human took over) are history variables.
* **DraftTurn** is the inside of a Turn: one action per node of the graph, the
  notes with their flows and Drafts, the store's row and the process's own
  checkpoint. What a language model answers is a choice over its schema. `ReadyCall`
  is what is sent: the street of the Draft, or the one of the notes if the Draft has
  none. Where a street was given is history, for the notes (`typedFor`) and for each
  Draft (`streetFor`); `seen` and `crossed` follow the shared address under a Draft.
* **OrderDesk** is everything that changes an order or the Conversation row once
  they exist: the tool server's gate, the read tools' state change, confirm,
  cancel, modify and escalate with one action per statement, `ingestOrder`, a
  carrier's event, the notices that move the current order, and
  the merchant's bulk status, hold and resolve. The tools act on any order of the
  customer: back fills in the current one when the agent gives no id. `conv.about` is
  history: the order the state was last written for. Requests overlap, because a call
  that timed out in the agent still runs. A wilaya is a number that is also its
  delivery cost, 0 when none is configured; a commune is named by its wilaya.
* **StoreOrders** is where shop orders, carrier events and texts to the customer
  meet: `upsertOrders` of webhook and sync, `shipOrder`, the carrier's webhook,
  notifications and replies, and the `message.sent` echo of each send. `sends` is
  what left the linked account, in order, and the id of its webhook; the answer of the
  send names that id or, for the sends in `alien`, another. `rows` is the transcript;
  `of` says which send a row is about, which only the properties use.
* **SessionLifecycle** is one session of the bridge. `live` is `this.engines.get(id)`;
  each engine instance has a browser client that reports on its own, in its teardown
  too, and may hang in it. `strayed` and `lateReady` are history. `op` are the requests
  and the reconnect under way.
* **BaileysAdapter** is the other engine: one adapter, initialized once at any moment,
  before or after a stop (`begun`); sockets, of which `wired` are listened
  to, the backoff timer, the limiter in front of inbound messages, and the
  persisted store with the two statements of its eviction.
* **BridgeMessages** is the message table of the bridge under engine events and
  sends, and the announcement of a message to the webhook, up to the last
  attempt. `chain` is the promise chain that serialises the reactions of a message.
* **BulkBatch** is `bulk-message.service.ts`: `row` in the database, `mem` the copy of
  the loop, `active` the flag of `processingBatches`, `can` the cancels under way, on
  this instance or another.
* **PluginHost** is one sandboxed plugin: `cur` is what the loader's map holds,
  `slot` the worker host in use, `hooks` the registered hooks, `settings` what an
  instance was configured with and `entry` what the registry file holds of it, `dir`
  and `bak` the package on disk and its backup. `kept` (the version of the last install
  or update that succeeded) and `cut` are history. Hosts and instances nothing refers to
  any more are used again, so the sets are as large as can be referred to at once.

A definition marked "Mutant" is never part of a specification; it stands beside
the definition it changes and documents a bug the property would catch.
`PROJECT.json` maps the other definitions to the lines they translate.

### Abstractions

* A reply is one row and one send (the code splits a text into several).
* A customer webhook has a WhatsApp id and a known customer and Conversation.
* A confirmation job keeps its id for ever. BullMQ forgets a completed job once
  1000 others have completed, and an order queued again after that would be
  confirmed again.
* In CreateOrderOnce a status is PENDING or not; commune, product and stock checks
  pass or refuse. A call without idempotency key is left out. In OrderDesk
  `createOrder` is one step, its transaction, and the queueing another.
* In DraftTurn the tools stand for their kinds, names for their `_name_key`, and the
  list of shown products is a set without its cap of ten. The chat history, the
  quarantine of unreadable notes and all texts are left out. A tool call that
  failed in transit is an error like any other.
* The in-process lock of an agent without Postgres is TurnGuard with one `Agent`.
* In the bridge, code between two awaits is one step. Status updates of a session
  reach its row in the order they are issued. A process that is killed between two
  awaits is modelled; one killed inside a synchronous stretch is not.
* A carrier event or a shop status is the status it is mapped to; a text is the
  order and the event it is about.

## 3. Runs

State counts and times are those of a two-core machine.

| Run | Instance | Checks | Shows |
|---|---|---|---|
| `turn_guard` | 3 threads in 2 processes, 2 messages of a Conversation, 2 calls each, 2 faults | `OneTurnPerConversation`, `AnswersAreTheSavedResult`, `NoNeedlessTurn`, `ImplementsTurnOnce`, `LockIsFreed` (fair) | The guard keeps TurnOnce's promise through retries, crashes and failing saves; a Turn is repeated only when a fault ended it; no failure path keeps the lock |
| `turn_guard_drop` | the same under `DropSpec` | `OneTurnPerConversation` **violated** | A dropped lock connection lets a second Turn start beside the first |
| `create_order_once` | 2 keys, 2 parallel calls, 3 calls, 1 fault | `OneOrderPerKey`, `RepeatsReturnTheOrder`, `ToldOrdersAreQueued`, `ConfirmedOncePerWorker`, `CurrentMovesToNewOrders`, `ToldOrdersAreFollowedUp` (fair) | One order per message; repeats return it, repair its missing job, and leave the current order alone; its confirmation comes to an end |
| `message_pipeline` | 2 messages, 2 deliveries, 2 requests, 2 workers, 1 hold, 2 attempts, 1 stall, 1 fault | `OneRowOneJob`, `StoredIsQueued`, `OneReplyPerRun`, `OnlyInFlightReplies`, `HandOverIsCarriedOut` (fair) | Concurrent redelivery is harmless; only a fault between row and job loses a message; only a dead worker repeats a reply; only replies already past the check reach a Conversation a human owns; a decided hand-over is carried out |
| `draft_turn` | 2 flows, 2 communes of a wilaya; 2 Turns of a new Conversation with 1 raising node and 1 restart, or 3 Turns of one that was shown a product; 1.1 M states, 2 min | `NoReadyDraftAtRest`, `StalledDraftIsHandedOver`, `StreetFitsThePlace`, `FailedDraftWaits` | No later message sends a Draft that an earlier Turn left ready; a stalled one goes to a human; the street an order is sent with, the Draft's own or the notes', belongs to its wilaya and commune unless another order changed the shared address in between; a refused order becomes ready again only by a change |
| `order_desk` | 2 orders, 2 parallel requests, 3 in all, 1 act of the merchant, 1 fault; 3.8 M states, 2 min | `TotalFits`, `MerchantIsTold`, `StateFollowsOrder` | Total, quantity and delivery cost fit together after any modifications that do not race; a Takeover is announced whoever asks for it; the Conversation's state is the one of the order it was last written for |
| `store_orders` | 2 shop orders, 2 parallel requests, 3 arrivals, 1 fault; 3.9 M states, 2 min | `ToldOnce`, `OneEntryPerSend` | A repeated or racing upsert does not tell twice; an own send and its echo make one entry in either order, also under two ids once the row is there |
| `session_lifecycle` | 2 parallel operations, 3 requests, 4 engines, 1 reconnect, 1 drop, 1 fault; 0.65 M states | `ReadyMeansLive`, `StopWins`, `DropIsFollowedUp` (fair) | READY is never a leftover of a replaced engine; however start, stop and reconnect overlap, a stop leaves no engine running that kept its place in the map; a hung teardown does not stall the reconnect |
| `baileys_adapter` | 3 messages, 2 slots, 2 stored rows, 2 drops, 1 fault; 2.4 M states, 1 min | `StopIsFinal`, `SlotsKept`, `NewestKept` | No connect survives a stop whose mark stands, the limiter neither loses nor invents slots, the eviction keeps the newest rows |
| `bridge_messages` | 1 message each way, 2 reacting people, 5 events, 2 attempts, 1 fault; 1 M states | `AnnouncedOnce`, `NoAckLost`, `OnlyAdvances` | A re-fired message is announced once, an early receipt is not lost, a stored status does not go back |
| `bulk_batch` | 3 messages, saved after every 2nd, 2 cancels, 2 faults; 0.25 M states | `CountersAddUp`, `HeardCancelWins`, `BatchSettles` (fair) | Loop, cancels and restarts overwrite each other's row without losing a message from the counters; a cancel the loop heard stands; no batch is left PROCESSING |
| `plugin_host` | 2 parallel requests, 4 in all, 2 versions, 1 event, 2 faults; 0.24 M states | `NoWorkerIsLost`, `LoadedIsOnDisk`, `EventsPass` (fair) | Failed and concurrent enables leave no worker behind, an update is all or nothing on disk and in memory, and a wedged plugin holds no event up for good |

Every module also states its type invariant (`TypeOK`, with a prefix where two
components share a proof module). It is what the proofs start
from; the runs spend their properties on the hazards.

The violation is a disagreement between the code and its own documentation;
`PROJECT.json`, "findings", quotes both sides.

### Bounds

Every bound is a constant with `Max` in its name, or the size of a set. Two
messages of one Conversation, two threads beside a third and two processes are
the smallest instance in which a retry meets another message's Turn and a crash
takes one of two rivals. Three calls on two keys let a double insert, a late repeat
and a newer current order happen. Two attempts and one stall let a job be
retried, restarted and given up. Three Turns are enough to start a Draft, fail or
stall it (`MaxStalledTurns` is 2 in this run and 3 in the code) and meet it again. The
run has two starts (`StartInit`): only a new Conversation has no row in the store for a
Turn after an exception or a restart to read, and one that was shown a product has its
three Turns for two orders that cross and the changes of their address. Its places are
two communes of one wilaya: a new wilaya takes the same path as a new commune, without
the exception for a refused order, and the theorem `StreetBelongsToThePlace` holds for
any set of either.
Two requests at a time are enough for every race of OrderDesk, StoreOrders,
SessionLifecycle and PluginHost, which are all between two; a third request in all
makes what the two race about. Four engines let a reconnect replace an engine that
a second start replaces again. Three messages against two rows
and two slots are where eviction and waiting happen. Three messages saved after every second one
leave the batch with an unsaved message in the middle and a saved last one. Sets
whose members are interchangeable are symmetric in runs without liveness and
never in the fair ones. Deadlock checking is off where the bounds let a system
finish.

### Fairness

Weak fairness on the steps of a handler thread (TurnGuard), of a call and of a
confirmation job (CreateOrderOnce), of a webhook request and of a worker, and on
the end of a Turn that was asked for (MessagePipeline); of an awaiting operation
and of the reconnect timer (SessionLifecycle); of the batch loop (BulkBatch); of a
plugin request, the end of a worker that was told to end, and the hook chain
(PluginHost). These are the operating
system's scheduler, Node's event loop and BullMQ's polling, which run what is
ready, and the deadlines the code sets: on model and tool calls, on teardown, on
hooks and on plugin lifecycle calls. Callers, WhatsApp, plugin code, the
merchant, the model's choices and faults are never fair, and no browser is in its
launch, its reports or its teardown: it may hang in `destroy()`, and a plugin in its
hook, for good. One assumption about an engine is made: that it answers the send of a
batch. That send has no deadline of its own, and with one that never returns the batch
of `BatchSettles` would stay PROCESSING until a restart. A job that a dead worker left is
returned to the queue in the crash step itself: BullMQ's stalled check is taken to
happen.

## 4. Proofs

**AgentProofs, the guard** (TurnGuard), for any sets of threads, processes, messages
and Conversations and any bounds: `GuardTypeCorrect` (`GuardTypeOK`), `MutualExclusion`
(`OneTurnPerConversation`), `FirstResult` (`AnswersAreTheSavedResult`), `Refinement`
(`GuardSpec => ImplementsTurnOnce`) and `TurnsOnlyAfterFaults` (`NoNeedlessTurn`).
`GuardSpec` has crashes and failing steps and no dropped lock connections;
`turn_guard_drop` shows that with those the exclusion is lost.

None of them is inductive. `OneTurnPerConversation` does not say why the second
thread is outside, and the first result is only safe because no thread that
runs a Turn can find a row already there. The inductive invariant is
`GuardIInv == GuardTypeOK /\ GuardInv /\ AnswersAreTheSavedResult`, where `GuardInv` says that a
thread past `hold` holds the lock of its Conversation, that a thread in a Turn has
no saved row for its message, and that a thread about to answer has exactly the
saved row. Holding the lock gives the exclusion, and with it no other thread can
write the row meanwhile. In the refinement, `Save` is `Decide`, `Return` is `Answer`,
and every other step stutters. `NoNeedlessTurn` needs one more invariant,
`TurnsAreAccountedFor`: every Turn ever started for a message is saved, running, or
was lost to a fault.

**AgentProofs, the Turn** (DraftTurn), for any flows, products, places, Turns,
exceptions and restarts: `DraftTurnTypes` (`TypeOK`), `ReadyDraftsAreCalled`
(`NoReadyDraftAtRest`), `StalledDraftsLeave` (`StalledDraftIsHandedOver`),
`StreetBelongsToThePlace` (`StreetFitsThePlace`) and the action property
`RefusedDraftsWait` (`FailedDraftWaits`). `DraftInv` says of every state, not only of
one between Turns, that a ready Draft is the active flow's, complete, and about to be
sent (`OnlyTheCalledIsReady`); that no Draft of the notes or of the store's row is past
the limit of stalled Turns, and one at the limit was refused or is being sent
(`DraftsOK`); and that a street was given for the place next to it or before there was
one, the one in the notes (`PlaceOK`) and each Draft's own as long as its order was
not crossed (`HistoryOK`). Each
operation on the notes (close, reopen, collect, show products, start a Draft) has a
lemma that says what it keeps. The attempt to prove the first versions of two
properties showed two corners of the code, which their comments describe: a Draft at
the limit is kept when another order completes its address and back refuses it, and
the re-send of section 1.

**OrderIntakeProofs, createOrder** (CreateOrderOnce), for any number of calls, keys,
rows and faults:
`TypeCorrect`, `AtMostOneOrder` (`OneOrderPerKey`), `SameOrder` (`RepeatsReturnTheOrder`),
`NoForgottenOrder` (`ToldOrdersAreQueued`), `RepeatsKeepTheCurrentOrder`
(`CurrentMovesToNewOrders`) and `ConfirmedOnce` (`ConfirmedOncePerWorker`). The invariant
adds `FoundHasKey` (an order a call is about to queue carries the call's key) and
`SettledIsRemembered` (a row that is not PENDING is in `leftPending`);
`SendsAreAccountedFor` says that a job that has not sent in its present run has sent
at most once per dead worker.

**OrderIntakeProofs, shop orders** (StoreOrders), for any orders, parallel requests,
arrivals and faults: `ShopTypeCorrect` (`ShopTypeOK`), `CustomerIsToldOnce` (`ToldOnce`)
and `TranscriptHasOneEntry` (`OneEntryPerSend`). `ToldInv`: the request that made the row
of an order is the only one that will tell of it, and it has not yet. `EntryInv` is the
argument for the transcript: a row has the id of its webhook or the one the send
answered (`AnswerId`), and only a reply of ours can be without. The row of a reply is
there before its send, so an echo about to write is not a reply's, unless it came after
the window the code looks back over (`late`); the row of a notification and that of its
echo carry the same id, and the unique index lets one in, unless the send is `alien`:
then the second check finds the row, or the echo is `early`. The property leaves `late`
and `early` out (`Exempt`). `RequestsOK` says what a request knows at each place.

**MessagePipelineProofs**, for any number of messages, requests, workers and
faults: `TypeCorrect`, `RowAndJobOnce` (`OneRowOneJob`), `NoMessageForgotten`
(`StoredIsQueued`), `RepliesAreBounded` (`OneReplyPerRun`) and the action property
`TakeoverIsRespected` (`OnlyInFlightReplies`). Two webhook requests of one message
look alike until the unique index lets one through, so `OwnerInv` says that the
request that made the row is the only one that will add the job and has not done so;
`ActiveInv` that a busy worker has the only active run of its job; `ReplyInv` that a
job that can still reply has replied only in runs whose worker died; `FlightInv` that
a reply under way in a Conversation a human owns was under way when he took it.

**OrderDeskProofs**, for any orders, requests, quantities, wilayas and prices:
`TypeCorrect`, `TotalsFit` (`TotalFits`), `TakeoverIsTold` (`MerchantIsTold`) and
`StateIsTheOrders` (`StateFollowsOrder`). `OrderInv` says that the current order and the
orders requests work on exist, and that an order to be made has one request that will
make it: without it a status could be written to a row that is not there. `SeenInv`
says that what `modifyOrder` has read is still what the order has unless the order is
in `raced`; `TotalFits` is inductive only with it. `TellInv`: until the merchant is told
a request that will tell him is past its Takeover. `FollowInv`: while nothing
overlaps, the state fits the order it is `about`, or the one request between its two
writes is the reason it does not, and that order is the current one unless `aside`.

**SessionLifecycleProofs**, for any number of operations, engines, reconnects and
faults: `TypeCorrect`, `ReadyIsReal` (`ReadyMeansLive`) and `StopIsTheLastWord`
(`StopWins`). An engine in teardown may say READY again, so `EngineInv` is about engines
that were never made only, and `OpInv` says that who waits
for a teardown waits for an engine in teardown. `ReadyInv` is the promise of READY for
the one case that is left: what `TornDown` takes out of the map was not READY unless it
was another engine (`overtaken`) or said so in its teardown (`lateReady`). `MapInv` says
that every running engine is in the map, in teardown or in `strayed`; `StopInv` is why
the look at the stop mark after `initialize()` suffices for those in the map: a running
engine in the map of a stopped session is the very engine an operation is launching.

**BridgeMessagesProofs**, for any messages, people, events, attempts and faults:
`AnnouncedAtMostOnce` (`AnnouncedOnce`), `ReceiptsAreKept` (`NoAckLost`) and the action
property `StatusOnlyAdvances` (`OnlyAdvances`). The invariant is stated per message:
`OnceOK` (a message that could still be announced was not, unless storing it failed),
`SendOK` (until the second save nobody finds the row, so it is still PENDING), `ReadOK`
(a reaction has read a row with its id) and `AckOK` (a receipt that was not lost to a
fault waits for an UPDATE or the stored status is at it or past it). A step is proved
for the message it is about; the lemma `Untouched` covers the others.

**BridgeServicesProofs, bulk messages** (BulkBatch), for a batch of any size and any
number of cancels and restarts: `TypeCorrect`, `ProgressIsExact` (`CountersAddUp`) and
`CancelIsFinal` (`HeardCancelWins`). Row, copy of the loop and what a cancel has read are
three versions of the counters; `ProgressInv` ties the copy to the index of the loop,
`CounterInv` says that each version adds up by itself, and `HeardInv` that a heard cancel
has lowered the flag for good.

**BridgeServicesProofs, plugins** (PluginHost), for any number of parallel requests,
hosts, instances, versions, faults and restarts: `PluginTypes` (`PluginTypeOK`),
`NoWorkerIsForgotten` (`NoWorkerIsLost`) and `ManifestIsOnDisk` (`LoadedIsOnDisk`).
`ClaimInv` holds always: one request at most brings a worker up, `enabling` says so, and
a request goes on only once its worker is dead. The rest (`CalmInv`) holds until a
plugin is taken away from an operation at work on it (`raced`) and again after a
restart. The worker that a request brings up or ends is the one in the slot and belongs
to the loaded instance (`UpInSlot`, `EndingInv`, `EnablingInv`). All requests that wait in
a disable wait for the same worker, so its exit resumes all of them (`NoneEnds`); a
failed enable goes on alone (`FailsAlone`), and a roll back finds nothing enabled
(`BackInv`). So a worker that is brought up finds the slot empty or its worker dead
(`SlotInv`), which is why none is lost. `DiskInv` follows the two directories and the
map: between the swap and the end of an update the old version is in the backup and is
still the `kept` one (`HalfWay`), else both directory and map hold the kept version and
there is no backup but one a restart left (`AtRest`).

**BaileysAdapterProofs**, for any messages, slots, limit, reconnects and faults:
`StoppedForGood` (`StopIsFinal`), `LimiterIsExact` (`SlotsKept`) and `NewestSurvive`
(`NewestKept`). The three parts share no state. `SocketInv`: no socket lives but the
adapter's own, a new one is one that was never used, none was made before
`initialize()`, and while the stop mark stands there is none (`Unbegun`). `GateInv`: a
message waits, is
woken or runs, once and in one place, so the slots add up. `StoreInv`: a cutoff under way
spares every message with fewer than `Limit` newer ones, however old the cutoff is.

TLC checked each inductive invariant on the instance of the component's run before it
was proved.

The assumptions are the named `ASSUME`s of the modules: `ConversationOf` and `AgentOf`
are functions, the "none" values are none of the others (and no row, record or tool
name), the sets of messages of BaileysAdapter are finite and disjoint, a retry count,
slot count, limit or batch size is positive, bounds are numbers. They hold of every
configuration of the code, and TLC evaluates them in the runs.

**Only model-checked**: all liveness (`LockIsFreed`, `ToldOrdersAreFollowedUp`,
`HandOverIsCarriedOut`, `DropIsFollowedUp`, `BatchSettles`, `EventsPass`: fairness is out
of the prover's reach); `TypeOK` of BaileysAdapter and of BridgeMessages, whose counters
are limited only by the bounds of the run: their proofs use invariants with types of
their own.

## 5. Plan

1. *Done*: the modules above, and the proofs of section 4: every invariant and action
   property of the passing runs is a theorem.
2. **Orders across a lost answer**: DraftTurn with CreateOrderOnce. The answer of
   `createOrder` is lost, the Draft is reopened, and the customer's next message
   has a new key.
3. **Accounts and pairing**: refresh token rotation and one-time codes of back, and the
   pairing of a session, as modules of their own.

## 6. Not modelled

* Accounts (refresh tokens, one-time codes), Shopify's OAuth and token refresh,
  product sync: calls to an outside service with one row written at the end, apart
  from the path of messages and orders.
* Email, billing, products, customers, agent configuration, fake messages: single
  rows without a protocol.
* OpenWA's API keys, infrastructure and container control, dashboard, templates,
  media, statistics, and the group, chat and contact calls that pass through to the
  engine: input and output without state of their own. In-process plugins and
  the capability calls of a sandboxed one.
* Prompts, texts, evals, the contracts and generated code, the user interfaces
  (front, landing, most of the repository's lines) carry no logic of this system
  that these models could check.

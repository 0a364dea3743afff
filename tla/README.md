# Verification of DeeperSeeker

DeeperSeeker is a gateway: it offers the stateless chat APIs of OpenAI and
Anthropic and answers them from the DeepSeek web service, which is stateful. A
request carries a whole conversation; the gateway finds out which web chat
already holds that conversation, sends only the new turn there, and remembers
where the chat stands for the next request. Everything that is hard about the
program follows from that: two memories (a row in SQLite, a chat on a server that
cannot be listed) must stay consistent across overlapping requests, empty
answers, rate limits, lost clients and restarts.

The answer then has to be taken apart while it arrives: text comes cut anywhere,
thinking and tool calls are marked in it by tags, and a stream can end at any frame.

The repository also holds a rewrite, `v2/`. Its orchestrator solves the first
problem again with other keys and other tables, its grammars and emitters the
second, and its Qwen client brings a third: credentials that only a browser can
harvest, and that the service may refuse at any time.

This directory models all of these in TLA+, checks them with TLC on small instances
and proves with TLAPS, for every instance, what matters most of each: of the gateway
and its streams, of the grammars and emitters, of the orchestrator with its budget,
and of the credentials.

## The system

| Part | Code | State it keeps | Operations |
|---|---|---|---|
| Chat gateway | `app.py:165-497` | `_sig_locks`, the local variables of each suspended handler | `handle_chat`, `_RetryingStream`, `stream_response`, `stream_anthropic_response` |
| Token pool | `functions.py:293-392` | table `tokens` (id, credential, `ACTIVE`/`RATE_LIMITED`) | `get_auth_token`, `add_token`, `get_token`, `delete_token`, `pick_token`, `mark_limited`, `mark_active` |
| Session cache | `functions.py:167-189, 395-438`, `plugin_helper.py:457-563` | table `sessions` (signature, token id, chat, parent, `hist_len`, `created_at`) | `find_session`, `save_session`, `delete_session`, `prune_sessions`, `project_signature`, `next_parent` |
| Prompt building | `plugin_helper.py:38-290, 574-730` | none | `build_prompt`, `compact_history`, `extract_*` |
| Web client | `functions.py:192-290, 800-1071` | cookie file, HTTP session, proof-of-work setup | `create_new_chat`, `send_message`, `upload_file`, `get_cookies` |
| Tool parsing | `functions.py:457-797` | buffer of `StreamToolParser` | `parse_tools`, `feed`, `flush` |
| Stream encoders | `app.py:382-695` | open block, block index, thinking flag, hold-back buffers | the two SSE generators, `_hold_think_tags`, `format_response` |
| Dashboard | `app.py:133-147, 1226-1293` | `SESSIONS`, `_login_fails` | login, logout, add and delete tokens |
| Files API | `app.py:743-805` | none | upload, content |
| v2 grammars | `v2/tools/grammar.py` | buffer, fence or brace state, index of the next call | `transform`, `_scan_text`, `_flush_tool_call`, `parse_final` |
| v2 emitters | `v2/streaming/` | open block and its index, next index, started, finished | `emit`, `close`; two validators read the frames |
| v2 orchestrator | `v2/pipeline/orchestrator.py` | a lock per projection, the local variables of each handler | `handle` |
| v2 store | `v2/store/` | tables `provider_sessions` and `tokens` | `lookup`, `save`, `prune_ttl`; `add`, `pick_available`, `delete` |
| v2 budget | `v2/compaction/budget.py` | none | `plan` with its three tiers |
| v2 Qwen client | `v2/providers/qwen/` | the cached bundle and its time, process-wide | `get_baxia_tokens`, `create_new_chat`, `send_message` |
| v2 rest | `v2/api`, `v2/ir`, `v2/adapters`, other `v2/providers` | settings, registry | routes, conversions, HTTP clients |

How the gateway's parts interact: a handler is a coroutine of one asyncio loop.
Database calls are synchronous, so between two `await`s a handler runs alone; at an
`await` everything another handler, the dashboard or the server does may happen. A
handler waits for the lock of its signature, for a new chat, for its files to be
uploaded and the prompt to be accepted, and for the reply. A stream is produced
after `handle_chat` has returned, by a generator that the web server closes when
the client leaves.

How the streaming parts interact: a grammar is an asynchronous generator. It asks
the provider for an event, runs its scanning loop, and is suspended at every event
it yields; the transport hands the event to the emitter, and writes the bytes the
emitter yields. When the client leaves, the transport calls `close()`.

How the parts of v2 interact: a route parses the request and calls
`Orchestrator.handle` (the streaming route, too, collects its answer first). `handle`
awaits the store, then a token, then the lock of its projection, under which it
looks again and has the provider open a chat; it plans the messages, collects the
answer, and saves the row of the next turn. The Qwen provider asks the process-wide
cache for a bundle before each of its two requests; a miss starts a browser.

What is hard, and what would make it right:

- the cached parent must name a message that exists, although the server offers
  no way to ask (`ParentExists`), and in fact the reply the request received
  (`NextParentIsOwnReply`);
- a chat belongs to one account; row ids stand for accounts across retries,
  rotation and the dashboard (`ChatBoundToOneToken`, `SentByOwner`);
- a signature looks at the opening and a window, so two conversations can look
  alike (`NoForeignChat`);
- the lock dictionary is cleaned up while others wait (`LocksTracked`,
  `EveryRequestAnswered`);
- a fresh chat knows nothing (`FreshChatGetsHistory`);
- and all of it must be invisible to the client (`ImplementsStatelessChat`);
- a block of a stream is opened and closed by different events, and calls, text
  and thinking share one sequence of blocks (`OneBlockOpen`, `FinishedIsClosed`,
  `ValidWhenCallsComeFirst`);
- the two kinds of client must not be told different things about how a stream
  ended (`FrontEndsAgree`, `ChunksInOrder`);
- where the provider cuts its text must not matter (`NothingLost`,
  `NothingInvented`; of the gateway `ThinkingKeptApart`, `CallsAreTheAnswers`), and a
  streamed text must hold the calls it holds as a whole (`PathsAgree`,
  `CallsMatchFullText`);
- a streamed answer must be the one that would have been collected, and the client
  must return it in a form in which the next turn is found (`StreamedIsCollected`,
  `OpenAITurnResumes`, `AnthropicTurnResumes`), and a broken one must not look
  complete (`FailureIsNotAnEnd`, `BlocksWellFormed`);
- v2 counts the parent up without a look at the chat (`SessionParentExists`,
  `OverrunMeansUnanswered`), looks a row up before it knows its token, lets two
  conversations that look alike share one (`OneChatPerConversation`,
  `SentByItsAccount`, `OwnWordsOnly`), and must find the row of the turn before
  (`FollowUpFindsItsChat`, `ModelReadsConversation`); and compaction must not cost the
  question (`FinalUserMessageSent`, `BudgetKept`);
- a browser harvests for everybody or for one, while credentials expire and are
  refused (`OneHarvestServesAll`, `EveryCallerLeaves`, `BundleYoungEnough`,
  `PunishedBundleIsGone`, `RetryIsFresh`).

`PROJECT.json` lists every hazard with its line.

## The modules

| Module | Models |
|---|---|
| `TokenPool` | the `tokens` table as a function from row id to row, one operator per query |
| `SessionCache` | signatures, the `sessions` table as a set of rows, one operator per query |
| `Gateway` | the handlers, `_sig_locks`, the retrying stream, both response paths, the dashboard's token routes, the TTL and the process; DeepSeek's chats as an external part |
| `StatelessChat` | the abstract promise: a reply continues the conversation that was asked |
| `OrderlyGateway` | `Gateway` with clients that never have one turn in flight twice, and the refinement mapping to `StatelessChat` |
| `MCGateway` | symmetry for TLC |
| `GatewayProofs` | the inductive invariant of `Gateway` and its theorems |
| `SinkEvents` | the events between grammar and emitter |
| `SSEValidators` | what a strict reader of each kind of stream makes of the frames |
| `AnthropicEmitter`, `OpenAIEmitter` | the emitters, one operator per handler, from record to record |
| `StreamingEmitters` | both emitters behind every stream of events a grammar can send, and cancellation |
| `ToolGrammars` | the scanners of `DSMLGrammar` and `FreeTextGrammar` over tokens, and `DSMLGrammar.parse_final` |
| `GrammarPipeline` | a provider's chunks through a scanner into the emitters; it refines `StreamingEmitters` |
| `MCGrammar` | the chunks TLC sends |
| `EmitterProofs` | the inductive invariant of `StreamingEmitters` and its theorems |
| `TaggedText` | the gateway's text: `_hold_think_tags`, `StreamToolParser`, `parse_tools` as operators on sequences of marks |
| `GatewayStreams` | one answer from the lines of the web service through `send_message` and both encoders to frames |
| `MCStreams` | the pieces of answers TLC sends |
| `Messages` | what store and budget ask of a conversation |
| `TokenBudget` | `TokenBudget.plan`, one operator per tier |
| `ProjectionStore` | the two tables of v2, one operator per query |
| `Orchestrator` | `handle`, the administrator, the process; DeepSeek's chats as an external part |
| `MCOrchestrator` | the conversations TLC sends |
| `Clock` | the time and the slots of requests |
| `CookieFile` | `get_cookies` of `functions.py`: the file, its lock, the harvests |
| `QwenWire` | the Qwen client: the cache, the harvest in its steps, both requests, the punished retry |
| `Credentials` | both under one clock, with the requests that come for either |
| `MCCredentials` | how long harvested cookies last |
| `SequenceLemmas` | what the proofs need of queues, replaced elements, subsequences and recursive functions |
| `PipelineProofs` | the inductive invariants of `GrammarPipeline`, that it implements `StreamingEmitters`, and what becomes of the text |
| `StreamProofs` | the inductive invariant of `GatewayStreams` and its theorems |
| `OrderlyProofs` | the inductive invariant of `OrderlyGateway`, and that it implements `StatelessChat` |
| `OrchestratorProofs` | what a plan keeps; the inductive invariants of `Orchestrator` and its theorems |
| `CredentialProofs` | the inductive invariants of `Credentials` and its theorems |

### Gateway

Each variable of `Gateway` is one piece of the program's state: `tokens` and
`sessions` are the two tables, `locks` the lock objects (`listed` when `_sig_locks`
still holds them; the queue is the holder and the waiters), `reqs` the local
variables of the handlers, `chats` what the server holds. A handler's `pc` names
where it is suspended:

| `pc` | suspended in | continued by |
|---|---|---|
| `waiting` | `async with create_lock` | `EnterLock` |
| `creating` | `create_new_chat`, lock held | `CreateDone`, `CreateFails` |
| `rotating` | `create_new_chat` of the rotation branch | `RotateDone`, `FailsOutsideTry` |
| `sending` | uploads, and the POST of `send_message` | `PostAnswered`, `PostEmpty`, `PostLimited`, `Breaks`, `FailsOutsideTry`, `Abort` |
| `replying` | the reply streams in | `Finish`, `RetryEmpty`, `Breaks`, `Abort` |
| `recreating` | `create_new_chat` of `_RetryingStream` | `RecreateDone`, `Breaks`, `Abort` |

`Enter` is the segment from the start of `handle_chat` to its first suspension; it
is run by `Arrive` and, in the same step as the failure, by the retry in the
`except` clause. `Released` is leaving `async with` together with the `finally`
clause. `Resume` is everything from the second `get_token` to the POST.

Abstractions. A conversation is a sequence of messages, of which the first stands
for everything the signature always hashes (model, scope, system prompt, opening
message). SHA-256 is injective. Row times are reduced to one flag, older than the
TTL or not. `chats` records for each message what the model has read when it
answers, so that a prompt in the wrong place is visible. The server numbers
messages consecutively and refuses a parent that does not exist or a chat of
another account; these are the assumptions `next_parent` itself makes. Uploads and
the POST share one suspension point. Which waiter asyncio wakes is the head of the
queue. Rows whose `hist_len` is NULL, left by databases older than that column, are
not modelled. Text, usage figures and the layout of answers are left out.

### Streaming

An emitter is a record of its attributes together with the state of the reader of
its frames (`client`); a frame reaches the reader when it is yielded, and the
frames of one event are one step. `StreamingEmitters` feeds both emitters the same
events so that what the two kinds of client see can be compared; a request has one.
`source` is what the grammar has sent so far, and which events may come next is
read off `grammar.py`: a call is sent as start, arguments and end with nothing in
between, `DSMLGrammar` counts its calls (and its fences that are none),
`FreeTextGrammar` does not. `GrammarPipeline` shows that the scanners really are
such sources (property `Spec` of `grammar_pipeline`).

Abstractions. An event after the end, which raises `RuntimeError`, changes
nothing. What a delta says is left out, whether it says anything is kept. Argument
buffers are left out: they are written and never read. Text is a sequence of
tokens (fence mark, language tag, two halves of a call object, prose); a fence mark
is never cut in two. A call object names its tool under a key all parsers look at or
under `"tool"`, at which only a fence in the stream is looked at; of the keys of its
arguments, which differ too, nothing is said. The readers are the validators of `validate.py`, with the
checks its header promises and its code leaves out (marked `+`). `MessageStart` is
sent by the transport, as `V2_DESIGN.md:321` says. A stream has a grammar of its
own, as in the tests. `ProviderToolCall`, which no provider produces, is left out.

### The gateway's streams

`GatewayStreams` has both encoders read one upstream, as `StreamingEmitters` does.
`think_open` is the local variable of `send_message`, `carry` that of
`_hold_think_tags`, `openai` and `anthropic` are the local variables of the two
generators with what their clients have been sent so far, and `saved` is what
`handle_chat`'s binding would store. A step is a line of the web service with all the
chunks it causes. The frames of the Anthropic stream are judged by the same reader as
those of v2 (`SSEValidators`). `format_response` and `parse_tools` over the whole text
are the reference the streamed answer is compared with.

A text is a sequence of marks; a tag is two of them, so that a line can end inside a
tag and what is held back may become any tag or none. White space is left out. A tool
call has the one form the prompt teaches, a tag around a JSON object; a
placeholder is an object `parse_tools` rejects. Several properties have preconditions,
which are what the code really needs: `Orderly` (the model thinks before it speaks
and writes no think tag itself), `Prose` (no markup in the thinking, because
`parse_tools` reads the thinking too), `WellTagged` (call markup is not fenced and not
closed without being opened, because `StreamToolParser` swallows fenced markup that
`parse_tools` keeps; and taking a call out does not put a tag together from what stood
around it, as in `<<tool_call>...</tool_call>tool_call>`, because `clean_text` looks for
tags again in what it has left while the stream has passed the pieces on. The pieces of
the run do not reach that case; the proof found it, and with that piece, around a
placeholder, TLC breaks `OpenAITurnResumes` when the condition is dropped). The
collected reply keeps only the first of several thoughts.

### The orchestrator

`tokens` and `rows` are the two tables (`rows` in the order of `last_used_at`),
`queues` the `asyncio.Lock` of each projection with its waiters, `reqs` the handlers,
`chats` DeepSeek's chats. `Arrive` is the first lookup, `Pick` the token, `Enter` the
lock with the second lookup, `Opened` and `OpenFails` the chat, `PlanRaises` the
budget. `SendNothing`, `Send`, `EmptyTurn`, `SendFails` and `BreaksOff` are what may come
of the message, `Finish` is the save. `Leaves` is the client of the streaming route, which
disconnects: its handler is cancelled where it stands. A handler may be overtaken
between any two. A lookup, which makes up to three queries, is one step.

A message is an atom with a role, a size and the ids of its calls; a projection is the
record the code hashes. The chat and its log are one tree: `read` is the branch of
a message's parent, so that a prompt in the wrong place is visible.

What may come of a message is what the code distinguishes and what it does not. A refusal
raises in `send_message`; the `except` clause of the adapter names a `ProviderError` that
is not imported, and the `NameError` reaches the client without a save. A connection that
breaks behind the POST, or a handler that is cancelled there, leaves the user message in
the chat, with or without its answer, and saves nothing either (`BreaksOff`). An answer
that is FINISHED without a fragment, in contrast, looks like an answer: it is completed,
with an empty text, and saved (`EmptyTurn`; v1 describes such turns at `app.py:178-188`,
`279-283` and `348-351`, and `Gateway` has them too). What DeepSeek does with a parent it
does not know is taken from there: an empty turn, of which it may keep the message or
not. `_clip_text` raises `NameError` too, so `plan` has an outcome "raised".

Requests are for DeepSeek's models, and their handler goes through DeepSeek's adapter;
what the provider changes in a lookup is in `ProjectionStore`. `handle` with the Qwen
adapter is not modelled: there an error event is completed and saved, and the ids that
are counted up are not those of Qwen's messages. Left out as well: usage counters,
`mark_rate_limited` and its like (nothing calls them), and the framing of the answer.

### Credentials

`file` is the cookie file, `queue` the lock, `callers` where each slot is in
`get_cookies`; `cache` and `cacheTime` are the globals of `qwen/cookies.py`, `asks`
where each slot is in `create_new_chat` and `send_message`. A harvest of a bundle is
three steps (page, fallback, result), and between any two another request may harvest,
write, or be challenged. A challenge of a message (`Punished`) empties the cache and
harvests for the second attempt; one of `chats/new` is an error. Of what an attempt is
sent with, the bundle is followed and not the cookies: a fresh bundle without any leaves
those of the challenged one in the session (`qwen/wire.py:434-437`). Slots are shared and
serve one request each. What a bundle says is its number; what the page and the
service answer is nondeterministic.

## What the runs check

Bounds of the gateway are refusals of the environment (DeepSeek hands out
`MaxChats` chats and takes `MaxLog` messages in each), so a bound never blocks a
handler and deadlock is checked everywhere except in `gateway_turns`, whose clients
run out of turns. A stream never deadlocks, because `close()` may always be called.

| Run | Instance | Shows |
|---|---|---|
| `gateway_race` | 2 handlers, 1 conversation, 1 token, 2 attempts; creation failures, rejections, broken, empty and abandoned answers | `TypeOK`, `ParentExists`, `LocksTracked`, `IInv` |
| `gateway_rotation` | 2 handlers, 2 tokens of up to 2 accounts, rejections, empty turns | `ChatBoundToOneToken`, `SentByOwner` |
| `gateway_restart` | 2 openings, window of 1, two turns, restarts, expiry, deleted tokens | `NoForeignChat` |
| `gateway_liveness` | 3 handlers on one signature, fair scheduling | `EveryRequestAnswered` |
| `gateway_turns` | 2 handlers, two turns, 2 token rows of an account, every failure but abandoned and broken streams and empty turns | `NextParentIsOwnReply`, `ImplementsStatelessChat` |
| `grammar_pipeline` | either grammar, 4 of 13 chunks, up to 14 events, cancellation | `TypeOK`, `OneBlockOpen`, `FinishedIsClosed`, `FrontEndsAgree`, `ChunksInOrder`, `ValidWhenCallsComeFirst`, `NothingInvented`, `CallsMatchFullText`, `NothingLost`, `Spec` |
| `gateway_streams` | 4 lines of 10 pieces, thinking or text; failure and lost client at any line | `StreamsTypeOK`, `ThinkingKeptApart`, `BlocksWellFormed`, `FailureIsNotAnEnd`, `CallsAreTheAnswers`, `OpenAITurnResumes`, `StreamedIsCollected` |
| `orchestrator` | 2 handlers, 4 conversations, window of 2, 2 tokens of 2 accounts, 2 chats of 3 messages, every fault; the budget on all conversations of up to 5 messages | `OrchestratorTypeOK`, `OneChatPerConversation`, `SentByItsAccount`, `OverrunMeansUnanswered`, `OwnWordsOnly`, `FinalUserMessageSent`, `BudgetKept` |
| `credentials` | 2 requests, a clock of 2 ticks, bundles that last 1 | `CredentialsTypeOK`, `OneHarvestServesAll`, `BundleYoungEnough`, `PunishedBundleIsGone`, `RetryIsFresh`, `EveryCallerLeaves` |

Two handlers suffice for every race between a step of one and a suspension of
another; liveness has a third so that a holder, a waiter and a newcomer exist at
once. Two turns are a conversation that misses and then hits the cache; two
attempts are a retry; a window of 1 makes conversations collide that a window of 8
would only confuse after eight messages. `gateway_turns` leaves out what its
properties do not survive (see below): turns that stay empty, and streams that
break off behind the first frame.

The properties of `StreamingEmitters` are checked on the events the two scanners
really send; for every event sequence its source allows they are proved. The chunks of
`grammar_pipeline` take each scanner through every branch: prose, a call in one
piece, a call cut behind each of its marks, a fence that is no call, an empty one,
braces that do not close; four of them are a cut fence with text on both sides.
`CallsMatchFullText` and `NothingLost` are about the grammar for DeepSeek as long
as no cut went through a fence. One more chunk is a fence whose object names its tool
under `"tool"`: a call in the stream, prose for `FreeTextGrammar`, nothing for
`parse_final`. `CallsMatchFullText` is the claim of `PathsAgree` for texts without such
an object; `PathsAgree` itself is false (see below).

Four lines are thinking, text, a call cut in two and text behind it; the pieces end
before, inside and behind every kind of mark. A stream ends, so the runs of
`GatewayStreams` do not look for deadlock.

With two handlers and two chats a second chat for one conversation would fit, and is
refused by the lock. The conversations are an empty one, two successive turns of three
and five messages in the same words, whose windows of two agree so that the second is
found, and one of equal length with other words and a tool result. With the window of
eight that `api/app.py` configures the same takes turns of nine and eleven messages. A
chat of three messages takes a turn, or an empty turn and another behind it, under the
same parent or under one that does not exist; a second whole turn is refused. Two tokens
are enough to delete one and to give its id to another account; an account is not
added again while something still goes by it. Five messages with a window of two to
three and a budget of five reach all three tiers, the stub, and both sides of each
limit. `plan` reads nothing but the conversation, so its two properties are evaluated
in the first state only. `OneChatPerConversation` is an action property: rows may be
pruned and a chat opened again, so no single state tells.

Two requests of one kind or of both race for one cache or file. With bundles that last
one tick, both sides of the lifetime are met in a clock of two; harvests after the
second find the page loading, which bounds how often they are repeated. Slots are used
up, so `credentials` does not look for deadlock.

Fairness: `FairSpec` of `Gateway` is weak fairness of each handler's `Advance`. The loop resumes
a coroutine whose future is done and every outbound call has a timeout (20 s for a
chat, 300 s for an answer), after which it raises; nothing is assumed about
clients, the dashboard, the clock or restarts. `FairSpec` of `Credentials` is weak
fairness of each request's `Proceed`: the polls of a page are counted, HTTP calls and
the browser's waits have timeouts; neither arrivals nor the clock are fair.
`EveryCallerLeaves` is about the callers of the DeepSeek lock; of Qwen's requests, which
wait for nobody, nothing of the kind is claimed.

### Where code and documents disagree

Three runs end in a violation; `PROJECT.json` quotes what they contradict:

| Run | Violated | Cause |
|---|---|---|
| `gateway_empty_retry` | `FreshChatGetsHistory` | the retry of an empty turn sends the new turn alone to a fresh chat |
| `gateway_stream_twice` | `AnthropicTurnResumes` | a streamed Anthropic answer without a call ends with a second block that holds all of its text, so the next turn is not found |
| `orchestrator_forgets` | `FollowUpFindsItsChat` | the row saved behind an answer does not include it, so the turn that follows the answer opens a second chat |

Saving the reply (`orchestrator.py:169`) would not repair the last one: the lookup
hashes the last messages of the request with its new user message
(`repo_sessions.py:182-187`), which no row saved before can hold.

Six more are stated in the models and refuted by TLC when given to it, but are not kept
as runs:

- A deleted row's id is given to another account, whose credential is then sent to the
  old account's chats (`SentByOwner` of `Gateway` with a deleted token,
  `functions.py:304`).
- A tool block takes the index of the call and not of the block, so a call behind prose
  reuses one (`BlockIndicesIncrease`, `emitter_anthropic.py:164`, against line 55).
- What a fence held before the chunk it closes in is dropped (`BufferedSpanFlushes`,
  `grammar.py:165`, against `V2_DESIGN.md:371`).
- A fence that names its tool under `"tool"` is a call for the stream
  (`grammar.py:188`) and none for `parse_final` (`grammar.py:226`), uncut as well
  (`PathsAgree`, against `V2_DESIGN.md:465`).
- In v2 an empty turn is completed and saved like any other, and its parent moved on by
  two over a chat that holds the user message alone (`SessionParentExists`,
  `orchestrator.py:148-175`, against `V2_DESIGN.md:239-240` and what v1 does at
  `app.py:348-351`). One request is enough.
- A chat that v2 opens for a conversation with a history is sent the last user message
  alone (`ModelReadsConversation`, `deepseek/adapter.py:79-85`, against line 72). A
  client that brings a conversation the gateway has never seen is enough for this; with
  `FollowUpFindsItsChat` it befalls every turn that follows an answer.

Other disagreements met on the way:

- After a streamed answer the client abandoned, the chat has grown and the row has
  not, so the next turn saves the number of an earlier message
  (`app.py:438`, against `functions.py:428-431`). Two requests for one turn at the
  same time do the same. `OrderlyGateway` is the environment in which this cannot
  happen.
- The lock of a signature is forgotten while requests wait for it; after a failed
  creation a waiter and a newcomer create two chats at once (`app.py:310`, against
  `README.md:100`).
- A cached session of a limited token falls through to that token when no other is
  active (`app.py:247`, against `functions.py:348-350`).
- A rejection in the rotation branch marks no token and is not retried
  (`app.py:259`, against `README.md:102`).
- The streaming grammar also takes the arguments of a call under `"input"`, `parse_final`
  does not (`grammar.py:189, 227`); the model compares how many calls there are, not
  what they say.
- `FreeTextGrammar` numbers every call 0 (`grammar.py:304`, against
  `emitter_openai.py:49`), drops text in front of an object (`grammar.py:290`) and
  never flushes an object that does not close.
- A text delta inside a tool block would open a second block
  (`emitter_anthropic.py:143`, against `V2_DESIGN.md:320`); no grammar sends one.
- An OpenAI stream that fails or is closed has neither `finish_reason` nor `[DONE]`
  (`emitter_openai.py:66`, against `emitter_openai.py:50`).
- A message with calls ends with `END_TURN` (`grammar.py:106`), because the flush
  has cleared the tool the stop reason is chosen by.
- A fence whose JSON is a list or a number raises `AttributeError`
  (`grammar.py:188`), which the scanner does not catch.
- The gateway's OpenAI stream honours a literal think tag wherever the model writes
  it, the Anthropic stream only before the first text; thinking that comes later
  leaks into the text there.
- A v2 row is found again only when the next turn looks like the one before it: the
  same last eight messages and the same pending calls. Otherwise every turn opens a
  chat and its row is saved for nobody (`orchestrator.py:169`). A request repeated in
  time meets the row of the creation, with parent 0, and starts a second branch. After an
  answer that broke off or whose client left, the chat has messages no row counts: the
  parent names an earlier message, and the next turn branches off there.
- v2's fallback tier always looks under "deepseek" (`repo_sessions.py:91`); the
  administrator may delete a token while a chat is opened with it, which leaves the
  chat without a row and raises; ids of deleted tokens are used again.
- Clipping always raises `NameError` (`budget.py:77,79`), so a conversation that gets as
  far fails; the final user message may be moved behind later messages.
- A Qwen error event has no text, so `handle` saves an empty answer as a success
  (`orchestrator.py:148-175`), and a punished message whose second harvest fails ends as an empty answer too, against
  the `("error", ...)` its docstring promises. A second challenge leaves its bundle in
  the cache. `chats/new` does not recognize the challenge, so it fails on the same
  bundle until that expires.
- Each request that misses the Qwen cache starts a browser of its own; one that got no
  bundle starts a second. The cookie file of the Qwen client is never written, because
  the `async with` on `p.chromium.launch(...)` fails.
- v2's token from the environment is not added at the start (`api/app.py:96-100`), so
  the first request is a 503.

## What is proved

Everything below follows from the named assumptions on the constants; where a theorem
has one more hypothesis, it is stated with its reason.

`GatewayProofs`, for any number of handlers, tokens, accounts, chats and turns, any
window, any set of faults: `Invariance` (`Spec => []IInv`), and from it
`TypeCorrect`, `ParentAlwaysExists`, `ChatsStayBound`, `ChatsStayApart` and
`LocksStayTracked`, which are `TypeOK`, `ParentExists`, `ChatBoundToOneToken`,
`NoForeignChat` and `LocksTracked`. None of these is inductive alone. A handler that
is about to save a row must know that its chat already reaches the parent it will
compute, that the chat was created under its token and for its opening, and that it
is inside or outside the critical section as its `pc` says. `RequestSound` is that
knowledge, `RowSound` the same for rows, and `IInv` is both with `TypeOK` and
`LocksTracked`. The argument that interleaving cannot hurt is `Grown`: chats only
grow, so what was true of a row or a suspended handler stays true
(`RowStaysSound`, `RequestStaysSound`), and a step only has to show its own handler
and its new rows sound (`Preserve`). The locks are treated apart (`LocksKept`,
`LocksJoined`, `LocksCreated`, `LocksReleased`), then there is one lemma per action.

`EmitterProofs`, for any set of call indices and streams of any length:
`Invariance`, and from it `TypeCorrect`, `OneBlockAtATime`, `NothingLeftOpen`,
`SameEnding` and `ChunksStayInOrder`, which are `TypeOK`, `OneBlockOpen`,
`FinishedIsClosed`, `FrontEndsAgree` and `ChunksInOrder`. An emitter is in step with
its reader (`InStep`) when it knows which block the reader has open; closing,
opening and sending a delta keep it in step (`CloseKeepsStep`, `OpenKeepsStep`,
`DeltaKeepsStep`), and every handler is made of these three. `InTouch` says that
emitters and source agree on where the stream is, `CallIsOpen` that a tool block is
open exactly while a call is sent, which is why a text delta never meets one.
`CallsFirstAreValid` is `ValidWhenCallsComeFirst`: it adds `Numbered`, that every
block so far carried the index the reader expected, and that before the first prose
the index of the next block is that of the next call.

`CredentialMatchesChat` is `SentByOwner`, where `"delete"` is not among the faults: the
id of a deleted row is given to the next account (`functions.py:304`), and then the
property is false. Its invariant adds `OwnerInv` to `IInv`: what rows, suspended
handlers and chats call a token id is still the same account, because without
deletion a row of `tokens` stays what it is.

`OrderlyProofs` is the whole promise of the gateway: `GatewayIsStateless`
(`OrderlySpec /\ []NothingMistaken => ImplementsStatelessChat`), with `ParentIsOwnReply`
(`NextParentIsOwnReply`) on the way, for any number of clients, tokens, accounts, chats
and turns. The invariant, `OrderlyInv`, separates turns that are answered for good
(`Answered`: sent, and in no handler's hands) from the others. Rows of the first may be
stale, and are never looked up again, since a client sends a turn once. Every other row
waits (`Waits`), and either points to the end of a chat that has read exactly the
history of its turn (`AtEnd`), or its own handler has posted there and will save it or
drop it (`Overtakes`). That nobody else posts there is `ChatsApart`: a chat has one
handler that writes to it and one turn that waits for it. `InTurn` is what a handler
knows of its chat: before the prompt that it is at the end of it, behind the reply that
the reply is the next message and continues its conversation. `TurnsApart` says that
turns in flight have different signatures. A step of one handler only has to show
`Moves` (`MovesKeep`), and `Carries` adds what the refinement needs. There are two
hypotheses. `"empty"` is not among the faults: the retry of an empty turn sends the new
turn alone to a fresh chat, and the history is lost (run `gateway_empty_retry`).
`[]NothingMistaken` speaks of the behaviour: no turn whose prompt is on its way has the
signature of an answered conversation, in whatever chat, that is not its history. A
signature is only the first message and the window (`plugin_helper.py:557-558`), so a
conversation that differs from another one in front of the window shares its row, and
would be continued in its chat. The conversations may be longer than the window: rows
that are cut are found and resumed, and the parent is still the counted one, since
`AtEnd` speaks of what the chat has read and not of what was hashed.

Where nothing is cut (`NothingCut`: the window holds the longest conversation, or is 0)
the second hypothesis needs no client's good will: `WholeWindowsSuffice` proves
`OrderlySpec => []NothingMistaken`, and `WholeWindowsAreStateless` the refinement and
`NextParentIsOwnReply` without it. Its invariant adds `LogsAnswered` to `OrderlyInv`,
that what a chat has answered is a conversation, question and reply in turn; two such
with one signature are then the same (`WholeHistory`, `WholeReply`). That the hypothesis
is neither empty nor true by itself beyond that, TLC has shown on `OrderlyGateway` with a
window of 1, three turns, two clients and one handler: 987 000 states, in some of which a
conversation longer than the window is resumed, keep the parent and the refinement as
long as nothing was mistaken, and in seven steps something is. The run is not among those
above, because it only repeats the theorem. With the window of 8 messages that is
the default of the code, `NothingCut` covers conversations of at most four turns; with
`DEEPSEEKER_SIG_WINDOW_K=0`, which hashes everything, all.

`PipelineProofs`, for any chunks and streams of any length. `PipelineInv` says that
what a scanner has yielded and not yet handed over is the rest of one legal group of
events (`Due`: prose, the rest of a call in its order, an end) and that
`DSMLGrammar` counts as `source` does (`ScannerCounts`). With it every step of a scanner
is a step of `source` or a stutter: `PipelineImplementsSource`, and by it all theorems of
`EmitterProofs` hold behind the real scanners; `PipelineServes` is `FrontEndsAgree`.
All the theorems of the module assume `ToolIndices = Nat`, since the code counts
without a limit and the smaller set is TLC's.

Its second half is about the text: `NothingIsInvented`, `NothingIsLost` and `CallsMatch`
(`NothingInvented`, `NothingLost`, `CallsMatchFullText`), for any text cut anywhere. None
of the three is inductive, since they speak of what was handed over and the scanners hold
text back. `TextSound`: what was shown, what is yielded, what is held of a fence and what
was not looked at are, one behind the other (`Ahead`), a subsequence of what was heard.
A turn of a scanner puts `Ahead` together differently or leaves pieces out, a chunk is
added at both ends, and subsequences compose (`WithinPart`, `WithinBoth`).
`WholeSound`, for the grammar for DeepSeek until a chunk ends in a fence or in half of its
mark: `Ahead` has every word of what was heard, and for every text `w` that may still come
the calls of what was heard and `w` are the calls made plus the calls of what was
not looked at and `w`. These are the calls by the scanner's keys (`CallsInStream`); where
no object uses the one `parse_final` leaves out, both count alike (`SharedKeysAgree`). The quantifier is what makes it inductive: the next chunk is the
beginning of `w`, and a fence found in the buffer is found there however the text goes on
(`StartsStay`, `EndsStay`, `NoCallInProse`). That `parse_final`'s recursion gives the same
numbers on a text and on its rest is `CallsUnfold`, from `CountsAgree`. TLC checked both
invariants on the chunks of `grammar_pipeline`, the quantifier over these chunks, before
they were proved.

`StreamProofs`, for any text cut anywhere: `StreamsInvariance`, and from it
`StreamsTypeCorrect`, `FramesInOrder` and `BrokenOffIsNotOver`, which are
`StreamsTypeOK`, `BlocksWellFormed` and `FailureIsNotAnEnd`. The Anthropic encoder's
two flags and its index have to say which block the reader has open (`InOrder`,
through `Reading`), each emission is a lemma of its own, and a chunk is their
sequence. `FailureIsNotAnEnd` also says that a chat is only dropped behind an empty
answer, and this needs `NoWordIsLost`: whatever came is in `full` or held back.

Two more invariants are about the text. `ApartInv`, for an orderly answer: while the
model thinks both encoders have handed out all of the thinking but what is held back and
no text; once it speaks, all of the thinking, and of the text what the parser makes of
all but what is held back (`InThought`, `InSpeech`). The cut does not matter because
`feed` of two chunks is `feed` of their join (`FeedJoined`) and no tag hides in a chunk
that passes the hold-back (`OpenAIChunkDoes`, `AnthropicChunkDoes`: what a chunk does is
one of three `Effect`s). `SpokenIsFed` connects the parser with the definition it is
compared to: mark by mark, what it lets through is what `RemoveSpans` leaves. This gives
`ThinkingStaysApart` (`ThinkingKeptApart`). `WrittenInv` says how the whole text is
built: thoughts between their tags (`Thoughts`), then what the model said. In front of a
text such thoughts change nothing for `Calls` when they are prose (`CallsBehind`:
every tag, fence and object is where it was, shifted), `clean_text` leaves the spoken
text (`CleanBehind`), and the first thought `format_response` finds is the only one
(`FirstThoughtBehind`). From these `CallsAreThoseOfTheAnswer`, `StreamedTurnResumes` and
`CollectedIsStreamed` (`CallsAreTheAnswers`, `OpenAITurnResumes`, `StreamedIsCollected`).

`PlanAnswers` in `OrchestratorProofs`, for every conversation, budget and window: a plan
that does not raise has the same message to be answered as the conversation. Each tier
is a lemma; the second and third go through `prompt_of` of what they dropped or moved.

`OrchestratorProofs` also has `Invariance`, and from it `TypeCorrect`,
`OverrunsUnanswered`, `ParentsExist` and `OpenedOnce` (`OrchestratorTypeOK`,
`OverrunMeansUnanswered`, `SessionParentExists`, `OneChatPerConversation`). `OrchInv` is
`TableInv` with `LockInv`. `TableInv` says of each row, and of each handler for the row it
is about to save, that what it counts up to is in the chat, or that there are empty turns
and a message of the chat was left unanswered (`Reaches`). Like in the gateway, chats only
grow; that a message stays unanswered when they do is because an answer is only ever
appended together with its own question (`StaysUnanswered`). `OverrunsUnanswered` holds
for every set of faults. `ParentsExist` has the hypothesis that `"empty"` is not among
them, and without it the claim is false, as said above; refused, broken and abandoned
answers and restarts cannot do it. `AccountsKept` is `SentByItsAccount`, and needs a second invariant (`PickInv`): a row, a handler and a
chat agree on account and provider as long as neither token was deleted. That requests are
DeepSeek's (`InputsAssumption`) is used here, because the fallback lookup hard-codes that
provider (`repo_sessions.py:93`).

`OwnWords` is `OwnWordsOnly`, with a third invariant (`AskInv`): all that was ever read
in a chat is the one question it is asked and what the model answered, and every row
and handler that points to the chat asks the same. It is not enough to know that a row
was found; each of the three lookups has to show that what was found asks what the
request asks (`FoundAsks`), also the last, which looks for the window without the
trailing assistant message (`FallbackAsks`: that window begins no later). The
hypothesis `QuestionsAreCompared` says that rows show what is asked: the last user
message of a conversation stands in its window, or is its first user message, which is
the anchor. The runs' conversations satisfy it (`InputsAssumed`). Without it the claim
is false. With a window of two, `hello, more, answer, answer` and `hello, answer,
answer, answer, answer, answer` have one row, so the second, whose user never said
"more", goes on in the branch where it was said. With the window of 8 it takes
eight messages, typically calls and their results, behind a question that is not the
first.
A consequence is `SessionsNeverMoveOn`: nobody ever goes by a chat to ask it anything
but its first question. That is not what sessions are for, and follows from step 9,
which saves the conversation without the answer (`orchestrator.py:168`): the row of a
turn is found when the next turn asks in the same words, and by no other.

`FinalMessageKept` is `FinalUserMessageSent`, by `PlanAnswers`; it assumes only that
what is planned are messages. `BudgetIsKept` is `BudgetKept`: the last tier of `plan`
returns a window verbatim, so a plan over budget means that the smallest window was
tried and was too long (`PlanWithinBudget`), or raises (`RaisesWithNothing`). It assumes
that sizes are naturals, and `MinRecent <= RecentTurns`, as the defaults of
`BudgetPolicy` have it: with more recent turns demanded than there are, no window is
tried at all.

`CredentialProofs`: `Invariance`, and from it `TypeCorrect`, `OneHarvest`,
`BundlesAreYoung`, `PunishedBundlesAreGone` and `RetriesAreFresh`
(`CredentialsTypeOK`, `OneHarvestServesAll`, `BundleYoungEnough`,
`PunishedBundleIsGone`, `RetryIsFresh`), for any number of requests, any length of time
and any lifetimes. The file and the Qwen client share nothing but the clock, so each has
an invariant of its own. `FileInv`: while a browser runs its caller is at the head of
the queue, and every harvest but its own is over, or outlived by what the file holds.
`QwenInv`: a harvest has one owner (`Apart`), so a bundle that was challenged can be
neither in the cache again nor on its way there.

The proofs about texts need functions defined by recursion on a length.
`RecursionExists` proves that such a function has the values its equation says, from
the least-member argument (`LeastMember`, `UpTo`), and `CountExists` and `CountsAgree`
the same of a count that skips ahead, as `parse_final` does. So that a recursive text
function has a value, and which type, is proved and not assumed.

Only model-checked:

- liveness (`EveryRequestAnswered`, `EveryCallerLeaves`), which is beyond the prover.

## Not modelled

- Request and response conversion (`app.py`, `v2/adapters`, `v2/ir/canonical.py`),
  encryption of secrets, usage counters: functions of their input that keep no state.
- The text of prompts and the size limits of `compact_history`: strings cut by length;
  `TokenBudget` is its successor and is modelled.
- DSML, attribute and code-block forms of tool calls and the repair of broken JSON
  (`functions.py:457-700`): regular expressions over characters.
- `SESSIONS` and the login lockout of the dashboard; the Files API with its polling.
- Proof of work, decoding of the services' event streams, what a browser does on a page:
  their results are nondeterministic choices where they matter.
- `GrammarRegistry`: nothing in the repository calls it, so there is no order of calls
  to model.
- The Qwen scripts (run by hand), tests, packaging and assets.

## What is left

The encoders behind the handlers of `Gateway`: `GatewayStreams` follows one answer,
`Gateway` has only its outcome.

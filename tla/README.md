# TLA+ models of rust_ai_serving_engine

This directory holds a formal model of the engine: TLA+ modules translated from
the Rust sources, the TLC configurations that check them on small instances, and
proofs that the TLA+ proof system (TLAPS) checks for every size of the system.
`PROJECT.json` lists which lines of the source each definition stands for.

## The system

The engine keeps a store of local models on disk, loads them on demand, and
generates text from them for an OpenAI-compatible HTTP server, a Python
extension and a command line.

| Component | Source | State it keeps | Operations |
|---|---|---|---|
| Model registry | `core/registry.rs`, `core/manifest.rs` | one TOML manifest per model id under `<root>/manifests`; weights and tokenizer files elsewhere | import_local, attach_tokenizer, get, list, verify |
| Session cache | `models/session.rs` | map (id, device) to loaded session and digest, under a mutex; one mutex per session | get_or_load, clear, lock of a session |
| Generation loop | `core/generation.rs` | tokens sampled so far | generate_with: prefill, sample, callback, decode |
| HTTP generation core | `api/lib.rs` | per request: text decoded, text sent, stop position | run_generation |
| HTTP chat streaming | `api/lib.rs` | per request: a bounded channel of events, the session's lock | chat_completion (stream), chat_stream |
| Qwen3 decoder | `models/qwen3_gguf.rs`, `models/qwen3_model.rs` | next position; per layer three caches of keys and values | prefill, decode, clear |
| Llama decoder | `models/llama_gguf.rs` | next position; caches inside the candle library | prefill, decode |
| GPU GEMM | `models/gpu_gemm.rs` | adapter health flag, pool of buffers | upload_weight, gemm, fallback |
| Chat templates, sampler, tokenizer | `models/chat.rs`, `core/generation.rs`, `models/tokenizer.rs` | none | render; sample; encode, decode |
| Threading, runtime | `models/threading.rs`, `core/runtime.rs` | pool size, once | choose a default, probe devices |
| Profiling | `models/profiling.rs` | relaxed atomic counters | commit, snapshot (with reset) |
| Python bindings | `python/python.rs` | the process's session cache; the GIL | generate, stream with a callback, unload |
| Command line, hub | `cli/main.rs`, `core/hub.rs` | none | pull = download, import, attach; list, verify |

How they interact. A request (an HTTP handler on a blocking thread, or a Python
thread with the GIL released) calls `SessionCache::get_or_load`, which reads the
registry, verifies and loads if it must; it then locks the session and runs the
generation loop over the session's decoder. The loop calls back for every
token; the callback decodes text and sends deltas into a channel (HTTP) or to a
Python function. The registry is shared by processes through the file system
only: nothing locks the directory.

What is hard about it:

* several processes write and read one manifests directory without a lock, and
  may be killed between any two system calls;
* `get_or_load` holds no lock while it verifies and loads, so registry,
  files and cache change under it;
* text must go out as early as possible, yet never contain a stop string or half
  a character, and tokens do not line up with either;
* a streaming thread holds a session's mutex while it waits for a client;
* the decoder keeps the same keys and values in different layouts that are
  written by different kernels, and may fail in the middle of a layer;
* GPU threads of different sessions share one set of buffers, in which a dispatch may
  fail or panic while the CPU works on the other half of the rows;
* a Python thread holds a session while it waits for the GIL, and other threads of
  the interpreter wait for that session.

What makes each part correct, in one line each: a manifest is always whole and
changes as one atomic register (registry); a call is served weights that were
registered during it (cache); the loop keeps decoder and text in step (loop);
deltas add up to the text and contain no stop string (generation core); a client
that stays reads a whole stream and nobody keeps the session for ever
(streaming); a token attends to its own request's prefix only (decoder); a product
consists of its own rows whatever the GPU does (offload); a refusal or exception of a
callback ends its call and nobody gets stuck between GIL and session (Python).

## Modules

| Module | Models | Composition |
|---|---|---|
| `Manifest` | the manifest record and the changes import and attach make to it | used by the three below |
| `ManifestStore` | what the registry promises: one register per file name that changes atomically | abstract specification |
| `Registry` | the registry over directory entries and inodes | implements `ManifestStore` |
| `CommandLine` | `model pull` and the other commands, the hub's downloads | EXTENDS `Registry`, its calls are the registry's actions |
| `Loading` | which device, adapter and number of threads a load uses | used by `SessionCache` |
| `SessionCache` | cache, callers, session mutexes | its environment acts by `ManifestStore`'s actions |
| `Generation` | `generate_with` | |
| `RunGeneration` | `run_generation`'s callback and return | EXTENDS `Generation`, conjoins its actions |
| `ChatTemplate` | the three prompt templates and the choice among them | pure operators |
| `Sampler` | from logits to the tokens `sample` may return | pure operators |
| `ChatRequest` | a plain request from its messages to its outcome | EXTENDS `RunGeneration`, `ChatTemplate`, `Sampler` |
| `ChatStream` | threads, channels, plain answers and clients of the HTTP endpoints | sees a generation through its callback |
| `TokenDecoder` | what a decoder promises: logits of one request's whole context | abstract specification |
| `Attention` | which cached rows each attention kernel gives to a query row | pure operators |
| `Decoder` | positions and caches of a Qwen3 or Llama model | EXTENDS `Attention`, implements `TokenDecoder` |
| `Profiling` | the phase counters and their snapshot | |
| `ProfiledDecoder` | a decoder that counts its passes while snapshots are taken | EXTENDS `Decoder`, `Profiling` |
| `GemmShader` | the two GPU kernels: which activations, weights and scales are multiplied, and where the sums go | pure operators |
| `GpuGemm` | the GPU offload: split rows, buffer pool, health flag, fallback | EXTENDS `GemmShader` |
| `PyStream` | Python threads that generate with one model: GIL, session, callbacks | EXTENDS `Generation` |
| `ByteText` | a byte-level tokenizer for the instances of the two text modules | used by `MCChatRequest`, `MCPyStream` |
| `RegistryProofs` | theorems about the registry, alone and with pulls | EXTENDS `CommandLine` |
| `CacheProofs` | theorems about the session cache | EXTENDS `SessionCache` |
| `ChatProofs` | theorems about the prompt, the loop, its draws, the text and the finish reason of a request | EXTENDS `ChatRequest` |
| `StreamProofs` | theorems about the endpoints | EXTENDS `ChatStream` |
| `IndexArithmetic` | lemmas on quotients, remainders and packed indices | used by the two below |
| `DecoderProofs` | theorems about positions, caches, kernels and counters of the decoder | EXTENDS `ProfiledDecoder`, `IndexArithmetic` |
| `GpuProofs` | theorems about the kernels and the offload | EXTENDS `GpuGemm`, `IndexArithmetic` |
| `PyProofs` | theorems about the Python calls | EXTENDS `PyStream` |
| `MC...` | instances for TLC | |

In several modules a definition stands directly before the definition it
distorts (`AnyEntry` before `HasTomlExtension`): these are the plausible bugs
against which every property is tried, listed as "mutants" in `PROJECT.json`.

### Registry

The file system is modelled below file names: `name[s]` and `temp[s]` are the directory
entries `<s>.toml` and `<s>.toml.tmp`, which name inodes, and a process that has a file open
writes to the inode whatever names it by then. That is what makes the shared temporary
visible: `OpenTemp` creates or truncates it, `WriteTemp` writes to the inode that was
opened, `RenameTemp` publishes whatever inode the entry names at that moment, and
`WriteReturns` hands its Ok to the caller, one step later. `WriteFails` may leave a partial
text (`Garbled`, text which does not parse); `Crash` kills a process at any point of a call,
the one between rename and return included, or outside of one, and leaves the files.
`ImportStart`/`ImportHash` and `AttachStart`/`AttachHash` are the two halves of the
operations, up to and including the hash of a file that may change or vanish (`ChangeFile`).
Paths stand for the files they lead to, as `canonicalize` makes them. `Get`, `VerifyStart`
to `VerifyTokenizer` and `ListStart` to `ListEnd` are the readers. A read of one manifest is
one step, because an entry `<id>.toml` is only ever replaced by a rename, never removed or
written in place.

`Exclusive` is the assumption that one write command per model runs at a time.
The code does not enforce it, and it is not a property of the code: it is how an
operator who follows the README uses the command line. With it the registry
implements `ManifestStore`; the run `Registry_shared` drops it and shows what then
happens. `ValidId` and `FileStem` are `validate_model_id` and `manifest_path`; the
assumption that accepted ids name distinct files is what the character set of
`validate_model_id` gives on a case-sensitive file system (on one that is not,
"A" and "a" share a manifest).

### CommandLine

`model import`, `attach-tokenizer`, `list`, `inspect` and `verify` are single calls of the
registry (`Call`). `model pull` is a sequence: `PullStart` downloads the weights or fails
to, `PullImport` begins an import, whose steps are the registry's, `PullTokenizer` downloads
a tokenizer if one was asked for, `PullAttach` begins the attachment. `PullFails` is the `?`
on any of them; nothing undoes an import whose tokenizer fails. `Killed` ends a pull within
any of its calls or between them. `PullReport` then says what it leaves: nothing of its own
before the import's rename, the new weights without a tokenizer between that and the
attachment's rename, and both afterwards, also when the process is killed before it can say
so (`ImportDone`, `AttachDone`). A download puts a file into the hub's cache unless it is
there already. `command[p]` is where the pull is between two calls; a pull counts as one
write command in the operator's discipline (`NotPulled`).

### SessionCache and Loading

A call of `get_or_load` is the actions `Get` to `Insert`: the first read of the
manifest, the lookup, the second read, the two hashes, the device selection, the
two opens that load what was hashed (and may fail on a file that does not parse), and the
insertion. The imported weights of the instance are GGUF files; other formats and manifests
without an architecture are refused where the device is selected, or later as an unknown
architecture, with the same effect on the cache. `Publish`, `ChangeFile` and
`Clear` happen between any two of them, at most `MaxChange` times in all. Sessions
are identities of `Arc`s: one is dropped when neither the cache nor a caller
refers to it. `seen`, `raced`, `epoch` and `began` are history variables that only
the properties read: `seen[c]` collects the manifests published during c's call,
`raced[c]` the paths that changed since its verification began. `Loading` has the choices of
a load: `Select` maps each preference and the accelerators present to a device or to
an error, `Adapter` an architecture to a decoder, and `DecodeThreads` is the default that
the first load of a process writes to an environment variable and later ones leave.

### Generation, RunGeneration and ChatRequest

`Generation` is the loop with its early returns in the code's order: `Prefill`,
the cancellation check, `Sample` (a stop token ends the loop before the callback
sees it), `OnToken`, `Decode`, `Exhausted`. Any fallible call may fail. `RunGeneration`
conjoins each `OnToken` with what the callback does for
that text: undecodable, ends in an incomplete character, contains a stop string,
has text beyond the hold-back, or has none. Offsets count characters; the byte
offsets of the code always lie on character boundaries. The tokenizer is the
operator `Text`; the instance in `MCChatRequest` is a byte-level vocabulary with
tokens that span characters, half characters, an end token and a token that does not
decode, so that text may change at its end when a token arrives.

`ChatRequest` puts the rest of a plain request around that: `PrepareChat` picks the
session's template (`TemplateOf`: the manifest's name if it is known, else by
architecture), renders the messages and encodes them without special tokens;
`PrepareCompletion` encodes the prompt with them; `Refuse` is every error before the
session is used. `Generate` is a step of `RunGeneration` in which a token, where one is
sampled, is drawn by `Sampler` from the logits of the last pass. A prompt is a
sequence of marks and turns. `Tells` says when a prompt tells a conversation: what the
user, the assistant and tools said corresponds one to one and in order to the prompt's
turns (`Spoken`, `Turns`), and the system text that a turn of the user is read with,
inside it or before it (`SystemFor`), is the one that is in force for the message
(`InForce`: the last one since the previous turn of the user). In `Sampler` the weights of
candidates are powers of two that keep the order of the exponentials and their
underflow, and a draw is any threshold, one past the total included (the rest that
rounding leaves). A temperature is zero, ordinary, or so small that the division
overflows.

### ChatStream

One blocking thread per request (`step`), a bounded channel, the connection that drains it
and the client that may leave. A request is a stream or plain (`streaming`); a plain one, of
the chat or the completion endpoint, takes the same mutex, generates with a callback that
always says true and puts one answer or error on the way to its client, which may be gone by
then. `chat_stream` keeps the session's guard to its end, so the mutex is freed with the
last send, or by a panic's unwinding, which also drops the sender without a terminator and
leaves the mutex `poisoned`; `Lock` takes it all the same. `outcome` is the local variable
of that name: `Conclude` sets it when the generation returns or fails, and the last sends,
whose results nobody looks at, depend on it (`SendFinish`, `SendDone`, `SendError`). `Owed`
is what a client that stays must have read in the end: every delta offered, by number, and
the terminator of that outcome. After a disconnect every send returns at once with an error.

### Decoder, Attention and ProfiledDecoder

A cache entry is known by the request, position and key/value head it was computed for. The
layouts are three variables: the concat cache of other devices and of Llama, the interleaved
cache of the flash kernel and the raw cache of the decode kernels (CPU), the latter two flat
sequences `[position][head]` as in the code. `New` is what a pass computes, flat as
`[head][position]`, `Transposed` the copy that goes into the caches. `Attention` has the
index arithmetic of the kernels: the blocked causal kernel with its blocks of queries and
its start `j - q0`, the grouped decode kernel, the flash kernel and the masked product; each
maps its loop index to the row that it reads. `attended` gives what each pair of a head and
a row of the pass has read. `Fail` may strike after the first of the two cache writes of a
layer. The session's mutex serializes requests, which is why there is one `request` at a
time.

`TokenDecoder` is the contract of the trait: the context of the logits is a whole
prompt, then grows by one token per decode. `Decoder` implements it with the context
read off the rows that the last layer attended to.

`ProfiledDecoder` lets each pass of a Qwen3 model (`Profiled`; Llama's forward is candle's and
counts nothing) add itself to the counters of `Profiling` before it returns (`Logits`, then one
`Count` per counter, in any order) while a Python thread
takes snapshots that read, or swap with zero, one counter at a time. `owed` is what was
done and not yet told by a resetting snapshot; counters wrap (modulo 3 in the run).

### GpuGemm and GemmShader

A call of `HybridQMatMul::forward` with many rows: `Begin`, `CheckContext` (the health flag
is read here and never again in the call), `Upload`, `Share`; then two threads run at the
same time, `CpuHalf` and the chain `LockPool`, `Stage`, `Compute`, `ReadBack` for each
chunk, which meet in `Merge`, `JoinCpuError` or `JoinGpuFailure`. `DispatchFails` is a
dispatch that returns false: the pool is unlocked, perhaps with the read buffer mapped, and
only a later step, `MarkUnhealthy`, clears the flag. `DispatchPanics` and `UploadPanics` are
the errors that wgpu reports by a panic of its default handler (failed allocations, work on
a mapped buffer), anywhere in a dispatch up to the copy out of the mapped buffer. The join
turns a panic of the GPU's thread into a recomputation; only the upload's, on the caller's
own thread, ends the call as a panic. The read buffer keeps rows of earlier, longer chunks
behind the new ones, until a longer chunk replaces it by a new one. The host's transposition
into the staging buffer (`gpu_gemm.rs`:663-676) is taken as right. A row is a pair of caller
and index.

What `Compute` leaves there comes from `GemmShader`, the index arithmetic of the two
kernels: `Stores` are the cells that the threads of all workgroups write, `Sum` the
products that each adds up, through the shared tile (`ATile`), the nibbles of the
weights' words and the packed scales (`ScaleMin`). `Dot` is what a cell should be: the row
as it was staged, times the weights and scales of the Q4_K format (`Weight`). `SourceRows`
evaluates a kernel for every cell and gives the row of activations that each row of its
product stems from, or `Garbled` if one of its cells is not that row's product; this
table is the variable `pipeline`, fixed in `Init` for the kernel that the adapter
supports. The arithmetic itself and its rounding (half precision included) are left out.

### PyStream

The threads of one interpreter run Python code when they hold `gil`, and may lose it between
any two bytecodes (`Yield`). `Call` gives it back, `LockSession` waits for the session, the
loop of `Generation` runs without the GIL. In a streaming call `TokenDelivered` and `Flush`
take it for a call of `on_delta`, which continues, returns False or raises; in a plain call
(`generate`, `chat`) every token is kept (`TokenKept`) and the whole text is decoded at the
end, which may fail (`TextIsLost`) or panic. What is decoded then (`Generated`) is not the
same: a streaming call decodes the tokens its callback was told of, a plain one all that
were sampled, the token that stopped it included. That token has a text of its own in the
instance, as an id that a caller passes in `stop_tokens` may. The loop's variables are those
of the one thread that holds the session. Loading is one step here (`LoadFails` or not);
`SessionCache` has its parts. Callbacks are assumed not to call into the model that calls
them: such a call waits for a mutex its own thread holds.

## Runs

`tlc -config <run>.cfg <module>`; all of them explore their whole state space.

| Run | Module | Shows | Bounds |
|---|---|---|---|
| `Registry` | `MCRegistry` | manifests are whole, readers never meet a broken one, a manifest changes only in a writer's rename and to what it built, the registry implements `ManifestStore`, and a pull leaves what it reports, whenever it is killed | 1 model and a second spelling of its name, 2 processes, 2 files, 2 contents; 541k states |
| `Registry_shared` | `MCRegistry` | **violated**: README "recorded atomically", for two concurrent writers | the same, without `Exclusive` |
| `SessionCache` | `MCSessionCache` | served weights were registered during the call and loaded for its device; a session holds what was verified unless a file changed in between | 2 callers, 2 devices of which one is missing, 3 sessions, 2 environment changes; 1.7M states |
| `SessionCache_serialize` | `MCSessionCache` | **violated**: "concurrent requests to the same model serialize" | 2 callers, no changes |
| `SessionCache_tokenizer` | `MCSessionCache` | **violated**: the cache is invalidated when tokenizer or weights change | 1 change |
| `SessionCache_clear` | `MCSessionCache` | **violated**: "forcing the next call to reload" | 1 change |
| `RunGeneration` | `MCChatRequest` | prompts tell the conversation, draws are allowed; loop contract, decoder in step, stable stream, deltas add up, no stop string leaks, truthful finish reasons | conversations of up to 3 messages of 4 roles, 4 architectures, 3 template names; 5 tokens out of 8, no stop strings or three of 0, 2 and 3 characters; 517k states |
| `RunGeneration_stop` | `MCChatRequest` | **violated**: a stop string never leaks | 2 tokens |
| `Decoder` | `ProfiledDecoder` | each head of a token attends to its own prefix; caches follow the position; the decoder implements `TokenDecoder`; no pass is lost or told twice by snapshots | 3 kinds of model, 2 requests in turn, 2 layers, 6 heads in 2 groups, blocks of 2, context of 6, prompts up to 5; 279k states |
| `ChatStream` | `MCChatStream` | streams are well formed and, for clients that stay, have every delta and the terminator of the outcome, and so do plain answers; the session is held by one; whoever waits for it gets it, after panics too, and every request ends | 2 requests, channel of 2, 3 deltas; 56k states |
| `GpuGemm` | `GpuGemm` | successful calls return their own rows, computed with the right weights and scales; GPU failures and panics fail no call, and failures are remembered; every call ends | 2 threads, 2 calls each, matrices of 3, 10 and 20 rows, tiles of 4, chunks of 8; both kernels with 5 columns, 2 threads a workgroup, 2 blocks of 32 weights; 676k states |
| `PyStream` | `MCPyStream` | answers add up, with a callback and without, refusals are final, exceptions reach the caller, sessions are released, the host keeps running | 3 threads, calls without limit, 3 tokens a call out of 5, of which one stops it; 60k states |

Why the bounds are enough. Registry: an interference needs one writer and one
other process, and each file is one of: as recorded, different, gone; a third
inode is never in use under `Exclusive`. SessionCache: a call races with at most
one publication and one file change or clear per window, and has three windows, of
which two at a time interact; two callers and a third session make every eviction
possible. RunGeneration: the longest stop string has three characters and spans up
to four tokens; a system text, a turn before it and one after it are three messages.
Decoder: what a request can inherit comes from the one before it; the prompts lie on
both sides of the kernel's limit (3 here, 256 in the code) and of the context length, and
end inside and at the edge of a block of queries. ChatStream: the channel fills with two
events, one request holds the session and another waits. GpuGemm: 3 rows leave the GPU
nothing, 10 give it one short chunk, 20 a full one and a short one, so that buffers grow and
are used again by shorter chunks; the four column strides of a
thread cover eight columns, of which five exist, the two of the other kernel cross a
workgroup, and the eight sub-blocks of a block have different scales; a failure of one
thread meets the other one anywhere, and second calls begin before and after it is
known. PyStream: one thread in a callback, one that waits for the session and one in
host code.

`CHECK_DEADLOCK FALSE` is set for the runs of RunGeneration and GpuGemm, because
generations end and the calls of the instance are used up. In the latter a deadlock
would be a counterexample to `EveryCallEnds`.

### Fairness

`GpuGemm` assumes that threads run (weak fairness of each calling thread and of each GPU
thread, waits for the pool included: the calls are finitely many, so nobody is overtaken
for ever). `PyStream` assumes weak fairness of native steps and of the interpreter's switches,
and strong fairness of taking the GIL and of the end of callbacks: the interpreter makes
a thread give the GIL up when others ask for it and serves those who wait, and a callback
ends although it may be interrupted. No fairness is assumed for one thread's wait for a
session: `std::sync::Mutex` promises none, so a thread may be overtaken for ever by
others, and `HostKeepsRunning` excepts that wait. `ChatStream` assumes weak fairness of the
threads and of the reads of each connected client. The latter is a real
assumption: a client that stays connected but does not read fills the channel,
blocks `chat_stream` in `blocking_send` and keeps the session's mutex for ever, and
nothing in the code bounds that wait. No other liveness is claimed.

## Where the code and its documents disagree

Five runs end in a counterexample to something a document or a comment says; the
quotations are in `PROJECT.json`, "findings".

1. *One temporary per model.* `write_manifest_atomically` is atomic against readers and
   crashes, but two writers of one id share `<id>.toml.tmp`: A writes its manifest, B
   truncates the same file, A renames it: an empty manifest is published, A returns
   Ok, and B's rename fails.
2. *Requests for one model can run at once* when both were the first to ask for it:
   each loads a session of its own.
3. *A new tokenizer is not seen* while the session with the old one is cached: only the
   weights' digest is compared.
4. *clear() does not reach a load in flight*, which inserts its session afterwards.
5. *The final flush is unchecked*: a text that ends inside a character was never
   searched for stop strings when the token limit ends the loop.

More that are in the models but have no run of their own:

* *A disconnect is noticed only when there is text to send*, not at the next token
  boundary (`src/README.md`:486): `TokenHeld` and `TokenBroken` of `RunGeneration` go on
  after `ClientLeaves`.
* *A failed GPU allocation does not mark the context unhealthy* (`gpu_gemm.rs`:19 lists it
  among the failures that do): it is a panic, `DispatchPanics` or `UploadPanics`, and the
  second one even ends the request. This rests on how the wgpu library reports errors.
* *Broken characters do go out* at the end of a text that stops inside one
  (`src/README.md`, "깨진 문자가 스트림에 나가지 않는다"): `Return` and `Flush` send the rest.
* *A Mistral prompt leaves text out*: a system text that no user turn follows, and all but
  the last of several in a row; and a conversation that ends with the assistant opens no
  turn for it, although `chat.rs`:51 says that `render` renders "the conversation and the
  opening of the assistant turn". `PromptTellsConversation` excepts the former.
* *An unknown `chat_template` is not an error*: the session silently takes the template of its
  architecture (`TemplateOf`).
* *A tiny temperature fails valid logits as invalid*: the peak divided by it is an infinity,
  whose weight is not a number (`WeightsOverflow`).
* *The "number of GEMM calls served by the GPU path"* (`profiling.rs`:41) counts failed ones as
  well: the probe is committed whatever the dispatch returned. That counter is not in the model.
* *Qwen3 passes on a device are counted too*, although `src/README.md`:603 says that the counters
  cover the CPU path of Qwen3 and stay 0 for other decoders and devices: the forward of
  `qwen3_model.rs`:897-905 counts on whatever device it runs. `Profiled` holds for the kind
  `qwen3_device` as well.

## Proofs

The proofs hold for any number of processes, callers, requests, threads, files, tokens and
so on. They assume what the `ASSUME`s of the modules say of the constants, which TLC
evaluates in the runs, and where it is said two hypotheses more. A theorem about a
property of a run is about the specification that this run checks.

| Module | Theorems | Hypothesis |
|---|---|---|
| `RegistryProofs` | `TypeCorrect`, `CommandTypeCorrect` | |
| `RegistryProofs` | `AlwaysPublishedWhole`, `NeverTomlDecode`, `WritersPublishTheirOwn`, `Refinement` | `Exclusive` |
| `RegistryProofs` | `PulledManifestsAreWhole`, `ReadersNeverFailWithPulls`, `PullsPublishTheirOwn`, `CommandRefinement`, `PullsReportWhatTheyLeft` | `Exclusive` |
| `CacheProofs` | `CacheTypeCorrect`, `PublishedWeightsServed`, `SessionsSuitTheirKeys`, `SessionsLoadedAsVerified` | |
| `ChatProofs` | `LoopKeepsContract`, `DecoderKeepsUp`, `TokensAreAllowed`, `PromptTellsAll` | |
| `ChatProofs` | `ChatTypeCorrect`, `StreamNeverTakesBack`, `StreamedIsReturned`, `StopsStayInside`, `FinishReasonIsTrue`, `RequestsAreFinite` | `TokenizerKeepsText` |
| `StreamProofs` | `StreamTypeCorrect`, `SessionHasOneHolder`, `StreamsAreWellFormed`, `StreamsAreComplete`, `EveryRequestIsFinite` | |
| `DecoderProofs` | `EveryHeadAttendsItsPrefix`, `CachesKeepUp`, `DecoderRefinement`, `ProfiledTypeCorrect`, `NoPassIsLost` | |
| `GpuProofs` | `KernelsAreRight`, `GpuRowsAreOwn`, `GemmTypeCorrect`, `GpuFailuresAreSoft`, `FailuresAreRemembered`, `CallsAreFinite`, `PoolHolderWorks` | |
| `PyProofs` | `PyTypeCorrect`, `PyDeltasAddUp`, `ExceptionsReachCallers`, `RefusalsAreFinal`, `PyCallsAreFinite` | `TokenizerKeepsText` |

### Registry and command line

`TypeCorrect` (`Spec => []TypeOK`) is inductive once the type of a draft depends on where
the process is (`TypeInv`: a draft with an id that was not validated never gets past the
validation), and it holds with concurrent writers too.

The four theorems about the registry alone assume `Exclusive`. They rest on one inductive
invariant, `IInv`, whose parts are there for these reasons:

* `PublishedWhole`, the aim: what stands under `<s>.toml` is a whole manifest of a model
  whose name is s. A rename preserves it if the renamed inode holds the writer's
  manifest; a write preserves it if the inode written to is not published.
* `Distinct`: no inode is named twice, so that neither a truncation nor a write through a
  temporary's name changes a manifest.
* `OneWriter`: `Exclusive`, read off the program counters: no two processes between the
  start and the end of a write command have the same id.
* `LocalInv`, per process: the draft carries a valid id and is what import or attach
  builds; the open handle is the inode that the temporary's name still has, and
  is blank before the write; at the rename the temporary holds the draft; a listing
  has only `.toml` entries left to read, which are never removed, and no process has
  failed with a decode error.

`Invariance` proves it with one lemma per action that touches the files (`OpenKeeps`,
`WriteKeeps`, `RenameKeeps`, ...) and two for those that do not (`GoToKeeps`,
`ReturnKeeps`). From it follow the theorems: no reader meets text that does not parse, a
manifest changes only in a rename, to what the renaming process drafted, and, mapped by
"the manifest that stands under the name", every step of the registry is a step of
`ManifestStore` or leaves it alone. The last one is what entitles `SessionCache` to use
the abstract register. `Registry_shared` shows that `Exclusive` cannot be dropped.

The second part of `RegistryProofs` carries all of that over to the specification with pulls
(`CommandSpec`): each of its steps is a step of the registry or changes nothing but files of
the hub and a process's last result (`Quiet`). `PullsReportWhatTheyLeft` needs an invariant
of its own, `PullInv`: while a pull of a model runs nobody else writes that model
(`PullAlone`, which is `Exclusive` over the whole pull and not only over its calls), and
what stands under its name is what the calls made so far have left (`PullFacts`), at each
point where a kill may strike (`LeftSoFar`). The step that ends a pull changes no manifest
(`LastStep`).

### Session cache

`CacheInv` says of every call where its manifest comes from (it is in `seen[c]`, and so is
whatever is published now) and what its verification still guarantees: the weights are
those of the manifest unless their file changed since (`WeightsVerified`), and so on along
the steps of the call (`CallInv`); of every cache entry that its session was loaded for its
key and digest (`EntriesInv`); and of the register that it holds manifests of the model
that is asked for (`PublishedInv`, which rests on the registry's theorem). The hit in
`Lookup` needs `EntriesInv` and the first read, the miss the chain of `CallInv`.

### Generation and HTTP text

`LoopInv` relates the tokens sampled, reported and decoded at every phase of the loop; it
needs nothing from the tokenizer. The theorems about text assume `TokenizerKeepsText`:
no text of tokens that does not end in an incomplete character is changed by more tokens.
The callback's code relies on that without saying so; it is true of a byte-level
tokenizer that decodes piece by piece, and TLC checks it of the instance's tokenizer
(`TokenizerAssumption`). It is not true of a tokenizer with ByteFallback (SentencePiece
vocabularies such as Mistral's), where the bytes of one character are decoded together and a
later byte may turn whole text before it into replacement characters: for those the
theorems say nothing. Everything sent is a beginning of the text of an earlier moment
without stop string, at least the hold-back short of its end (`Sent`). `SentFacts` concludes
that it is a beginning of any later text and ends before every stop string in it, because
a new stop string must reach past the end of the earlier text (`StopsComeLate`), and no
stop string is longer than the hold-back and one (`HoldbackCovers`). Once a stop string
is found the text stays `Cut` there.

`TokensAreAllowed` needs no tokenizer, only the logits that a draw was made from
(`DrawInv`, `DrawsKept`). The sampler takes the k best candidates off a stable order, in
which the rank of a candidate is the number of those before it. `EachRankTaken` says that
every rank has one candidate, by a bijection between candidates and ranks; the first k ranks
are then candidates that fewer than k others exceed (`CandidatesAreBest`), whichever of them
the weights and the threshold pick (`PickedIsIn`). At temperature zero the scan
ends at a maximum (`ArgmaxIs`). These scans run over data of any length and would call
for an induction; the proofs look at the least counterexample instead (`LeastOf`), which the
library's facts on well-founded relations give without an operator parameter.

`PromptTellsAll` covers conversations of any length. ChatML and Llama 3 prompts have their
turns where the messages are, one place further on with the begin-of-text token, and the
system text in force is the same after such a shift (`InForceShifts`). A Mistral prompt is
built by a recursive function over the messages. That the function has the values
which its definition gives (`after`) is shown by the least number at which no such
function exists; `MistralInv` says of the first n messages that the prompt so far has their
turns, and that the waiting system text is the one in force for the next message, which
`InForceStep` computes from one message to the next. Of the conversations it is assumed
only that they are sequences of messages (`RequestAssumption`).

### HTTP streams

`RequestInv` speaks of what a client has received together with what is on the way to it
(`Wire`): it is a beginning of a well-formed answer that the thread's step determines, and a
whole one once the thread is done: the one of `Owed`, with as many deltas as were offered and
the terminator of `outcome`, unless the thread panicked. `SessionHeldByOne` is inductive with
the types.

### Decoder and profiling

`DecoderInv` speaks of a pass that is under way. `CacheInv`: the layers behind the pass hold
all positions up to its end (`offset + len`), the others those before it (`offset`), and each
place of the cache that a decode reads holds the entry of its own position and key/value
head; the flash kernel's cache, which only prefills read, is empty ahead of a prefill. A pass
that fails leaves layers of both sorts, which is why this is claimed of a `usable` decoder
only: after a failure only a prefill follows, which clears them all. `AttendInv`: what the
heads have read is the prefix of each row. That is where the kernels come in: one lemma for each
(`GqaDecodeAttends`, `FlashAttends`, `MatmulAttends`, `BlocksUpdate`) says which entries its
loop index reaches, from what `IndexArithmetic` has about `(a * n + b) \div n` and `% n`: a flat
cache of positions and heads has the row of position j and head h at `j * KvHeads + h`, and
the causal bound of a row does not depend on where its block of queries begins.
`EveryHeadAttendsItsPrefix` and `CachesKeepUp` follow from the invariant.

`DecoderRefinement` maps the steps: the end of a pass is a `Prefill` or `Decode` of
`TokenDecoder`, with the context read off the rows that the last layer attended to; a failure
or the start of another prefill drops the context, and every other step stutters.

`NoPassIsLost`, which is about the passes of Qwen3 models, has the invariant `Accounts`: for
each counter, what it holds and what the pass has yet to add are, modulo the width of the
counter, what is owed; a snapshot that swaps a counter with zero takes the same from both
sides (`TakenIsAdded`).

### GPU offload

`KernelsAreRight` is about the two shaders alone: whatever the numbers of rows, columns,
blocks and column groups, `SourceRows` gives row i for row i. It is proved in four steps.
Every scale and minimum that `ScaleMin` puts together from two bytes is the six bits that
the format keeps there (`ScalesUnpacked`). The parts of an element's index (block, group,
half, word, byte) and the element determine each other (`ElementParts`,
`ElementsReached`), so that the loops of a kernel add up every product of a row once and
no other (`SumIsDot`, with `TileAddress` for the way through the shared tile). Every place
of the output has exactly one thread, of one workgroup, that stores it
(`EveryPlaceStored`). And different rows have different products (`DotTellsRow`), so the
row that `SourceRow` chooses is the right one.

`FailuresInv` suffices for the theorems on failures: the flag is down whenever a dispatch has
failed and its caller is past the join, and a call that has panicked never had a GPU
thread. `GpuRowsAreOwn` is about the buffers that all calls
share, and uses `KernelsAreRight` for what a dispatch leaves in them. `ThreadInv`: whoever
holds the pool finds in the staging buffer its own chunk, and in the read buffer first the
rows of that chunk, whatever is behind them; the rows a call has are its first ones, in
whole tiles, so the next chunk begins where they end. `GemmTypeCorrect` rests on the same
invariant, which says how long the buffers are. The one assumption on sizes is that the
numbers of rows that occur have a largest one: they are `usize`.

### Python

`PyInv` ties the threads to each other (`HolderTypes`: the session is held by exactly the
thread that is inside it, the GIL by a thread that runs Python code) and describes the one
call in the session by its step: in the loop (`InGenerate`), in the callback (`InCallback`),
in the flush and before the unlock. What was delivered is a whole text of some of the first
tokens (`Whole`). A callback that said False has seen all the text there is, which is why
no flush follows it; one that raised has left its error, which the code looks at first.

### Everything is finite

Why requests and calls end is proved as far as it can be without ENABLED. Four theorems
bound what a request or a call may still do and show that every step of it lowers that
bound, while the steps of the others leave it alone; no fairness is needed:
`RequestsAreFinite` (the loop, the return and the client of a plain request),
`EveryRequestIsFinite` (threads, channel and clients of the endpoints), `CallsAreFinite`
(the offload: each chunk has a row more than none, `ChunkIsDone`) and `PyCallsAreFinite` (a
callback's exchanges of the GIL do not count, which is where its fairness comes in). So none
of them can go on for ever, be it through interference: a request that never ends is one
that waits. What is waited for is held by somebody who works: the pool by a thread that
stages, computes or reads (`PoolHolderWorks`), the GIL by a thread that runs Python code and
the session by a call that is inside it (`PyTypeCorrect`, `SessionHasOneHolder`), which
waits for nothing but its client, or for the GIL in Python.

## Model-checked only

* Liveness (`EveryRequestEnds`, `EveryCallEnds`, `SessionIsReleased`, `HostKeepsRunning`): that
  a waiting thread gets its turn depends on fairness and ENABLED, which the prover does not
  have. The bounds on the number of steps are proved, see above.
* What the folds of `ByteText`, the tokenizer of the instances, compute; the
  theorems about text are about any tokenizer that keeps whole text.

## Not modelled

* Numbers: dot products, softmax, rotary embedding, dequantization and rounding. The kernels
  are modelled by what they index; whether they add correctly is a matter of numerical
  tests, not of states.
* The reading of GGUF files and of tokenizer files, and what the tokenizers, candle, rayon, wgpu
  and hf-hub libraries do inside: they are modelled as the code uses them.
* The choice of a GPU adapter (there is one or not), and the counters of times and of
  single operations.
* The thin Python calls (import, list, verify, device probing, unload), which are the
  registry's and the cache's operations, the two HTTP endpoints that only list or answer
  "ok", and argument parsing.
* A Python callback that calls into its own model (excluded by assumption, see above).

## Plan

Done, in this order: `Registry`, `SessionCache`, `RunGeneration`, `ChatStream`, `Decoder`,
`GpuGemm`, `PyStream`; then the kernels' indices (`Attention`, `GemmShader`), `Sampler` and
`ChatTemplate` in `ChatRequest`, `Profiling`, `CommandLine`, `Loading`, the refinement of
`TokenDecoder`, and the plain calls of `ChatStream` and `PyStream`;
and the proofs: registry, cache, loop and text, endpoints, Python, GPU failures; then the
command line; then the decoder with its kernels and counters, the GPU's kernels and the sampler;
then the prompts and the bounds on the steps of requests and calls. Every invariant and
action property of the runs is a theorem.

Left: a callback of a Python program that calls into its own model, if the code should
ever detect it.

# Verification of MyNetty's access authentication

The repository holds two things: `Authentication`, a mutual password-based
authentication between client devices and a server (with an optional hardware
token, the Q-shield, on the client's side), and `my_netty`, a set of Netty
programs, among them a small custom protocol with login and heartbeat. The
authentication is the part with real concurrency, real failure handling and a
real correctness argument, and is modelled first; then comes the token: the transport to
it, because everything it does for the client goes through that, the driver's functions
on top of the transport, and the authentication that uses them.

## Inventory

Paths are abbreviated: `SRV` is
`src/Authentication/AuthenticationServer/src/main/java/cn/qtec/qkcl/access/auth/server`,
`CLI` the same for `AuthenticationClient/.../client`, `CSRC` is
`src/Authentication/AuthenticationClient/local/bin/src`, `NET` is
`src/my_netty/src/main/java/cn/zhp/netty`.

| component | state | operations | interacts with |
|---|---|---|---|
| `SRV/process/AuthenticationProcessor` | static `AUTH_ASSIST_MAP`: device to the nonces of its open exchange | handle a request (answer with salt, count and nonce), handle a client proof (check, establish a session, answer with a proof) | database (salt, hashed key), the transport framework's `CacheData` (connections), `PacketUtil` |
| `CLI/netty/AuthenticationClient` | the processor and the channels of the last attempt | `startAccessAuth` (synchronized on the client), `close` | a processor, the transport, the application's threads |
| `CLI/process/impl/LocalAuthProcessor` | static `AUTH_ASSIST_INFO_MAP`: device to nonce, key, latch, session, success flag | reset, handle a response, handle a server proof, wait for the session | channel threads and application threads, both at once |
| `CLI/process/impl/QShieldAuthProcessor` | static session and latch maps, never cleaned | the same four, computed by the token | the Q-shield through JNI |
| `CLI/netty/TimerTask` | a watch on the channels after success | poll every 2 s, shut the loop of a dead channel | `AuthenticationClient.channels` |
| `CSRC/HidTrans.c` | none between calls; the handle during one | open a token, send a PDU, gather the reports of the answer, check its header, close | hidapi |
| `CSRC/hid.c` (hidapi, libusb build) | one libusb context for the process; per handle a queue and a read thread | init, enumerate, open, write, read with timeout, close, exit | libusb, the token |
| `CSRC/Qkey.c`, `jni_QKeyService.c` | none (the token has the state) | start, answer and check an authentication, encrypt, update and confirm the root key, reset, restart | the token through `HidTrans`; Java |
| `CSRC/QkeyFile.c` | none (the token and the application have it) | log in to a token, store, fetch, acknowledge and delete keys for files | the token through `HidTrans`; `crypto.c` |
| `CSRC/crypto.c`, `aes.c` | the tables of AES and the flag that they are there, for the whole process | encrypt, decrypt | `QkeyFile.c`, on any thread |
| `SRV/utils/SessionMap`, `SocketChannelMap` | a map of sessions under two keys, a map of channels | add, get, remove | `AuthServerDisconnect`; nothing in the server adds a session |
| `PacketUtil` on both sides | client: root keys seen | wrap, unwrap, check | both processors |
| `NET/custom` | `nodeCheck` (logged-in nodes), heartbeat task | login, heartbeat, encode, decode | Netty pipelines of both ends |
| `NET/others/NodeStatusBuffer` | cached node entries and a count | add, age, remove, look up | web requests |

What is hard, and so what the properties are about:

* an attempt's state is filed under its *device* in a static map, while attempts,
  channels, processors and locks come and go: every look-up may meet the entry of
  another attempt;
* each attempt makes a processor of its own and registers it for all messages, so
  the `synchronized` of `processAuthencaition` protects only as long as the same
  instance stays registered;
* `await` does not say whether the proof came or the timeout fired, and a proof
  may come between the two;
* a request of a device overwrites the server's open exchange and closes the
  device's live connection; a reply that cannot be wrapped becomes a failure
  although the session exists;
* channels of an earlier attempt are used again when a new one cannot be made;
* the processor for the Q-shield learns which device a session belongs to from another
  call to the token, which begins a new exchange there, and files it when another
  attempt may have begun;
* a call to the token gives up on an answer that is late, and the token keeps it for
  whoever opens it next; errors come back as -1 in unsigned variables; every call ends
  with `hid_exit`, which belongs to the whole process;
* the root key is replaced in two calls, each of which may be lost, answered late or
  cut off, and a call takes the first answer that is left as its own;
* a token is addressed by its place in the enumeration, so that the next call may reach
  another one;
* the tables of AES are generated by whichever threads find the flag not set, at once.

What makes the components correct: the server establishes a session only with a
holder of the device's key, once per exchange; what a caller gets is the session
the server established for that very attempt; a failed attempt leaves nothing
open; every call returns, and succeeds when nothing goes wrong. An exchange with the
token returns what the token answered to it, gives the token back, and says when it
failed. Whoever keeps the root key never loses it; a key for a file is given for its own device, in order,
and is not stored any more once it is reported as acknowledged; what is encrypted is the standard's ciphertext. `PROJECT.json` lists the hazards with their lines and the property that covers each.

## Modules

| module | models | on top of |
|---|---|---|
| `AuthNetwork` | constants, transcripts, messages, the channels | |
| `AuthServer` | `AuthenticationProcessor`, the server's `PacketUtil` and the framework around it | `AuthNetwork` |
| `AuthClient` | `AuthenticationClient` (LOCAL) and `LocalAuthProcessor`, thread by thread | `AuthNetwork` |
| `AccessAuth` | the composition: `Next`, fairness, properties, the refinement mapping | `AuthServer`, `AuthClient` |
| `MutualAuth` | the abstract promise: begin, grant, succeed, fail | |
| `PacketCodec` | both `PacketUtil` and the layouts of the messages, byte by byte | |
| `MCAccessAuth` | small instances for TLC | `AccessAuth`, `PacketCodec` |
| `AuthServerProofs` | lemmas on the server and the messages, for both kinds of client | `AuthServer`, TLAPS |
| `PacketCodecProofs` | that what one side wraps the other takes apart, and damaged frames are refused, proved | `PacketCodec`, TLAPS |
| `AccessAuthProofs` | types, the agreement invariant, what callers get, the refinement of `MutualAuth` and the frames on their way, proved | `MCAccessAuth`, `AuthServerProofs`, `PacketCodecProofs` |
| `QShieldAuth` | `AuthenticationClient` (Q_SHIELD) and `QShieldAuthProcessor`, its properties, the refinement mapping | `AuthServer`, `MutualAuth` |
| `MCQShieldAuth` | a small instance for TLC | `QShieldAuth` |
| `QShieldProofs` | types, whose session a caller gets, and the refinement of `MutualAuth`, proved | `QShieldAuth`, `AuthServerProofs` |
| `HidApi` | hidapi's handles, queues, read threads and context; the token | |
| `HidTrans` | `HidTransSendRec` and all it calls, fairness, properties, the refinement mapping | `HidApi` |
| `TokenLink` | the abstract promise of one exchange with the token | |
| `MCHidTrans` | small instances for TLC | `HidTrans` |
| `HidTransProofs` | type correctness, the release of handles, whose answer a call returns, and the refinement of `TokenLink`, proved | `HidTrans`, TLAPS |
| `QKey` | `Qkey.c` and `jni_QKeyService.c`, with a keeper of the root key | `TokenLink` |
| `MCQKey` | a small instance for TLC | `QKey` |
| `QKeyProofs` | types, the keeper's knowledge and the order of keys, proved | `QKey`, TLAPS |
| `FileKeys` | `QkeyFile.c`, with its user and two tokens | `TokenLink` |
| `FileKeysProofs` | types, that keys and logins stay with their device, the order of keys, and what an acknowledgement is worth, proved | `FileKeys`, TLAPS |
| `MCFileKeys` | a small instance for TLC | `FileKeys` |
| `Aes` | `aes.c`: the tables, key schedules, blocks, CBC | |
| `Cipher` | `crypto.c` and the threads that generate the tables | `Aes` |
| `CipherProofs` | that the tables compute AES and take it back, that the chains are CBC, and what the threads do to the tables, proved | `Cipher`, TLAPS |
| `MCCipher` | a small instance for TLC | `Cipher` |

`HidTrans` is shown to implement `TokenLink`, and `QKey` and `FileKeys` are built on
`TokenLink` instead of on reports: what they say holds over the transport as far as the
transport keeps its promise. `QShieldAuth` uses the same promise in one step per call,
for one thread after the other; its threads never ask for the order of the reports.

### State and actions: access authentication

One *attempt* is one call of `startAccessAuth`. It draws one client nonce and
opens at most one channel, and the server draws one nonce for its request, so all
of them are named by the attempt. Cryptography is symbolic: client proof, server
proof and session key are functions of the same four values and are written as the
transcript of the four; two are equal exactly when the four are.

*Server.* `processAuthencaition` is synchronized on a singleton, so one message is
one step: `GenerateAuthResponse`, `UnknownDevice`, `AcceptClientProof`,
`RefuseClientProof`, and `RejectFrame` for whatever `unwrapAuthMessage` turns into a
failure. `Wrapped` is the choice `wrapAuthMessage` makes. The framework's part
(`RegisterConnection`, `Disconnect`, `LoseConnection`, `ServerRestart`) is external:
its code is not in the repository.

*Client.* The application thread of an attempt is `pc`, `entry`, `result`; the
thread of a channel is `task`, `proc`, `msg`, `found`, `computed`. A step is one
access to the shared map or to an entry in it: `ReadNonceAndKey`, `LookUpEntry`,
`SetSessionInfo` and `PutEntryAndSendProof` are the four accesses of
`calculateClientProof`, `LookUpForProof`, `CheckServerProof` and `Succeed` those of
`checkServerProof`, `GetEntry`, `Awake`/`Timeout`, `RemoveEntry` and `ReturnSession`
those of `getSessionInfo`. `Locked` is the monitor of one processor instance.
`setSuccess` and `countDown` are one step: the code between them reads nothing, and
a caller that wakes up in between has been woken by the timeout, which another
interleaving shows. Every channel has one thread, so its messages are handled one
after the other.

`established` and `delivered` are history variables: all the sessions the server has
established, all those the client's processor has handed to the transport.

### Messages as bytes

`PacketCodec` has no state: an operator for each function of the two `PacketUtil` classes
and for each layout the processors build or take apart, the client's and the server's
apart as in the code, where each side has code of its own for the same bytes. A byte is a
number from -128 to 127 when the code computes with it, and otherwise the name of a
field with a place in it. CRC and AES are functions of what they are computed over;
AES keeps its length, a whole number of blocks. What a side may take a frame for is
a set, empty if the frame is refused, be it by a check or by an exception.

`MCAccessAuth` puts it under the messages of `AccessAuth`: whatever is on its way there must
be right as bytes. `FramesUnderstood` says that neither side refuses what the other sends and that both
compute proof, session key and session ID over the same bytes. This is not plain from the
code: the data's length is one signed byte, and the longest device ID with encryption makes
4 + 16 + 96 = 116 of 127; the iteration count (`smallint unsigned` in the database)
travels big-endian and is hashed little-endian, by three functions; without encryption the
client takes the CRC for a part of the server's nonce (`PacketUtil.java:189` of the client)
and later uses 32 bytes of it. It is the reason why `AccessAuth` loses frames only to the
fault that rejects them, and why run `succeeds` needs none of it. `BrokenFramesRefused`
says that a frame with a byte altered, lost or repeated, or cut short is no message; a real CRC-32
tells apart any two frames that differ in four consecutive bytes, and the length of the data does the rest.

Two things there have no effect: the client reads the message's length little-endian
(`PacketUtil.java:181`) and uses it nowhere, and a server that cannot wrap its reply answers with
a failure of the next message type (`PacketUtil.java:130`), which the client refuses by its type.

### State and actions: HID transport

One *call* is one call of `HidTransSendRec`; `Arg` says by which thread it is made, with
which index, function, length of data and room for the answer, and how long the token's
answer to it is. `pc` follows the call: `open` (`OpenDevice`, `DeviceNotFound`,
`InitFails`, `OpenFails`), `send` (`SendPDU`, `SendFails`, `SendCutShort`), `recv`, the
loop of `HidTransReadData` (`ReadReport`, `ReadTooMuch`, `ReadTimesOut`, `ReadFails`),
`check` (`CheckAnswer`, `CheckGarbage`), then `close` and `exit`. `CloseDevice` and
`ExitHid` are two steps, for a thread may come between `hid_close` and `hid_exit`.

*Data.* Lengths count units: a PDU is `TransLen` (255 bytes in the code), its header
`HeadLen` (6), the state at its end `StateLen` (2), the report ID `IdLen` (1), a report
at most `PacketLen` (64). A report is a packet: the call whose answer it belongs to, its
place and length in that answer, and whether the token agreed. That is enough to tell a
header from data (`at = 0`), a hole from none, one answer from another, and it is all
`Verdict` needs for the checks of `HidTransDataDelHeader`. A report from the middle of an
answer is refused there as no header, unless the fault `alias` makes it read as one. The
comparisons of -1 as an unsigned number are modelled by their outcome, one action for
each (`SendFails`, `ReadFails`).

*hidapi.* `claim` is the handle open on a token, `queue` and `shutdown` belong to it,
`context` is the libusb context and `orphans` the calls whose handle outlived it. The
read thread moves one packet at a time, at any moment. Using a handle after its context
was freed is undefined: the call may go on or crash (`UseAfterExit`), and a crash ends
the process (`Alive`). A second open of a claimed token fails.

*The token* is external: it executes requests in order, agrees or refuses, keeps its
answer until it is read, and forgets everything when it is unplugged.

*The mapping.* `Link(d)` is what `TokenLink` sees of token `d`. Its call is the one that has the
token open (`LinkCall`), with `begun`, `sent`, or the verdict once there is one; its
requests are those the token has not executed; its answers are those that begin among the
packets the open call has gathered, the read thread has queued and the token has still to
send (`Replies`: the k-th answer is that of the k-th packet with `at = 0`). The end of an
answer whose beginning was read is nothing to `TokenLink`. `ImplementsTokenLink` says that every
step is a step of every token's link, or leaves that one alone.

Simplified: enumeration and opening are one step; allocations do not fail; a token is
plugged in again only after the handle that was open on it has been closed; a request
whose `hid_write` returned -1 or too little was not received.

### State and actions: authentication with a Q-shield

`QShieldAuth` has the server, channels and messages of `AccessAuth` and a client of its
own. The application thread of an attempt is `pc`, `started` (device and nonce
that `genStartInfo` gave), `latch` and `result`; the thread of a channel is `task` and
`got`. `sessionMap` and `latchMap` are the two static maps, and each access to them is a
step: `ResetSession`, `ResetLatch` (the two lines of `reset`), `GetLatch`, `GetSession`
(`getSessionInfo`), `PutSession`, `CountDown` (`processAuthencaition`). An
`AuthClientSessionInfo` without session ID is `None`. Nothing but `startAccessAuth`
is synchronized, and the model has no other lock.

A call of the token is one step: it executes or fails, takes the first answer that is
left (null, if that is one to another function), and leaves the others in `late`.
`genStartInfo` always begins a new exchange. `GetDeviceID` is the call of it in the
handling of a server proof, only for the device ID: its nonce goes nowhere. If it gives
null, the handling ends and the session, which the server has established, is lost.
`Exchange` replaces the token by another one, or by itself, at any moment.

Here a nonce is not an attempt's but the token's, and there are more of them than
attempts, so they are numbered in the order of drawing; `Caller` names the attempts, their
channels and their latches. `Wrapped`, frames and the server's registration are those of
`AuthServer`; the client's own framing cannot fail on this path.

### State and actions: the driver of the Q-shield

*Keys and authentication* (`QKey`). A native method is a guard-and-send action
(`genAuthInfo`, ..., down to `SendRec`, which is `TokenLink!Begin` or a failure) and an
action at its end (`GotAuthInfo`, ..., over `TokenLink!Return`). Between them the steps
of `TokenLink` and of the token interleave with other threads' calls. Kept of the data:
the root key, numbered in the order of their making; the lengths that are cut to a byte
in the JNI code (`Byte`) or checked against room (`StartInfoFits`, ...); `Garbage` for what
is read from an array that has been released, or cut. The token replaces its root key
only by a confirmed candidate, which it may forget when it is restarted or unplugged;
that much its interface's comments say. The keeper is an application: it notes the key it
is about to confirm (`trusted`), learns what its calls return, and must always know which
keys the token may have. The process may be killed between any two steps (`Crash`); what
the keeper has noted survives.

*File keys* (`FileKeys`). One action per function of `QkeyFile.c` and one for its end,
which checks version, device ID and, by decrypting, the login (`CheckHead`, `CheckDevId`,
`Decrypts`). Two tokens take each other's place; a token obeys only requests under its
own login, gives its first key until it is acknowledged by its ID, and forgets logins when
unplugged. The user stores one or two keys at a time, and notes which keys were reported as
acknowledged (`acked`). An acknowledgement brings nothing but a result: the call takes the first answer to
any acknowledgement that is left, and cannot see whose it is (`GotAck`). The token says of no
key it has not just dropped that it has dropped it, and refuses an acknowledgement that is repeated. Nothing in the
repository calls these functions, so the user of the model calls whatever it has the arguments for.

*Encryption* (`Aes`, `Cipher`). `Aes` computes what `aes.c` computes, by the same tables; a
word is the tuple of its bytes. A loop (of powers, words of a schedule, rounds, blocks) is
`Steps(G, x)`, a recursive function of the number of steps done, where `G[n]` is step n: a
function like this can be reasoned about, and evaluated. `Cipher` has the threads: `Checks` reads
`aes_init_done`, `aes_gen_tables` fills one group of tables after the other (`RCON`, the
S-boxes, the tables of words), `Sets` sets the flag. Every thread that finds the flag not
set writes the same values, so a group once filled stays right while it is written
again. Memory is taken to be sequentially consistent: the library's flags in the Makefile
ask for no optimisation, and x86 keeps the order of stores. `StandardBlock` and `StandardCBC`
are the standard's definitions, on columns and without tables of words, with the constants
that `aes.c` keeps for its ROM.

`Aes` ends with four assumptions. None is about a parameter: they are finite facts about the 256
bytes that TLC computes at the start of run `cipher` and the proofs use. The
generated S-boxes and round constants are those that `aes.c` lists for its ROM (`TablesOfRom`); `RSb` is the inverse of
`FSb` (`SubstitutionInverse`); multiplication by 9, 11, 13 and 14, through logarithms, is
linear (`MulLinear`) and takes back the factors 2, 3, 1 and 1 (`ColumnsInverse`).

Seen while modelling, and in no property: the failing paths of `genAuthInfo` and
`checkAuthInfo` (`jni_QKeyService.c:105-108`, `143-146`) do not release the array's
elements; `encryptQuantumKeys` copies more than 1022 bytes into a buffer that holds less
before the transport refuses them; `SetUserName` copies as many bytes of the name as it is
told and encrypts 32; the length an answer's header states is not compared with what was
received; `AesDecrypt` believes any length of padding. No Java code in the repository calls
`encryptQuantumKeys`, `decryptQuantumKeys`, `updateRootKey` or `confirmRootKey`.

Operators called *Faulty variant* describe plausible bugs. They take part in no
specification; the mutants in `PROJECT.json` put them in place of the operator they
follow, to see that a property notices.

## Runs

The runs on `MCAccessAuth` and `MCQShieldAuth` check the access authentication, those on
`MCHidTrans` the HID transport, the last three the driver. Deadlock is checked in `cipher`,
where every thread can always go on; the other systems stop when every attempt or call has
returned, or when the numbers that bound them are used up.

| run | instance | shows |
|---|---|---|
| `retry` | 2 attempts, 1 device, 1 client, all 10 faults of the local mode, fairness | `TypeOK`, `CallerAgreement`, `FailureClosesChannel`, `RemovesOwnEntry`, `AttemptsReturn`, `ImplementsMutualAuth`: the system refines `MutualAuth`; and the invariants behind them, `ChannelInv` and `ExchangeInv` |
| `shared` | 2 clients on 1 device, one with a wrong key; timeouts, failing sends, rejected frames, unwrappable replies | `AgreementInv`, `ServerAgreement`, `SpentNoncesForgotten`, `OneSessionPerNonce`, `DeliveredIsEstablished` without any assumption on who shares a device |
| `succeeds` | 3 attempts on 2 clients, the third of a device the server does not know; no faults, fairness | `GenuineAttemptsSucceed`, although the third attempt, which holds the shared processor's lock in its turn, is never answered; `FramesUnderstood`, `BrokenFramesRefused` |
| `overlap` | 2 clients on 1 device, timeouts | `RemovesOwnEntry` is *violated*, see below |
| `qshield` | 2 attempts of 1 client, 2 tokens, 4 nonces; timeouts, interrupts, failing connects and sends, calls to the token that fail or are answered late, tokens exchanged; fairness | `TypeOK`, `OwnSession`, the invariant `FreshInv` behind it, `ImplementsMutualAuth`, `AttemptsReturn` |
| `hid_stale` | 3 calls by 2 threads, answers of different lengths, late answers, failing writes | `TypeOK` (no report runs over the buffer), `AnswersRequest`, the invariant `AnswerInv` behind it, `ImplementsTokenLink`: the transport refines `TokenLink` |
| `hid_threads` | 2 threads, 2 tokens; late answers, unplugging, short writes, data that reads as a header; fairness | `HandleReleased`, `CallsReturn` |
| `hid_exit` | 2 threads, 1 token, no faults | `ContextOutlivesHandles` is *violated* |
| `hid_read` | 3 calls, unplugging | `ReadErrorsReported` is *violated* |
| `qkey` | the keeper and 1 other thread, 3 root keys; lost requests, late answers, unplugging, crashes | `TypeOK`, `RootKnown`, `KeysAdvance` |
| `filekeys` | 2 tokens, 2 logins, batches of 2 and (refused) 3 keys; late and malformed answers, tokens that change places | `TypeOK`, `OfItsDevice`, `KeysInOrder`, `AckedIsDropped` |
| `cipher` | 2 threads; texts of 0, 15, 16 and 17 bytes, keys of 32 bytes and one of 16; samples of all key lengths | `TypeOK`, `CipherRight`, `RoundTrip`, `TablesRight` |

Bounds. `FramesUnderstood` is checked for every length of device ID the client allows (5 to 25), both
algorithms, and iteration counts on either side of where a byte changes its sign or is full;
`BrokenFramesRefused` for the shortest and the longest device ID. `Attempt` is the only bound on behaviours of the local authentication: each attempt
is one call, with one request, and every other counter follows from it. Two attempts are
what every race needs: an entry and the one that replaces it, a channel and a later one.
In `qshield` each of the two attempts draws one nonce and each server proof that is handled
another, which makes four; one answer may wait in a token between calls (`Backlog`), enough
for a call to be given that of its predecessor. With lost connections and unwrappable
replies the same instance has 370,000 states and keeps all its properties; the run leaves
these two to `retry`, whose server is the same.

`Call` is the only bound on behaviours of the transport: two calls are an answer left
behind and the one that finds it, the third reads what a mixture of both has left.
`TransLen` 5 with reports of 2, 2 and 1 has the shape of 255 with 64, 64, 64 and 63, where
the last report is shorter than the others; a header of 2 fits into the first report, as 6
do. `QueueLimit` is that of the code and out of reach: with three reports to an answer, 30
of them take more calls than an instance has. `hid_stale` with unplugging as well has
1.65 million states and keeps its properties, but takes longer than a run should.

`MaxKeys` 3 in `qkey` gives a key in use, a candidate and one that replaces the candidate;
the keeper calls while fewer than three requests and answers are left behind, the other
thread when none is (`Backlog`): two given-up updates and the confirmation after them are
in the queues at once.
`filekeys` has one batch of two keys, an older and a newer one, on either token, two
left-behind messages, and two logins, so that an old one and a new one meet on one token or
one on each. Two requests or answers left behind are an acknowledgement given up and repeated, or the one
of the second key that meets the answer to that of the first. In `cipher` one ciphertext is made before all else that is decrypted
(`MaxSealed`); the texts lie on either side of a block's end, and 32 bytes is the only
key length that `Encrypt` does not refuse.

The `Faults` constants select what the environment may do, so that each run ends within
minutes.

Fairness. `AccessAuth!Fairness`: the JVM runs its threads; `await` has a timeout of 5 s,
so `Timeout` is part of the fair `CallerStep`, where the constant `Faults` admits it; the
server handles what it receives and the framework registers and disconnects.
`QShieldAuth!Fairness` asks for less: only the client's threads run, and calls to the token
return, for `hid_read_timeout` has a timeout; the timeout of `await` does the rest.
`HidTrans!Fairness`: threads run, the read thread among them; for the same reason
`ReadTimesOut` is part of the fair `CallStep`; a token that is plugged in
answers what it received. Starting an attempt or a call and every fault are left free.
`QKey`, `FileKeys` and `Cipher` state no fairness: their calls have no loops but that of
the transport.

### Findings

`overlap`: `LocalAuthProcessor.getSessionInfo` removes the entry of the device after
the wait, whatever it is (line 161), under the comment "移除认证完成的信息" (remove the
information of the completed authentication). With two `AuthenticationClient`s on one
device, which nothing in the code prevents and whose map is static, the entry removed
is that of the other, unfinished attempt, which then fails. With one client per device
(`OneClientPerDevice`, true in every other run with caller properties) the
synchronized `startAccessAuth` prevents it: `retry` shows that.

`hid_exit`: `HidTransCloseDevice` calls `hid_exit` after every exchange (`HidTrans.c:142`),
which frees the libusb context of the process. `hidapi.h:100-102` says that it "should be
called at the end of execution"; another thread may have its token open then. The Java
side calls the token from the application's threads and from channel threads.

`hid_read`: `HidTransReadData` keeps the result of `hid_read_timeout` in an unsigned
variable, where -1 (`hidapi.h:220-222`) passes for a number of bytes (`HidTrans.c:260`). Before the first report the sum with `nRecvCount` is
larger than the buffer and the call fails with the wrong error; after it the sum is
smaller, and `memcpy` is called with the length -1.

In the same way `HidTransWriteData` asks whether the result of `hid_write` is less than the
length (`HidTrans.c:235`), and -1 is not: the call goes on to read, and succeeds if a late
answer of an earlier call is there. `SendFails` is that case; `AnswersRequest` and
`TokenLink` allow it, since an answer may be found for a request that was lost.

`GetFileKeysAck` is told a device and a key, but returns `QK_SUCCESS` for the first answer to any
acknowledgement it finds (`QkeyFile.c:519-525`), and has no device ID to compare, as the functions
that read their answer do. `AckedIsDropped` says that this is good enough while the user has had the keys of
one token only (`Alone`). Without that condition TLC finds, with one key on each of two tokens, 52 states
at the end of which it is not: the call for one token reaches the other, which has its
place, where the answer to an acknowledgement that was given up waits; it reports success, and the
key it was about is still stored and will be given again.

`QShieldAuthProcessor` files a session under the device that is plugged in when the server's
proof is handled. `OwnSession` holds for one client, whose `close` waits for the channel's
thread before the next attempt; two clients on one token share exchange, session and latch,
and TLC finds a caller among them that is given the other's session.

## Proofs

`AccessAuthProofs` holds for every value of the constants that
satisfies the assumptions of `AuthNetwork`: the parameters have their types, and
`None` is neither a value of any of the sets nor a transcript nor a message.

* `TypeCorrect`: `Spec => []TypeOK`. `TypeOK` is inductive because of its conjunct
  `LocalsOK`: an entry, session or message a thread is about to use is never null.
* `AgreementCorrect`: `Spec => []AgreementInv`, the strengthened invariant.
  `ServerAgreement` alone is not inductive: the session a proof establishes is right
  only because the proof on the wire was computed from one entry
  (`EntriesFiledByDevice`: the transcript has the device and the key of the attempt
  whose nonce it has, whichever entries the handler met), and because the nonces the
  server remembers were sent by that attempt (`ExchangesFresh`), which in turn needs
  each nonce to be in one place only: in a request, then in an exchange, then in a
  session (`RequestsFresh`). `ProofsEstablished` follows a server proof from the wire
  to the handler and to the transport.
* From it: `ServerAgrees`, `NoncesSpentOnce`, `SpentForgotten`,
  `DeliveredEstablished`, each the property of the same meaning that run `shared`
  checks. None assumes one client per device.

The proof has one lemma per part of the invariant that says what leaves it alone, and
one lemma per thread: caller, handler, server. `AuthServerProofs` has what the proofs of both
clients say of the server: the types of what it writes, which of its maps a step changes,
and that each message it sends answers one it took.

The second part of the module is about the callers, under the same assumptions.

* `ChannelsCorrect`: `Spec => []ChannelInv`, however many clients share a device. The
  attempts of a client take turns (`startAccessAuth` is synchronized), a client's channel was
  opened by one of its own attempts, and an attempt leaves its channel open only to return a
  session. `FailureCloses` follows: a failed attempt has left nothing open, although
  it may use the channel of an earlier attempt when it cannot open its own.
* `ExchangesCorrect`: `OneClientPerDevice` implies `Spec => []ExchangeInv`. Whatever
  is under way is in one place, a message on an open channel or the thread of that channel, and the
  attempt it is of is still waiting (`MessagesOwned`, `HandlersOwned`); from `reset` to its end the
  map has an attempt's own entry or none (`EntriesOwn`); a session is the attempt's own
  and on the server's list (`SessionsOwn`). The point is that the thread of an earlier attempt
  cannot be found running when the next attempt resets the entry: `close` closes the channel
  and waits for its thread, and a channel that stays open belongs to an attempt that
  succeeded, whose exchange has no message left.
* From it: `CallersAgree` (`CallerAgreement`), `OwnEntryRemoved` (`RemovesOwnEntry`), and
  `Implementation`: `Spec => ImplementsMutualAuth`, every step being one of `MutualAuth` or a
  stutter. All three need the hypothesis: run `overlap` breaks `RemovesOwnEntry` without it.

The last part is about the bytes: `FramesCorrect` (`FramesUnderstood`) and `DamageCorrect`
(`BrokenFramesRefused`) follow from `TypeCorrect`, which says what can be on its way, and from
what `PacketCodecProofs` proves of each kind of frame. The module extends `MCAccessAuth` for the two
properties; the instances' constants are used nowhere.

`PacketCodecProofs` assumes nothing. It takes device IDs of 5 to 25 bytes and nonces, salts and
proofs of 32, of whatever elements, and any set of keys the server knows that has the one used.

* `RequestsUnderstood`, `ServerProofsUnderstood`: the receiver gets the fields that were put in,
  encrypted or not. `ResponsesUnderstood`: what the client takes the response for leads it to the
  same bytes for proof and session key and to the same session ID, for every iteration count of two bytes
  (`Shorts`: the four ways to write one agree up to their order) and although the CRC
  has become a part of its nonce (`SixParts`, `SameID`).
* `DamageRefused`: a frame with a byte altered, lost or repeated, or cut short, is refused by every receiver,
  whatever it carries. The byte of the length tells if the frame has another length, since the bytes that
  may have moved into its place are never the length that it has then; otherwise the CRC tells.

Both sides' frames are first shown to be the same (`ClientWraps`, `ServerWraps`: header, key ID,
message, CRC); `FrameRight` says what a receiver finds in such a frame. Lengths, cuts and
regroupings of sequences have named predicates (`LenIs`, `IsCut`, `Regroups`), under which the provers
take them as they are instead of element by element.

`QShieldProofs` holds for every value of the constants that satisfies the assumptions of
`AuthNetwork` and `QShieldAuth`.

* `TypeCorrect`: `Spec => []TypeOK`.
* `FreshCorrect`: `OnlyOneClient` implies `Spec => []FreshInv`. A session is filed under
  whichever device is plugged in, for whoever waits there, so that nothing in the processor ties it to
  the attempt; what does is the order of nonces. The token draws a new one for every exchange,
  those an attempt did not ask for included (`GetDeviceID`), and checks proofs of the last one
  only (`TokenFresh`). Answers the token gave too late lie in the order of their nonces, and none is older
  than an exchange some attempt has gone on with (`AnswersFresh`, `StartsFresh`). The server meets only
  nonces with which an attempt has sent a request (`ServerFresh`), and a proof or
  session under way is not older than the attempt that waits (`MessagesOwned`,
  `HandlersOwned`). So what is filed is of the nonce of the attempt under way.
* From it: `SessionsAreOwn` (`OwnSession`) and `Implementation` (`ImplementsMutualAuth`), under
  the same hypothesis. It is needed for the invariant: `startAccessAuth` is synchronized for
  each client, and with two clients on one token TLC finds, in 22 states, a caller that is given
  the session of the other's attempt.

`HidTransProofs` holds for every value of the constants that satisfies the assumptions of
`HidApi`: lengths are natural numbers with `StateLen` at least 1 and a header that fits
into one report, an answer is at least a header and at most a PDU, tokens are numbered.

* `HidTypeCorrect`: `Spec => []TypeOK`. The conjunct `LocalOK` makes it inductive: a call
  between open and close has a token, what it has gathered fits the buffer, and it checks
  only a buffer that has a report in it, which takes `HeadLen > 0`: `ReadTimesOut` goes on
  to the check with at least a header. The lemmas say that packets stay packets on
  their way from the answer through the token and the queue into the buffer.
* `NoHandleLeaks`: `Spec => []HandleReleased`. `HandleReleased` is inductive as it stands,
  given types: every way into `done` passes through `close` or has never opened.
* `AnswersCorrect`: `Spec /\ []NoOverflow => []AnswerInv` if `alias` is no fault. What the token
  has not handed over yet (its fifo), what the read thread has queued and what the call
  that reads has gathered are one stream of packets (`Stream`), in which answers follow one another whole,
  except that the first may have lost its beginning to a call that gave up, and which ends where
  an answer ends while the token is plugged in (`AnswersInOrder`). A packet is of a call on this
  token that has sent, and says what the token did (`PacketsOwned`); the beginning of
  an answer is handed over once (`FirstsOnce`); a request waits once and until it is executed
  (`RequestsOnce`). So a call whose buffer begins with a beginning has one answer without a hole, whose
  length is `nRecvCount` until it is complete (`GatheredInOrder`); this is why comparing the length in the header
  with the number of bytes is enough (`SuccessRight`).
  Two calls are on one token one after the other (`HandlesHeld`), so that whoever reads the beginning of
  another's answer comes after a call that gave its token back without reading it and
  fails (`FailureFirst`).
* `AnswersAreRequested`: `Spec /\ []NoOverflow => []AnswersRequest`, under the same condition.
* `TokenLinkImplemented`: `Spec /\ []NoOverflow => ImplementsTokenLink`, under the same
  condition, and `EachTokenIsALink` the same for one token as `Link(d)!LinkSpec`. There is one lemma per
  action. Most of them come down to what happens to `Replies` of a stream of packets: the
  beginning of an answer has a rank among the beginnings, which a packet added at the end or
  taken away at the front leaves or shifts by one, so that sending a whole answer appends
  one reply, and giving up or closing the handle leaves a suffix of the replies. `AnswerInv` says
  that the buffer a verdict is given on begins with at most one beginning, and whose that is; in addition a call
  that ends refused must have read something (`RefusalRead`), for the mapping names whose
  refusal it was. `NoneIsNoCall` keeps an idle token apart from one with a call.

Neither condition can go: with a limit of 0 reports in `QueueLimit`, or with the fault `alias`, TLC
finds `AnswersRequest` violated. `[]NoOverflow` says that `read_callback` has never dropped a
report, which it does beyond 30 that nobody has read; a hole at the end of one answer and the beginning
of the next then make up a whole. `alias` stands for data that happens to read as
a header of the right function. `Failed` counts a call from its `hid_close` on, because
another thread may open the token and find the answer before the first has come to `hid_exit`.

`QKeyProofs` holds for every number of threads, root keys, lengths and left-behind messages,
under the assumptions of `QKey`: the keeper is one of the threads, and the values that
stand for nothing, for garbage and for a refusal are told apart from the others. It rests
on what `TokenLink` promises.

* `Typed`: `Spec => []TypeOK`.
* `RootIsKnown`: `Spec => []RootKnown`, and `KeysOnlyAdvance`: `Spec => KeysAdvance`. Neither is
  inductive: a root key may be on its way to the keeper and a confirmation of an older one
  on its way to the token. `IInv` follows both. `AnswersInv`: the answers that wait hold root
  keys newer than the keeper's, in the order of their making, and no key comes before a
  confirmation. `OnTheWayInv` says the same of a key that a call has taken and not yet
  returned. `RequestsInv` and `CallInv`: what is asked to be confirmed is the keeper's key, an
  older one it has noted, or garbage. `QuietInv`: after a request that confirms the keeper's
  key no other request can change the token's key. `SettledInv`: while a positive answer to a
  confirmation is anywhere between the token and the keeper, the token's root key is
  the keeper's, and will be after all the requests that wait. `OwnerInv`: these calls
  are the keeper's.

The proof has a lemma for each way in which queues change (shortened, appended to, emptied),
since most actions of the driver and the token are one of these, and one step per action in
the preservation of `IInv`.

`FileKeysProofs` holds for every number of tokens, calls, logins, keys, batches and left-behind
messages, under the assumptions of `FileKeys` and what `TokenLink` promises.

* `TypeCorrect`: `Spec => []TypeOK`.
* `KeysAndLoginsOfTheirDevice`: `Spec => []OfItsDevice`; `KeysComeInOrder`: `Spec => KeysInOrder`. The inductive `IInv` says where the numbers
  of logins and keys may be. `LoginsInv`: no number is met as the login of two
  devices, be it in a token, at the user, in an answer or in the call. `KeysInv`: the keys of a device stand in
  tiers, each before the next: the one the user has, the one a call brings, those in answers,
  those the token stores, those requested to be stored, those of a call that has not been
  sent; and in order, without repetition, within a tier.
  `BodiesInv` gives the messages the shape their readers take for granted, and that what is acknowledged
  was had; `SuppliedInv` that a new key is the newest. A token that took the place of another answers
  with its own ID in what it says, so that no action needs to know which token is plugged in.
* `AcknowledgedIsDropped`: `Spec => []AckedIsDropped`. The acknowledgement that succeeds may be
  answered by the answer to another, so that what counts is where such an answer stands. `Settled` says, of a token
  whose keys are the only ones the user has had (`Alone`, which can only cease), that
  while one waits, whatever key is had or still to be read of before it is not stored any more (`Live`, `AcksAfter`):
  when the token drops a key, that key is the first of those stored, each was stored once, and no other that is stored has
  been given; a key given later is answered later, so that the call that acknowledges it has read past
  the older answer. The condition cannot go, see the findings.

`CipherProofs` holds for every set of threads, every set of texts and keys that are sequences of
bytes, and every `MaxSealed`, given what TLC computes of the 256 bytes.

* `BlockRight`: for every key of 16, 24 or 32 bytes and every block, `aes_crypt_ecb` over the
  generated tables and the schedule of `aes_setkey_enc` is the cipher of FIPS 197, and over the schedule of `aes_setkey_dec` it takes
  that back. From the bottom up: the exclusive or is a commutative group with itself as inverse, shown on the eight bits;
  with that, sums of four and of sixteen bytes can be rearranged, so that the inverse columns are linear and,
  by `MulLinear` and `ColumnsInverse`, take back the columns; a table round is substitution, shift and columns at once (`FRoundRight`), and a
  round back with the transformed keys takes back the round it stands opposite to
  (`UnmixOfMix`, `RRoundRight`). The state after r rounds back is, substituted and shifted, the state
  after nr - 1 - r rounds forth, which is the induction of `EcbBack`. `ScheduleRight` has the three
  cases of the key's length in one.
* `EncryptRight`: `aes_crypt_cbc` encrypts every text of whole blocks as the standard's CBC, under every key and
  with every initial vector, although `crypto.c` has none but the block of zeros (`Iv`);
  `DecryptRight`: and decrypts it again. The buffer's bytes and the blocks they make up are put
  in each other's place (`BlockOfBytes`, `BytesOfBlocks`).
* `CipherInvariant`: `Spec => []CipherInv`. Tables only ever fill: `Seen` says which groups a thread may rely on
  by the place it is at, because it filled them or found `aes_init_done` set, which is never set before
  all are filled (`TablesInv`). So a context is always of the complete tables (`CallInv`), and a
  ciphertext that was returned is the standard's (`SealedInv`).
* From it: `CipherTypeCorrect` (`TypeOK`), `CipherIsStandard` (`CipherRight`), `DecryptTakesBack`
  (`RoundTrip`), `TablesAreRight` (`TablesRight`: who schedules a key or goes through the rounds finds
  all tables generated, and goes through them with the standard's round keys for its key, in either
  direction; once `aes_init_done` is set the tables are those of the ROM, and with them a block under each
  sample key becomes the standard's and comes back).

Induction is by the least number that is not in a set (`SetInduction`, from the
well-foundedness of the naturals), since the library's induction theorems take an operator; what
`Steps` computes follows from it (`StepsRight`, `StepsKeep`, `StepsAgree`).

Only model-checked:

* Liveness (`AttemptsReturn`, `GenuineAttemptsSucceed`, `CallsReturn`): the prover has no
  fairness and no `ENABLED`.

## Plan

Next, in this order:

1. `CustomProtocol`: both pipelines, login, duplicates, heartbeat, disconnect, and the
   codec without frames.
2. `NodeStatus`: ageing and removal against a clock; the count beside the list.
3. `ClientLifecycle`: the channel watch, `close` without channels.

## Not modelled

The JDK's PBKDF2, HMAC and AES and their wrappers, and the polynomial of the CRC (symbolic in the models),
the standalone `AuthenticationServer` (its handler is commented out), the registry of sessions in
`SRV/utils` (nothing in the server adds a session to it; `AuthenticationProcessor` hands sessions to the
framework's `CacheData`), Netty
bootstraps and tutorial servers, generated protobuf classes, the parts of hidapi that
`HidTrans.c` does not use and its Windows build, the parts of `aes.c` that are not
compiled or not called (tables in ROM, CFB, CTR, the self test, PadLock), the contents of
names, PINs and device information, the exercises in `src/my_algorithm`. Two details of the transport are in the model and in no
property: the limit of 30 reports in `read_callback` (`hid.c:773`), which takes more calls
than an instance has, and the two bytes after the payload that `HidTransDataDelHeader`
copies with it (`HidTrans.c:218`), whose values are not modelled. The channel watch (`TimerTask`) shuts
the loop of a channel that is closed already, which the models' clients can do nothing with.
Three hazards of modelled parts have no property in `PROJECT.json`: that a
request closes the device's live connection before anything is authenticated
(`AuthenticationProcessor`), of which nothing in the code says that it should not; and the two arrays of the JNI code, of which one is cut and one read after its
release; `QKey` has both, but that a key which comes to the token in that way does no harm is assumed of the token.
What else is left out is in the plan above.

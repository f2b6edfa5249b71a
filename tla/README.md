# A verification of the token-authenticated messaging system

The repository holds four programs that talk TLS over TCP: a **client** a user types
into, a **proxy** that logs the client in and checks its token before each message, an
**authentication server** that issues tokens and keeps them in SQLite, and a **server**
that answers messages. This directory models them in TLA+, checks small instances with
TLC, and proves with TLAPS, for instances of every size, the safety of the authentication
server, of the four programs together, of the accept loop, of the TLS client object, of the
byte loops under them and of the database provider with its log.

    client --9090--> proxy --8081--> auth_server --> SQLite
                       \----8080--> server

Paths below are relative to `src/`. Comments in the modules write the name of the flowchart
`Схемы_Витек.drawio` as `Cxemy_Vitek.drawio`, since modules are kept in ASCII.

## 1. The system

| component | code | state | operations | modelled in |
|---|---|---|---|---|
| authentication server | `auth_server.cpp` | per thread: locals of `handleClient`; shared: the database | AUTH, VERIFY with renewal, invalid request, end of connection | `AuthServer` |
| token database | `db/sqlite3_provider.cpp` | table `tokens(username, token, ttl)`, both names UNIQUE; table `users` | `insert` (also used for DELETE), `isUserExists`, `getTokenTTL`, `getUsernameFromToken`, `update`, `remove` | `AuthServer` (the table of tokens), `Provider` (results) |
| logger | `utils/logger.cpp` | one per provider; `localtime`'s static buffer, the file | `log` | `Provider` |
| user administration | `sqlite3_user.cpp` | the table of users | `createUsersTable`, `addUser`, `verifyUser` | `Provider` |
| token manager | `utils/token_manager.cpp` | none | `generateToken` (a function of the username alone) | `Protocol` |
| proxy | `proxy.cpp` | per session: three connections, the token | login, then per message: parse, compare token, VERIFY, forward, reply | `System` |
| client | `client.cpp` | its token | connect, login, messages, exit | `System` |
| server | `server.cpp` | none | echo | `System` |
| TLS connections | `tcp_ssl_server.cpp`, `tcp_ssl_client.cpp`, `secure_socket.*` | descriptor, SSL object, context | Send, Receive, Disconnect | `TlsLink` |
| TLS client object | `tcp_ssl_client.cpp`, `tcp_client.cpp` | status, descriptor, SSL object, context | Connect, Send, Receive, Disconnect, destructor | `SslClient` |
| accept loop | `tcp_server.cpp`, `tcp_ssl_server.cpp`, `secure_socket.cpp`, the three `main`s | listening socket | Listen with any delay, TLS handshake, start of a thread | `Listener` |
| byte streams and timeouts | `tcp_server.cpp`, `tcp_client.cpp`, `tcp_ssl_server.cpp`, `tcp_ssl_client.cpp` | the locals of a call | the loops of Send and Receive, Set*Timeout | `Streams` |
| socket helpers | `socket.cpp` | none | SelectSocket, TimevalFromMsec | `Listener`, `Streams` |
| certificate script, Makefile | | | | no |

**How they interact.** A client connects to the proxy; `main` of the proxy accepts, does the
handshake itself and starts a thread. The thread opens a connection to the authentication
server, relays the client's AUTH, takes *whatever text comes back* for the session's token,
sends it to the client, and opens a connection to the server. For each message it compares
the token in the text with its own, asks the authentication server to VERIFY it, forwards
the message and relays the answer. The authentication server runs a thread per connection;
the threads share one `SQLite3Provider` and no lock. All calls block, without timeouts.

**What is hard here.** Three or more SQL statements of one request interleave with those of
others; any of them may fail and `insert` reports nothing; a row is deleted by token and
inserted under a name read before; `now` is read once and used later. TLS gives a stream of
records: a request longer than the reader's buffer becomes two requests with two answers,
and an answer nobody has read is taken for the next. Processes die (SIGPIPE is not ignored,
so an ordinary write can kill one) and come back; the sessions around them do not reconnect.
Three processes wait for one another in a row. The handshake runs in the accept loop. Below
all this, Send and Receive count bytes in loops that add an error's -1 to the count, and the
threads of the authentication server log through one `Logger` and one static `struct tm`.
`PROJECT.json` lists each of these under `hazards`, at its line.

**What makes each part correct**

- authentication server: the table stays a partial function from users to expiries;
  VERIFIED is only said of tokens of users who logged in (or of nobody's, see section 3); no expiry is further than a
  lifetime ahead; requests of different users do not disturb each other; a peer that has
  gone frees its thread.
- the composition: messages only reach the server in sessions whose own login is worth it;
  answers belong to the last request; whoever waits is released; a client that has gone
  releases everything that served it.
- accept loop: each descriptor has one user; whoever speaks TLS gets a thread; a Listen with
  a delay returns.
- TLS client object: only its own descriptor is closed and used; nothing is freed twice.
- byte streams: nothing is written outside the caller's buffer; what is returned is what was
  sent, in order, and what is lost is known; a result says why the call has ended.
- provider: nobody is said to exist who does not, whatever fails; each field of a stamp in
  the log is of the time of a call that was running.

## 2. The modules

    module                 extends                        proved in
    Protocol, TlsLink                                     TlsLinkProofs
    AuthServer             Protocol, TlsLink              AuthServerProofs (TlsLinkProofs),
                                                          IsolationProofs (AuthServerProofs)
    AuthServerImplements   AuthServer; INSTANCE TokenService
    System                 AuthServer                     SystemProofs (AuthServerProofs)
    Listener                                              ListenerProofs
    SslClient                                             SslClientProofs
    Streams                                               StreamsProofs
    Provider                                              ProviderProofs

- **Protocol** – the texts, as records that are equal when the texts are. Names of ordinary
  length: a token long enough to split a VERIFY is left out. A `LoginText` is what a client
  makes of the name and the password it was given: a head, the first read of it, which begins with
  `AUTH `, and a tail, the reads of what is behind byte 256. Both were typed (`client.cpp:42-44`), so
  each read of the tail is any request: no request at all, another AUTH, a VERIFY of any token.
- **TlsLink** – one connection as a record: for each end the reads that are still to come and
  whether it is open, and whether an RST has been provoked. Operators for what `SSL_read`,
  `SSL_write`, `SSL_shutdown` and `close` do: the first write after the peer has closed
  succeeds, the next one fails or raises SIGPIPE; a close with unread data resets.
  Writes never block (messages are small against the socket buffers).
- **AuthServer** – one action per statement of `handleClient` that another thread could
  notice (`ReceiveAuth`, `CheckCredentials`, `StoreToken`, `ReceiveVerify`, `ReadTtl`,
  `CheckExpiry`, `ReadUsername`, `DeleteOld`, `InsertNew`, `SendAnswer`, `ReceiveEnd`,
  `Disconnect`, ...); `pc[c]` is the statement thread `c` has come to. Each
  `sqlite3_exec` is one atomic action that may fail when `DbFaults`. The peers (the
  proxy's sessions), the clock, crashes and restarts are the environment. `loggedIn` is a
  history variable: the users some accepted AUTH has justified.
- **TokenService** – what the authentication server promises: requests of a connection are
  served in order, each in one step that reads and renews the asking user's entry, and each
  is served eventually, whichever reads a login is delivered as (`Spec`; `Safety` is the same
  without "eventually"). A row for the empty username is not part of the promise.
- **AuthServerImplements** – the refinement mapping: a request takes effect when `handleClient`
  reads the clock for it; an answer counts as given from the statement that decides it on.
- **System** – the four programs. Slot `c` is a session: client, proxy thread, its two
  connections and the threads at their ends. The authentication server is AuthServer's
  own actions; the proxy's calls take the place of AuthServer's peers. Records
  `client[c]`, `proxy[c]`, `server[c]` hold the call each thread is about to make (`at`) and
  its locals. A message longer than the proxy's buffer is read as two (`SaidReads`), the second of
  which may be no message, or one of its own with the session's token or another text. ProxyDie and ServerDie end a whole process; the kernel then closes the
  descriptors one by one.
- **Listener** – `CTCPServer::Listen` (with `SelectSocket` for a delay that is not infinite),
  `CTCPSSLServer::Listen` and the loop in `main`; peers arrive in the kernel's queue, speak TLS,
  speak something else, leave, or, those in `Silent`, never send a byte. The socket may be refused
  (`socket`, `setsockopt`), and the next call tries again. A rival may hold the
  port before `bind`, or take it between `bind` and `listen`.
- **SslClient** – the life of one `CTCPSSLClient` through any sequence of its calls, each
  stage of Connect failing or not, with another thread reusing descriptor numbers. `crashed`
  stands for the null pointer a Send or Receive hands to OpenSSL when Connect has failed
  before it had an SSL object.
- **Streams** – one connection as a sequence of bytes `<<n, k>>` (byte k of the n-th Send)
  between the Send of one end and the Receive of the other, for each of the four classes. An action
  is one return of `send`, `SSL_write`, `recv` or `SSL_read`, and how much it has done is the
  kernel's choice. `total`, `iterations`, `buffer` are the locals of the code. The server's
  timeouts pass the address of a 4-byte integer with the size of a `struct timeval`: whether one
  is in force afterwards is nondeterministic. System sees the same calls from above, as whole reads.
- **Provider** – one `SQLite3Provider` and its `Logger`, used by several threads, and the
  functions of `sqlite3_user.cpp`: what a caller is told of its statement, and `Logger::log`
  as `time`, `localtime` (which begins to fill the one static buffer and returns when it is
  filled: in between a field is the old one or the new) and `strftime`, which takes the six fields of
  its format one after the other, of whatever call the buffer is by then. `sqlite3_exec` on a database that did
  not open leaves the message a null pointer, and then it matters what the caller does with it.
- **MC...** – the instances for TLC. **...Proofs** – theorems.

Decisions a reader should know: a session slot is used again only when everything of the
last session in it is gone (other slots stand for sessions that overlap). A login is shorter
than the proxy's own 1024 bytes, a `huge` message longer than these and shorter than two buffers.
What the proxy receives from the server fits
its buffer. `Connect` of the proxy may fail whether or not the other process runs, and it may never
return: `SSL_connect` has no timeout and waits for a `main` that may itself wait in `SSL_accept` for
a peer that stays silent. As
`server.cpp` stands (lines 42-44 are commented out) the one to the server always fails, which is
one of the behaviours of `ConnectServer`. `stopThreads` is never set by the program. In Streams a
reset is reported by one failed read, after which reads return 0, as TCP does. In Provider only the
filling of `localtime`'s buffer is guarded (the C library has a lock for that), its readers are not.

## 3. What TLC checks

| run | question | bounds |
|---|---|---|
| `auth_faults` | TypeOK, TableSound, VerifiedOnlyForLoggedIn, BoundedLifetime, FirstAnswerIsForLogin with every failure | 2 connections, 1 user both log in as; one types a right password, or more than 256 bytes that go on with no request or with a VERIFY of nobody's token (`system_faults` has other tails); lifetime 1, clock 0..1, crashes, failing queries, vanishing peers; 1.2 million states |
| `auth_isolated` | does AuthServer implement TokenService; LoggedInKeepsRow | 2 connections with a user each, clock 0..2, no failures; 103 thousand states |
| `system_faults` | SystemTypeOK, DeliveredOnlyForOwnLogin | 1 session slot used again and again; logins right, and wrong ones that go on behind byte 256 with the right AUTH or with a VERIFY of the user's token; a message that is read as two, all processes crash and restart; 785 thousand states |
| `system_live` | RefinesAuthServer, RepliesMatch, PeerGoneFreesThread, ClientIsAnswered, ClientGoneFreesSession | the same with the right password, alone or going on with a VERIFY, and 1 message, short or empty, fairness; 67 thousand states |
| `listener_peers` | ListenerTypeOK, DescriptorsHaveOneUser, HelloIsServed, TimedListenReturns, FailedBindIsFinal | 3 peers, one of which may stay silent, 2 descriptors, the three kinds of delay, failing contexts, another process on the port; 32 thousand states |
| `client_calls` | SslClientTypeOK, OwnsItsDescriptor, UsesOwnSession, FreesOnlyLive, LastConnectReleased | 3 Connects, up to 2 addresses each, 2 descriptors shared with another thread |
| `streams_calls` | StreamsTypeOK, WritesInBuffer, DeliveredInOrder, EachSlipCostsOneByte, SendsWholeMessages, ResultSaysWhy, CallsReturn | the four classes, 2 Sends and any number of Receives of 1 or 3 bytes, 3 bytes in the kernel, 2 iterations for `maxIterations`; 262 thousand states |
| `provider_calls` | ProviderTypeOK, AnswersHold, StampOverlaps | 2 threads, 3 calls of any of the 9 operations, 1 name with 2 passwords, clock 0..1; symmetric in threads and passwords; 2.4 million states |

Four more runs each show one disagreement between the code and what the repository says of
it; `findings` in `PROJECT.json` quotes the lines.

| run | what happens |
|---|---|
| `auth_renewal_race` | two renewals of one token interleave; the token announced is in no row |
| `auth_unknown_token` | a text in no row is answered NEW_TOKEN of nobody, and leaves a row for nobody |
| `system_expired` | the message that triggers the renewal of its token is refused |
| `system_sigpipe` | a client that leaves at the wrong moment ends the proxy |

The properties are stated so that they hold, and what they have to leave out is as much a
result as what they say:

- a second login after expiry is answered with a token whose row stays expired; a failed
  login leaves the client with the error text for a token, and its first message makes the
  authentication server insert a row for nobody, whose token is then VERIFIED like any other; an AUTH of
  more than 256 bytes is answered more than once, and the second answer is read as the verdict on the
  session's first message, which is why `DeliveredOnlyForOwnLogin` speaks of an AUTH with the right
  password *or* of a login that went on with a VERIFY of a token; an empty message is reported as "Server
  unavailable" and ends the session; after a message of more than 1024 bytes every answer is one
  message late;
- after a failed `bind` the socket is kept, and the next call listens with it on a port of the
  kernel's choice: `FailedBindIsFinal` says that no peer ever reaches the process again. A delay
  of 0 waits like an infinite one, which is why `TimedListenReturns` only speaks of finite
  ones, and a peer that stays silent keeps `main` in `SSL_accept` for ever, which is why
  it and `HelloIsServed` except those behind a silent peer;
- a `recv` that fails after n bytes of a call in the TCP classes costs one byte: the call returns n - 1,
  or goes on and overwrites it (`DeliveredInOrder` excepts it, `EachSlipCostsOneByte` counts
  it). So -1, "recv failed", is returned only by a call that had nothing; the classes of TLS
  return 0, "connection closed", for a timeout as well (`ResultSaysWhy`);
- `addUser` returns true when the insert has been refused, since `insert` only logs it, and false
  only when the database is not open (`AnswersHold`); the other callers that make a string of
  the null message end the process;
- a peer that sends one byte for every timeout keeps a TCP Receive that reads fully for ever, since each
  timeout takes back one byte of `total`: `CallsReturn` promises the return of such a call only once
  the sender has stopped;
- a proxy's Connect may never return, and nothing behind it does then: `ClientIsAnswered` and
  `ClientGoneFreesSession` each have this exception, and no other;
- the stamp of a log line may be another thread's, or have fields of several calls: at the turn of an
  hour even one that was never the time (`StampOverlaps` says what each field is).

**Why the bounds are enough.** Rows of different users interact only through the row of the
empty username, so one shared user (`auth_faults`) and two separate ones (`auth_isolated`) are
the two ways two threads can meet; a lifetime of 1 with a clock of 0..2 has a token live, at its
last second, expired, and renewed. Init already holds rows of earlier runs, live or expired. A message that is
read as two makes the proxy serve two, which shows an answer that is left over from the one before. A login of two reads has one answer
that is left over; a longer tail is more of the same, and the theorems are of tails of any length. The
clock stands still in `system_live`, where no property speaks of it; `auth_faults` and
`system_expired` have it move. Three peers are one before,
one after and the one in question. Three Connects make the SSL object, the context and the
descriptor come from three different calls. Calls of 1 and of 3 bytes have a Receive that
ends within a message, one that takes parts of two, and room for a failure after two bytes; the
theorems of StreamsProofs hold of every size. Three calls of two threads have one that logs before,
during and after another.

**Fairness.** `WF` of each thread as a whole: the operating system runs what is runnable, and a
thread of these programs always has at most one thing to do. The proxy's Connects
(`ProxyConnects`) are excepted: System's fairness is of `ProxyGoesOn`, everything else its thread does,
so a Connect may take for ever. Nothing is assumed of users,
peers, the clock, crashes or restarts, except in `listener_peers`, where a peer that has
connected and is not in `Silent` speaks or leaves. In `streams_calls` each of the two threads runs when
the call it waits in can return; nobody has to call, close or break the connection. TokenService's
own fairness (each request is served) is not assumed but checked.

**Not a deadlock.** Listener, SslClient and Provider may stop (all peers gone, object destroyed,
calls used up), so their configurations say `CHECK_DEADLOCK FALSE`. AuthServer and System never
stop: a peer can connect again; in Streams the connection can be ended while a Receive waits, and
another Receive begun when it has returned.

## 4. What is proved

| module | theorem | statement |
|---|---|---|
| AuthServerProofs | `Invariant` | `Spec => []IInv` |
| | `TypeCorrect` | `Spec => []TypeOK` |
| | `TableSoundness` | `Spec => []TableSound` |
| | `VerifiedSoundness` | `Spec => []VerifiedOnlyForLoggedIn` |
| | `LifetimeBounded` | `Spec => []BoundedLifetime` |
| | `FirstAnswerSoundness` | `Spec => []FirstAnswerIsForLogin` |
| IsolationProofs | `TokensKept` | `Isolated => (Spec /\ []up => []LoggedInKeepsRow)` |
| | `ServiceSoundness` | `Isolated => (Spec /\ []up => Service!Safety)` |
| SystemProofs | `SystemInvariant` | `Abrupt => (SystemSpec => []SystemIInv)` |
| | `SystemTyped` | `Abrupt => (SystemSpec => []SystemTypeOK)` |
| | `DeliveredSoundness` | `Abrupt => (SystemSpec => []DeliveredOnlyForOwnLogin)` |
| | `Refinement` | `Abrupt => (SystemSpec => RefinesAuthServer)` |
| | `ServerSoundInSystem` | `Abrupt => (SystemSpec => []` AuthServer's four properties `)` |
| | `RepliesSoundness` | `Abrupt /\ "huge" \notin Bodies => (SystemSpec => []RepliesMatch)` |
| ListenerProofs | `ListenerInvariant` | `ListenerSpec => []ListenerIInv` |
| | `DescriptorOwnership` | `ListenerSpec => []DescriptorsHaveOneUser` |
| | `ListenerTyped` | `ListenerSpec => []ListenerTypeOK` |
| | `FailedBindDeafens` | `ListenerSpec => FailedBindIsFinal` |
| SslClientProofs | `SslClientInvariant` | `SslClientSpec => []SslClientIInv` |
| | `SslClientTyped` | `SslClientSpec => []SslClientTypeOK` |
| | `DescriptorSoundness` | `SslClientSpec => []OwnsItsDescriptor` |
| | `SessionSoundness` | `SslClientSpec => []UsesOwnSession` |
| | `FreeSoundness` | `SslClientSpec => []FreesOnlyLive` |
| | `ReleaseSoundness` | `SslClientSpec => []LastConnectReleased` |
| StreamsProofs | `StreamsInvariant` | `StreamsSpec => []StreamsIInv` |
| | `StreamsTypeCorrect` | `StreamsSpec => []StreamsTypeOK` |
| | `ReceiveStaysInBuffer` | `StreamsSpec => []WritesInBuffer` |
| | `BytesInOrder` | `StreamsSpec => []DeliveredInOrder` |
| | `SlipsCostBytes` | `StreamsSpec => []EachSlipCostsOneByte` |
| | `MessagesWhole` | `StreamsSpec => []SendsWholeMessages` |
| | `ResultsSayWhy` | `StreamsSpec => ResultSaysWhy` |
| ProviderProofs | `ProviderTypeCorrect` | `ProviderSpec => []ProviderTypeOK` |
| | `AnswersMeanWhatTheySay` | `ProviderSpec => []AnswersHold` |
| | `StampsOverlap` | `ProviderSpec => []StampOverlaps` |

The assumptions on constants are `BlankAssumption`, `ConstantsAssumption`, `SystemAssumption`,
`ListenerAssumption`, `SslClientAssumption`, `StreamsAssumption` and `ProviderAssumption`, which
TLC evaluates in the runs. Connections, users, requests, peers, descriptors, threads and names
are any sets, the bounds (`MaxTime`, `MaxMessages`, `MaxConnects`, `MaxAddresses`, `MaxFds`,
`MaxSends`, `MaxIterations`, `MaxCalls`) and the sizes of buffers any naturals; failing queries
and crashes are there or not. `Abrupt` (a peer of the authentication server may vanish while it
waits) is a hypothesis about System because a proxy that is killed does just that: without it
AuthServer's environment would be too tame for the composition to implement it.

None of the invariants is inductive by itself.

**AuthServer.** A handler acts on what it read some statements ago, so `Justified(c)` says what
it may rely on: the username it is about to insert is that of a user who has logged in, or
empty; its `now` is not in the future; an expiry other than 0 that it is about to compare was
read from a row of a logged-in user's token, or of nobody's: a renewal that finds no name leaves
such a row, and a VERIFY of nobody's token may be typed behind byte 256 of a login. Deletions by other threads do not disturb this,
because `loggedIn` only grows. `InBranch(c)` ties the statement to the kind of the request. For
`FirstAnswerIsForLogin` the connection has to be followed as well: `InUse(c)` (a thread runs
exactly while its end is open; a reset connection has lost an end) and `StartsClean(c)` (before
its AUTH a session finds the connection empty). `IInv` is their conjunction with the properties;
the proof has one lemma per action. `TlsLinkProofs` holds the lemmas about the operators of
TlsLink: what a write appends, what a close keeps, and that a link's texts stay in any two sets
given for them.

**Isolation.** `LoggedInKeepsRow` is false when a query fails, when the process dies in the middle of
a renewal, and when two connections renew one token (`auth_renewal_race`). `TokensKept` shows that
nothing else breaks it: `Isolated` says that no query fails, that the users that the reads of one
connection name, in an AUTH or in a VERIFY (`Own`), are named on no other, and that none names nobody's
token, whose row every renewal without a name writes; `[]up` that the process lives. `Apart(c)` follows the texts of a connection as `SystemIInv`
does, here by whose token they are; `Kept(u)`, stronger than the property, says that the row is
there unless the very next statement of a handler inserts it; `Restores(c)` that a handler between its
DELETE and its INSERT has the right name, because when it read the name the row was there:
whoever could have had it to insert would share user u with it.

**The promise of the authentication server.** Under the same hypotheses AuthServer implements
TokenService but for its fairness, which is liveness (`ServiceSoundness`; `auth_isolated` checks
the whole). Each step of AuthServer is a step of TokenService or a stutter:

- `CheckCredentials` and `CheckExpiry`, the two that read the clock, serve the request (a text that
  is no request is served as it is received): from there on the answer is fixed, and the mapping
  already counts it as told and the table as renewed, though up to four statements are still to come.
- The other statements stutter: the mapping has been ahead of them. What the statements of other
  handlers do in between does not move what this one will say, because `Isolated` gives them
  other users (`Serving(c)` says whose row a handler has read, `ServiceIInv` adds this to
  `TokensKept`'s invariant).
- A send, a close and the peer's calls map to `Read`, `Open`, `Ask` and `Close`.

The mapping takes a user's expiry from the one row that user has, or from the handler that is
going to add it or to put it back. `Expiry(u)` is
what these sources say and `ExpiryKnown` that they never say two things, which needs `TableSound` and
`Restores`; the rest of the proof never opens a `CHOOSE`. `Nameless` are the statements at which a
handler has read no name: one that finds no row later renews the row of nobody, which the
promise is not about.

**System.** That a delivered message was paid for by the login of its own session involves all
four programs, so `SystemIInv` follows the worth of every text. A text is worth something when
it can lead to a delivery: a login that `Earns` (its AUTH will be accepted, or a VERIFY of a token
is behind byte 256 of it), a VERIFY of a token, VERIFIED, a
message. `Typed`, `Asked`, `Told` and `Passed` are the sets of texts that may be on the four legs
of session c's way, each of which has texts of worth only when `Earned(c)`: the login its client
made earns. An AUTH in the tail is not worth anything even with the right password: its answer is a
token, which the proxy takes for a verdict, and a refusal. What makes this hold is that the session's
token is the *first* answer, and `FirstEarned(c)` follows that one from the AUTH to the proxy: it is a
token only if the AUTH the login began with was accepted. `ClientEarned`, `AuthEarned`, `ProxyEarned` and `ServerEarned` say that the
connections, and the locals of the threads, stay within these sets. `Earned(c)` can only become
true in `Login`, which sends the first text of worth; a session that has ended gives the slot
to the next with every connection closed and empty. The step of a handler that says VERIFIED uses
`Justified(c)` of AuthServer. The refinement is proved first, step by step (`StepRefines`), since
`IInv'` is had from it and AuthServer's `NextInv`; its only step that needs the invariant is
`ForwardLogin`, which must forward an AUTH of `Logins[c]`.
What has been proved of AuthServer is thereby had of the composition (`ServerSoundInSystem`).

That a reply is to the question asked last is a matter of order: the texts that cross a
connection carry no number (`about` and `n` are history), so there must never be two of them.
`InTurn` says so for both connections of a session: while the client waits, exactly one of
these holds: its text is on the way, the proxy's thread works on it (`WorksOn` is its number), the
answer is on the way back; at no other time is there any of them. The connection to the server is empty
before a message is forwarded (`Quiet`), and holds one text or its echo while the proxy waits for
it. `InTurn` is inductive relative to `SystemIInv`, through every death and half-closed
connection. A message of more than 1024 bytes breaks it, and the property: the proxy reads it as two
and answers twice. Hence the hypothesis `"huge" \notin Bodies`; empty messages
and all that fit the buffer are covered.

**Listener.** `QueuedOnce`: a peer is in the queue once and either there or accepted, and main
holds a connection exactly between its accept and the end of the handshake. `FailedBindDeafens` adds
`Deaf`: as long as the socket is not bound there is no address to connect to and nobody has connected.

**SslClient.** `Stages` says what each stage of Connect finds; `Sessions` that SSL object n
belongs to Connect n, that the object last made has both references to its context, and that
it is the one pointed to when the last Connect returned true. `DescriptorSoundness` then
says the object closes what it holds and nothing of another thread's.

**Streams.** `SenderIInv` says where in its message a Send is and that the stream ends with what it
has sent; `ReceiverIInv` is the account: the bytes taken from the kernel are those returned,
those in the buffer (`total`, which is never negative: a failed `recv` on nothing ends the call,
because -1 is converted to a `size_t` and is beyond every size) and one for every slip; `ContentIInv`
that without a slip the buffer continues what has been returned. The properties of the bytes
follow by arithmetic on positions, without induction over the sequences: each step changes a
known range of them.

**Provider.** `Underway` says what a call that has come to its log line may already conclude of its
statement, which stands because nothing deletes users; `Meets` that the times of calls of `log` that
overlap are known to one another, so that the shared buffer only ever holds, for a call that
has begun `localtime`, times in its own set. From these `strftime` takes a field at a time.

**Only model-checked.** What is promised under fairness: `ClientIsAnswered`,
`ClientGoneFreesSession`, `PeerGoneFreesThread`, `HelloIsServed`, `TimedListenReturns`, `CallsReturn`,
and of `ImplementsTokenService` the part that every request is served. Liveness under fairness
needs ENABLED, which the prover does not treat. Every safety invariant and every safety action
property of the passing runs is stated by a theorem.

## 5. Plan

1. *Done:* the core (Protocol, TlsLink, AuthServer with its abstract specification and its
   proofs), the composition, the accept loop and the client object.
2. *Done:* the byte counting of the Send and Receive loops and the timeouts (Streams), finite delays
   and silent peers (Listener), the results of the provider and the log (Provider).
3. *Done:* the proofs of System (refinement, `DeliveredOnlyForOwnLogin`), Listener, SslClient,
   Streams and Provider, and of `LoggedInKeepsRow` for isolated connections; of `RepliesMatch` for
   messages that fit the proxy's buffer.
4. *Done:* logins that are delivered in several reads of any kind, in every module they reach; a Connect
   that does not return; stamps of six fields.
5. A System instance with two sessions that share the proxy, so that the death of one process
   meets a second session in every state; a clock in `system_faults`. The theorems of SystemProofs
   cover both for safety.
6. *Done:* a simulation of TokenService by AuthServer without failures (`ServiceSoundness`). Left: what
   remains of the promise when queries fail, as a second abstract specification that may lose a row.

## 6. Not modelled

- output and the layout of texts; `hashPassword` (a password is right or wrong; two passwords
  with one digest are one password);
- the text of SQL: names and tokens are pasted into the statements, and the model is for names without a
  quote (`Users`), for which a statement means what its columns say;
- an `SSL_new` that fails for lack of memory (`tcp_ssl_client.cpp:84`, `tcp_ssl_server.cpp:89`), which the
  code does not check;
- logins of more than the proxy's 1024 bytes, messages of more than two of its buffers;
- `queryTable`, `parseToken`, `trim`, `VerifyToken`, `HasPending`, `PendingBytes`, `SelectSockets`:
  no program of the repository uses them, and they change no state the others read;
- the refusals of Send and Receive at once (null pointer, size 0, no SSL object), which change
  nothing, and sizes beyond 2^31, where `total` would overflow;
- the `ofstream` of the Logger, which threads write to without a lock: the outcome is
  undefined and nothing reads the file back;
- a Send repeated with the very same buffer after it failed in the middle of an `SSL_write`, which
  OpenSSL would continue: every caller gives up or sends another text;
- `cert/certificator.py`, run by hand beforehand; the Makefile;
- threads are never joined (`main` does not end), so the vectors of threads only grow.

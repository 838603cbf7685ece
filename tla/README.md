# php-radius in TLA+

php-radius is a PHP extension around `radlib.c`, a RADIUS client library. A
script opens a handle, adds servers, builds a request attribute by attribute,
sends it, and reads the attributes of the answer. This directory holds TLA+
models of that library, the TLC runs that check them, and TLAPS proofs of the
properties that matter most.

## The system

| Component | State it keeps | Operations | Module |
|---|---|---|---|
| Request building (`radlib.c:71-79, 183-274, 574-592, 787-827, 986-1088`) | `request`, `req_len`, `request_created`, `ident`, `pass`, `pass_len`, `pass_pos`, `chap_pass` | `rad_create_request`, `rad_put_{attr,int,string,addr}`, `rad_put_vendor_*` | `RadRequest` |
| Server table and send engine (`radlib.c:91-181, 276-323, 484-572, 655-737, 829-878`) | `servers[]` with `max_tries`/`num_tries`, `num_servers`, `srv`, `try`, `total_tries`, `fd` | `rad_add_server`, `rad_send_request` | `RadSend` (extends `RadRequest`) |
| Exchange: what a send promises | - | - | `RadExchange`, `RadRefinement` |
| Response scanning (`radlib.c:625-653`) | `response`, `resp_len`, `resp_pos` | `rad_get_attr` | `RadResponse` |
| Values of attributes (`radlib.c:594-623, 964-984`, `radius.c:537-655`) | the value the script holds | `rad_get_vendor_attr`, `rad_cvt_int`, `rad_cvt_string`, `radius_get_tagged_attr_*` | `RadVendor`, `RadValues` |
| Salt encryption and demangling (`radlib.c:1112-1340`) | none of its own; reads the authenticator and the secret of the current server | `rad_salt_value`, `rad_demangle`, `rad_demangle_mppe_key` | `RadSalt`, `RadValues` (refusals and keys of requests in `RadRequest`) |
| Configuration file (`radlib.c:341-482, 886-962`) | adds to `servers[]` | `rad_config`, `split` | `RadConfig` (used by `PhpRadius`) |
| PHP functions and resource (`radius.c`, `pecl-compat/src/zend_resource.h`) | the resource that owns a handle; its socket and secrets | `radius_auth_open`, `radius_acct_open`, `radius_close`, destructor, copies and `unset`, end of the request | `PhpRadius`; `_init_options` in `RadRequest` |

Everything runs in one thread and blocks. What interacts is the *handle*, whose
fields outlive each call, and the *network*, which acts between any two calls of
`select`. All components share `struct rad_handle`:

- `rad_put_*` leave `pass_pos`, `pass_len` and `chap_pass` for the sender, which
  decides by them whether the request may go out and where to write the
  scrambled password;
- the sender writes the authenticator or the password into the request buffer
  itself, for one server after another, and compares answers with that buffer;
- a salted value is encrypted when it is put, with the server that `srv` points
  at *then*;
- a send leaves `resp_len` and `resp_pos` for `rad_get_attr`;
- `rad_demangle` reads the secret and the authenticator of the moment, not those
  of the answer the value came from;
- the *resource* of PHP owns the handle: everything the library allocates has to
  go when the resource does, in whatever way that happens.

### Not modelled

- `rad_strerror`, `generr` and the texts of errors: no decision depends on them.
- `gettimeofday` and `inet_aton` for Windows, and the macros that map `MD5Init`
  to PHP's: time is abstract, MD5 symbolic. `strsep` is modelled, in `RadConfig`.
- `pecl-compat` apart from the resource functions: macros that give one name to
  the string and hash functions of two PHP versions, most of them unused here.
- `radius_init_const.h`, `radius_arginfo.h`: tables, partly generated.
- `rad_cvt_addr` and `inet_ntoa`: they copy four bytes and print them.
- In configuration files: the cut of numbers to an `int` and of a port to 16 bits,
  and zero bytes. That `fopen` may fail is left out because it changes nothing.
- What a process does after it has survived undefined behaviour: a free of a
  pointer nobody set, a copy from behind a buffer. The call goes on as if nothing
  had been damaged, or the process dies.
- Tests and examples; they were read for what callers do.

### What is hard

State that is stale when it is used (CHAP flag, password position, response
length, the server a value was encrypted for or is opened with); answers that come late, twice,
from a server that has been given up or to an earlier request; the agreement of
`try`/`total_tries` with the counters of each server, on which both giving up
and the scan for the next server depend; lengths at their limits, inside values
as much as around them, and lengths below the smallest that makes sense; a network
that never falls silent; a handle that several variables share, under two
versions of PHP that count references differently. Nothing is
persisted, and no two threads share a handle, so there is no crash recovery and
no data race to model. `PROJECT.json` lists each hazard at its line.

## The modules

**RadRequest.** One action per call; each has a refusing and a succeeding
disjunct, with the refusals named (`PutPasswordRefused`, `PutOtherRefused`,
`PutVendorRefused`). The buffer is a header and a sequence of attribute records
with the offset and length of each value; a value is abstract except for the
key it was encrypted with (secret, number of the authenticator).
`put_password_attr` is followed to the letter: when its placeholder does not
fit, the call still succeeds and `pass_pos` is computed from the unchanged
`req_len`. Type and code are cut to one byte as the buffer does. The `_int`,
`_addr` and `_string` variants differ in how they produce the value, so they are
lengths in `Values`; one thing only the `_addr` variants do is a fatal error
(`BadAddress`). `rad_salt_value` refuses a value that is too long before it has set
the pointer its callers free, so such a call is refused or kills the process
(`FreesUnsetPointer`). `ret` is then `"crash"` or `"fatal"`, and nothing follows.

**RadSend.** `pc` is `idle` between calls, `select` while `rad_send_request`
waits, `spin` once the scan for a server cannot end. Whatever the process does
between two calls of `select` is one step, because nothing else can touch the
handle:

| Action | Code |
|---|---|
| `AddServer`, `BuildRequest` | a call while idle |
| `SendWithoutSocket`, `SendRefused`, `SendNoServers`, `Send` | the four ways through `rad_init_send_request` |
| `Transmit` | scan, authenticator or password, `sendto` (which may fail), counters |
| `Timeout` | `select` timed out, time is up |
| `ReceiveShort` | `recvfrom`, and a digest over a negative number of bytes, which ends the process |
| `ReceiveInvalid` | `recvfrom`, `is_valid_response` fails, next transmission at once |
| `ReceiveValid` | a valid answer; one of code 0 keeps the loop waiting |
| `WaitFails` | `select` or `recvfrom` fails |
| `Answer`, `Stray` | the network, external |
| `Over` | the process has ended |

The network is the set of all datagrams ever sent and the receive buffer of the
socket. Any datagram in the set may be answered at any time, any number of
times, and not at all, which gives loss, delay, reordering and duplication;
strays come from a source that does not know the secret, or from another
address. How many datagrams come is not bounded; how many wait in the socket is.
Where a scrambled password has no placeholder it lies over attributes that were put
before it (`AttrsSent`): their type becomes `Overwritten`, in the buffer and in the
datagram. Nobody can parse such an attribute, and so none behind it. Servers are numbered from 1 (`srv` is the code's plus one).

**RadExchange / RadRefinement.** The abstract specification has no sockets,
buffers or digests: one server is asked at a time; each has a number of tries;
the call ends with an answer of the server asked last to *this* request, or
gives up when no tries are left, or fails. `RadRefinement` maps a handle to it:
the servers asked are those that were sent the current request, the answers are
those in the receive buffer that refer to one of its transmissions.

**RadResponse.** The response as bytes. A send is reduced to what it leaves in
the buffer: nothing, a receive error, a datagram that was not valid, or a reply
whose length field may end before the datagram. `GetAttr` is `rad_get_attr`
with its order of checks and advances. The length it returns is a `size_t`, the
checks and the position are `int`s: `AsSize`, `AsInt` and `PlusSize` convert, for
types of `2 * HALF` values. A length byte below 2 hence gives one of the two largest
lengths there are and takes the position back. `resp_pos` is not initialised by `rad_auth_open`, so it
starts anywhere (`Garbage`), and a byte outside the datagram is any byte.

**RadSalt / RadVendor.** Operators without state: encryption and the layout of
values. MD5 is symbolic: a byte is its plain value together with the set of pads
(a digest and a position in it) it has been XORed with, so XORing twice removes a
pad and a byte with a pad left reads as anything (`Reads`). `InPos` and `Chunks`
follow the loop of `rad_salt_value`, whose position starts one byte in front of
the input and is compared before it is advanced. `rad_get_vendor_attr` compares
with `sizeof(struct vendor_attribute)`, which padding makes one byte longer than
the header of six bytes and a first byte of data.

**RadValues.** A script that salts values and opens those of an answer. Of the
handle it keeps what the encryption reads: secrets, `srv`, the authenticator. A
`letter` records what the server wrote into the answer, `fresh` that no request
was created or sent since. One action per call: `SaltValue`, `GetVendorAttr`,
`Demangle`, `DemangleMppeKey`, `GetTag`, `ConvertInt`, `ConvertString`; the
script may apply any of them to any value, also the wrong one. Where the code
dereferences a missing secret or passes a negative length to PHP, `result` is a
`Crash` and nothing follows. Where it reads bytes nobody wrote, or converts bytes
that are still encrypted, the outcome is any number or string, kept as one value
(`Unpredictable`). `Contact` is a send as this module sees it: it ends with *some*
server of the table. Which one is `RadSend`'s business, and that it is one of the
table is proved there (`SendTypeOK`), not here.

**RadConfig.** `rad_config` line by line: `Lines` cuts the file as `fgets` does,
`Split` is `split` as a state machine run over a line, `ParseLine` the fields of a
line, `ReadLine` what the call does with them, `Config` the whole call with what it
leaves in the table when it fails. A
file is a sequence of `Symbols`: the characters that mean something to the parser,
and words for strings without them. A second part says what can be in a file, for
reference: an *entry* is a server and the way an administrator writes it down
(`Written`, `IsEntry`), an *aside* blanks or a comment (`IsAside`), a *fault* a
mistake in a line (`Mistaken`, `IsFault`).

**PhpRadius.** Variables hold zvals, zvals refer to resources, a resource owns a
handle. `Release` is giving up a reference, `ListClose` the explicit close of PHP
7; `DeleteResource` chooses between them as `compat_zend_delete_resource` does.
`Open`, `Close`, `ReadConfig`, `AddServer` and `SendRequest` are functions of the
extension; `OpenOther`, `Assign`, `Unset`, `EndRequest` and `NextRequest` are
PHP's part. `EndRequest` may come at any point, as a fatal error does.

`*MC` modules give constants their values. `RadRequestProofs`, `RadSendProofs`,
`ExchangeProofs`, `RadResponseProofs`, `RadValuesProofs`, `RadConfigProofs` and
`PhpRadiusProofs` hold the theorems, `NaturalSets` the induction they share.

### Assumptions of the models

- MD5 is injective, and authenticators drawn by `rad_create_request` differ
  (`Random(nonce)`). `IDENTS` is 1 in the run `send`: every identifier has been
  used before. Two accounting requests with the same identifier and content then
  have the same digest, and no client could tell their answers apart; `IsTwin`
  names this case in `AcceptedAnswerIsOurs`.
- An `int` and a `size_t` of a response have the same number of values. A wider
  `size_t` is cut to its low half where the code adds it to an `int`.
- `gen`, the number of the request in a datagram, is history: no action reads it.
- A `char` is signed, as on x86, and an `int` has four bytes. `ConversionsReadBack`
  depends on both where it says which tags and numbers come back negative.
- How PHP treats zvals and resources is external, modelled from what
  `zend_resource.h` calls. Copying a variable in PHP 7 and separating it in PHP 5
  give a new zval; references and PHP 5's copy on write share one.
- The types a run puts are bytes; the library does not check that, and the theorems
  that need it say so (`TypesAreBytes`).
- `MaxCreates`, `MaxBuffered`, `MaxTaken` and `MaxOpens` bound the behaviours;
  the proofs hold for every value of them.

## The runs

| Run | Checks | Bounds |
|---|---|---|
| `request` | `RequestTypeOK`, `AttributesTile`, `ScrambleInsideMessage`, `EveryPlaceholderIsFilled`, `ChapIsRecorded` | 300-byte buffer, 32-byte passwords, two requests, plain, CHAP and vendor attributes, salted and tagged. Values of 240 bytes (salted, the longest there is), 247 (the longest in a vendor attribute; tagged, one too many) and 253 (the longest in any attribute; tagged, one too many; salted, beyond the 250), in a buffer with room for one of them: every refusal for length happens, of the attribute, of the salt and of the message |
| `send` | order of failover, use of the tries, acceptance, contents of datagrams (9 invariants) | two of three servers, with two tries, one and none, added in any order and also twice, so the tries of the first and the last server run out and the scan passes one without any; two requests with one identifier, so an answer can be late and its identifier fits; one datagram in the socket, as many as come |
| `exchange` | `ImplementsExchange`, `SendReturns` | one request, two servers and a busier network: answers of code 0, truncated ones, and ones whose length field is too short; one datagram in the socket, as many as come |
| `response` | `ResponseTypeOK`, `ScanInsideMessage`, `ScanIsExact` | all datagrams of up to 5 bytes over {0, 2, 3}, header of one byte: two attributes, values, a length byte that is too long, one that is too short; a `size_t` of 16 bits |
| `values` | vendor attributes, tags, numbers, strings, salt and demangling (7 invariants) | bytes of 32 values and digests of 4, so that the limits of both (`MAXMANGLED` 8, `MPPE_KEY_LEN` 4, one chunk as in the code) are crossed by values of up to 12 bytes; salted lengths 0, below, at and above a chunk and beyond the maximum; keys of none, as many and one more than the limit; numbers and tags on both sides of the sign; two servers, two requests; symmetric secrets |
| `script` | ownership of handles, what is left at the end, configuration files (7 invariants) | two symmetric variables, two resources, PHP 5 and 7, two files; tables of two servers and lines of 24 symbols, four entries (bare and quoted secrets, with and without service, port and numbers), four asides, ten faults (every kind `IsFault` has), a number with blanks and a sign in quotes: all files of up to three entries around a fault, a comment or a blank line |

What they show: attributes always tile the message; the password's slot stays
inside it, also after `rad_create_request` on a used handle; failover goes
through the table once and in order; a send that gives up has used exactly every
try; a send returns unless it reads answers of code 0 for ever; an accepted answer refers to a transmission of the current request to the
server asked last; a password in a datagram is always scrambled for its
destination; a retransmission is identical byte for byte; a reply is scanned
exactly as it was written; values in it open to what the server wrote until the
next request, and not necessarily after it; a salted value opens at the server
it was salted for, and the loop that writes it leaves its buffer exactly for
values of whole chunks; a handle is freed once, by whatever comes first, and takes
its socket and secrets with it; with PHP 7 a closed handle is out of reach of all
variables, with PHP 5 a copied variable keeps it open; a configuration file is
read back as written, and the first mistake ends the reading with the servers
before it kept.

Salt, demangling and parsing are the same functions at any size: they depend on
the length of a value modulo a chunk and on which side of a limit it lies, which
is why the small sizes meet every case. The two properties of configuration files
are facts about `rad_config` alone; they are evaluated where a request begins, so
that they are not evaluated again in every state.

Six runs expect a violation. Each states what a comment or a message of the code
says and shows a behaviour of the code that contradicts it (details under `findings`
in `PROJECT.json`):

| Run | What the code does |
|---|---|
| `stale_chap_flag` | `rad_create_request` keeps `chap_pass`: an access request without a password is sent after a CHAP request |
| `overwritten_attribute` | a User-Password that does not fit is accepted, and scrambled over other attributes when the request is sent |
| `salt_too_long` | a value too long to salt is refused, and a pointer nobody has set is freed |
| `salt_failover` | a salted value is encrypted for the server contacted last, not the one it is sent to |
| `short_length` | a datagram whose length field is below 20 has its digest taken over a negative number of bytes |
| `unanswered_scan` | after a failed send `rad_get_attr` returns attributes of an invalid or an earlier datagram |

Six more findings come from passing runs, whose property says exactly when the code
does something else than it announces:

| Property | What the code does |
|---|---|
| `SendReturns` | valid answers of code 0 use no try and end no send: a send that keeps reading them never returns |
| `ScanInsideMessage` | an attribute with a length byte below 2 is returned, with a length near the largest of a `size_t`, instead of refused |
| `OverrunIsOneChunk` | a value of whole chunks is salted one chunk further than the buffer reaches |
| `KeyLeavesItsText` | the length of an opened key is compared with that of the mangled value, salt included: a key may end one byte behind what was opened, and of a value that is nothing but a salt even the length is read from behind it |
| `ConversionsReadBack` | tags and numbers of half their range or more come back negative |
| `LineEndIsCut` | the messages "line too long" and "missing newline" are reported for hardly any line, and the character in place of the newline is lost |

Every property of a passing run is shown to depend on the code: a *mutant*
operator next to the definition it replaces (marked "Mutant" in the modules)
changes it the way a slip in the code would, and TLC then finds the property
violated.

### Fairness

The specification of the run `exchange` has weak fairness of `Timeout \/
ReceiveShort \/ ReceiveInvalid \/ ReceiveValid`. `select` is always given a finite
timeout (`radlib.c:854`), so the process cannot wait for ever: either there is a
datagram or the time passes. No fairness is assumed of the network, of the
application or of failures, and the network may answer any number of times.

So `SendReturns` has a condition: a send that waits ends, or answers of code 0 are
read again and again without end, which the network of the run may well do. How dense
that stream has to be depends on the system, which the model leaves open. The timeout of the next `select` is
computed from what the last one left in `tv`. Linux leaves the time that was not
used, so the deadline does not move, and after it `select` is called with no time
left: a datagram must be queued at every call. Elsewhere `tv` keeps its value, every
answer of code 0 extends the deadline, and one within each timeout is enough.

Deadlock is checked in all runs but `values`: there the process may crash, and the
script may have used up its servers and requests.

## The proofs

| Theorem | Says |
|---|---|
| **`RadRequestProofs`** | |
| `RequestTypeCorrect` | `Spec => []RequestTypeOK`; in particular `req_len <= MSGSIZE` |
| `AttributesAlwaysTile` | `[]AttributesTile` |
| `ScrambleStaysInside` | `[]ScrambleInsideMessage` |
| `PlaceholderIsAlwaysFilled`, `ChapIsAlwaysRecorded` | `[]EveryPlaceholderIsFilled`, `[]ChapIsRecorded`, if types are bytes |
| **`RadSendProofs`** | |
| `SendTypeCorrect` | `SendSpec => []SendTypeOK` |
| `FailoverIsInOrder`, `TriesAreExact`, `ScanAlwaysFindsServer` | the three failover properties, if no `max_tries` is negative |
| **`ExchangeProofs`** | |
| `NothingIsSentUncreated` | `[]NothingSentUncreated` |
| `RetransmissionsAreIdentical` | `[]RetransmissionIsIdentical` |
| `AcceptedAnswersAreOurs` | `[]AcceptedAnswerIsOurs` |
| `PasswordsOpenAtServer`, `PasswordsStayApart` | `[]PasswordOpensAtServer`, `[]PasswordsAreKeptApart`, if types are bytes |
| `LibraryImplementsExchange` | `SendSpec => Exchange!Spec`, if no `max_tries` is negative |
| **`RadResponseProofs`** | |
| `ResponseTypeCorrect`, `ScanStaysInside` | `[]ResponseTypeOK`, `[]ScanInsideMessage` |
| `ScanReadsWhatWasWritten` | `[]ScanIsExact` |
| **`RadValuesProofs`** | |
| `ValuesTypeCorrect` | `[]ValuesTypeOK` |
| `OverrunIsExact` | `[]OverrunIsOneChunk` |
| `VendorComesBackAlways`, `ConversionsComeBack` | `[]VendorReadsBack`, `[]ConversionsReadBack` |
| `KeyLeavesItsTextExactly` | `[]KeyLeavesItsText` |
| `SaltComesBack`, `AnswersAlwaysOpen` | `[]SaltReadsBack`, `[]AnswerOpens` |
| **`PhpRadiusProofs`** | |
| `ScriptTypeCorrect` | `[]ScriptTypeOK` |
| `HandlesAreAlwaysOwned`, `HandlesAreReleasedOnce`, `ClosedStaysClosed` | `[]HandlesAreOwned`, `[]ReleasedOnce`, `[]ClosedIsClosed` |
| `NothingIsEverLeft` | `[]NothingIsLeft` |
| `FilesAlwaysReadBack`, `LineEndIsAlwaysCut` | `[]ConfigReadsWritten`, `[]LineEndIsCut` |
| **`RadConfigProofs`** | |
| `FilesAreReadBack` | `rad_config` reads back a file of any number of entries, up to the first mistake |
| `LinesAreAlwaysCut` | what stands in place of a newline is lost unnoticed, unless a carriage return precedes it; the rest of the line is read as a line of its own |

They hold for every size of the buffer and the table, every set of servers,
codes, attributes and datagrams, every size of a byte and of a digest, values of
any length, every number of variables and resources, every set of configuration
files, entries, comments and mistakes, and every bound, under the named assumptions of the modules
(`RequestAssumption`, `SendAssumption`, `ResponseAssumption`, `SaltAssumption`,
`ValuesAssumption`, `ConfigAssumption`, `SymbolsAssumption`, `FileAssumption`,
`ScriptAssumption`, `InputAssumption`).
TLC evaluates each of them. Some say something about the code:

- `ResponseAssumption` has a header of at least one byte: `rad_get_attr` takes a
  `resp_len` of 0 for "no response", so a reply without attributes must have some
  other length. The header of the code has 20 bytes. An `int` holds every length byte
  and every size of a datagram.
- `SaltAssumption` has keys no longer than one chunk (`MPPE_KEY_LEN` and a digest are
  both 16 bytes), so a key can leave what was opened only if that is one chunk or none.
- `ValuesAssumption` has letters (what a server puts into an answer) made of
  bytes and short enough for a vendor attribute: its length is one byte and
  counts the type and itself. What does not fit cannot be in an answer.
- `FileAssumption` says what counts as an entry, an aside and a fault. An entry fits
  into the line buffer together with its newline and one symbol more; its host is one
  `gethostbyname` finds, contains no colon and, if it begins the line, is not called
  `auth` or `acct`; a bare secret has no blank and does not begin with a quote or a
  `#`, a quoted one is any text of a line but the empty one. Other servers cannot be
  written into such a file: the parser has no syntax for them. Two limits are the
  model's own. No entry has a carriage return in it; one at the end of a line would
  make `NoNewline` true where `LineEndIsCut` looks. And numbers are below 100, one
  or two digits, though `NumberOf` reads any.
- `InputAssumption`: files are sequences of symbols, and the servers a script adds
  are given by addresses that can be found; `rad_add_server` adds no other.

Two theorems' hypotheses are not assumptions of a module, because the code can be
used without them, and the properties fail then:

- `LimitsAreNatural`: no `max_tries` is negative. `rad_add_server` takes any number, and a
  negative one makes `total_tries` smaller than the tries of the other servers: the
  send gives up early, or the scan runs past the table and never ends.
- `TypesAreBytes`: the types an application puts are bytes. `rad_put_attr`
  compares the whole number with those of the passwords and `put_raw_attr` stores
  its lowest byte, so 258 is an ordinary attribute to the first and a
  User-Password to the server.

### The arguments

*Induction.* `NaturalSets` states induction over the natural numbers for sets
(`SetInduction`, from a well-foundedness theorem of the library), which the
provers can instantiate, as they cannot the theorems about operators. With it a
recursive function is first shown to exist and then to do what it should: the
sums of tries, the lines of a file and what reading them comes to, the chain of
encrypted chunks, messages written from lists of attributes. `FlattenIs`, about `FlattenSeq` of the
community modules, is the lemma behind the last.

*Type correctness* is proved by one lemma per group of actions; `SendTypeCorrect`
uses the lemma for `RadRequest`'s calls as it is. That `NextServer` is a server (a
`CHOOSE`) needs a least element of a set of natural numbers, `LeastNumber`. For
`ScriptTypeCorrect` the count of references must be bounded with PHP 5 too, where a
closed resource has fewer of them than zvals: `RefBound` is an inequality where
`RefInv` (below) is an equation.

*Requests.* `AttributesTile` and `ScrambleInsideMessage` need each other: the slot
of a password that found no room starts as many bytes before `req_len` as it is
long, and it is `RequestAssumption` and the tiling that keep it behind the header.
`LayoutInv` adds that no value starts inside the header and what an uncreated
request looks like. `CredentialsInv` is the conjunction of the two properties about
passwords; `BuildCases` reduces every call to four kinds (create, refuse, put a
value, put the first User-Password), so that each invariant is proved in four
cases.

*Failover.* The scan's termination depends on two counts that the code keeps
apart: `try` against `total_tries`, and `num_tries` against `max_tries` for each
server. `FailoverInOrder` alone is not inductive. `FailoverInv` adds that while
waiting `total_tries` is the sum of all limits and
`try = TriesUpTo(servers)[srv - 1] + num_tries[srv]`. Hence `try = total_tries`
exactly when no server has tries left (`ExhaustedMeansTotal`,
`TotalMeansExhausted`), so the scan is only started when it succeeds. The two
lemmas use that the partial sums do not decrease, which is where
`LimitsAreNatural` comes in.

*Datagrams.* None of the properties of `sent` is inductive, because a datagram is
made from a buffer that earlier sends have written into. `DatagramInv` relates
the two: `MadeFromRequest` says what a datagram's authenticator and password are,
in terms of its destination and of the number of its request, and that the one in
the buffer has only had passwords added since; `AgreeOnRequest` that two datagrams
of one request differ only in what depends on the destination; `CurrentWasAsked`
that the server waited for was sent what is in the buffer. A retransmission is
then identical because each of its parts is a function of what the property fixes.
An answer that passes `IsValid` has a digest over the buffer's authenticator, and
only datagrams of this request have that; accounting digests can recur, and there
`IsTwin` is the way out. `PasswordsInv` adds `CredentialsInv` and that a datagram
with a placeholder has it filled. `StepKinds` reduces the actions to building,
transmitting, accepting and quiet steps.

*Refinement.* `ExchangeStep` maps each step: building is a new request or another
call of the exchange, a transmission asks a peer, `ReceiveValid` accepts. That it
may accept follows from `AcceptedAnswerIsOurs`, that `left` counts down to the
right peer and giving up has none left from `FailoverInv`, that a peer is one of
`Peers` from `TableFromMenu`.

*Scan.* `ScanInv` adds only the types of the positions. A length byte below 2
becomes a `size_t` that, added to the position, comes round and takes it back by the
two header bytes just passed at most, so it never falls in front of the attributes;
the value returned then ends far behind the message, which is the case
`ScanInsideMessage` names. `ExactInv` says where the scan stands in a
message that was written from a list of attributes: at the start of the attribute
after those it has returned (`Starts`), with the one returned last in front of it.

*Salting.* `InPosReaches` says when the loop is behind its input, `ChunksAre`
that it then has written `len \div CHUNK + 1` chunks, `RoundUpIs` what was
allocated; the two differ exactly if `len` is a multiple of `CHUNK`. Division by
a constant that is not a number is nonlinear, so the quotient's bounds are
lemmas of their own (`DivChunk`, `DivIsUnique`).

*Values.* `EncryptedOpens` is the theorem behind both directions: encryption is a
chain in which each pad is the digest of the chunk before it, decryption computes
the same pads from what it reads, and XORing twice leaves the plain byte.
`AnswerOpens`, `VendorReadsBack` and `ConversionsReadBack` speak of a `letter`
written in an earlier step: `HeldInv` says that the script holds what the server
wrote for it, and that with `fresh` the secret and the authenticator are still
those it was written with. `SecretInv` says that `srv` points at a server once
there is one, so that what is salted has a secret to open with. `KeyReaches`
counts the chunks of what a key is opened from. `WordIs` proves that the four bytes of a number come back, for
bytes of any size.

*Ownership.* That a handle has one owner is not inductive: it depends on the
resource a variable reaches. `OwnInv` says that resource and handle share their
number, that a handle is live exactly while its resource has its type, and that
`rad_close` was called exactly when it stopped being; `VarInv` that variables
hold resources that were opened; `ClosedInv` that a closed one never gets its
type back. These give `ReleasedOnce` and `ClosedIsClosed`. `HandlesAreOwned` also
needs `RefInv`: the references of a resource nobody closed are exactly the zvals
that hold it, so it cannot go before the last of them. A resource closed with PHP
5 has lost a reference that a zval still holds, which is why `RefInv`, like the
property, leaves closed ones out.

*Heap.* `HeapInv` says for each handle which secrets and which socket it has on
the heap. The calls that fill the table are the hard part: the number of secrets
is the length of the table, so `ConfigKeepsTable` must know that reading any file
ends (`LineEndIsInside`: every line is at least one character long) and that
every line adds at most one server and none past `MAXSERVERS`.

*Configuration files.* `Split`, `NumberOf` and `Config` are the last values of
recursive functions. Induction over a line of unknown length and shape is avoided:
`SplitsTo(a, s, b)` says that *some* function leads from state `a` to `b` along the
characters `s`; such runs are put behind each other (`SplitsOn`), and `SplitIs` is
the one place where the recursive function is shown to agree with any of them. What
`split` makes of an entry is then the sum of what it makes of its parts: a word
(`SplitsWord`), a quoted string, by induction over the secret because an escape is
two characters (`SplitsEscaped`), blanks, numbers (`DecimalReads`), the host and
the port behind the colon (`AddressReads`). `EntryReads` is the result for a line:
the server comes back for a handle of its type and is skipped by the other;
`AsideSkips` and `FaultFails` are the same for comments and mistakes. A file is
handled alike: `LinesArePieces` says that `fgets` cuts a file that was put together
from lines that fit at their ends, `ReadsTo`, `ReadsOn` and `ConfigReads` that the
call does one line after the other. `Kept(wanted)` is the table with as many of
the wanted servers as there is room for; one more entry makes it
`Kept(wanted \o <<server>>)` whether or not it fits (`KeptTakes`), which is the
induction step of `EntriesRead`, and after an error nothing changes
(`ReadsNowhere`). `LinesAreAlwaysCut` needs the same of two lines of which the
first ends where the buffer does (`FullLine`, `TwoLinesRead`), and that a carriage
return in front of the last character is refused (`BareReturnFails`).

### Only model-checked

- `SendReturns`, which is liveness, and everything else about fairness: beyond the
  provers used here.
- What the six runs with violations show. These are single behaviours of the code,
  which TLC exhibits.

Every invariant of a passing run, and the refinement, is proved.

## Plan

1. *Done:* all components with state of their own are modelled.
2. *Done:* every invariant of the passing runs is proved, and so is the refinement.
3. Left open on purpose: what "Not modelled" lists. The next thing to add would be
   numbers of more than two digits in configuration files, with their cut to an
   `int` and to the 16 bits of a port.

# credbind-cpp: a TLA+ verification development

`credbind-ssh-authorized-keys` is the offline C++ verifier that OpenSSH's
`AuthorizedKeysCommand` calls with the certificate a client offered. It decides
whether the token carried in the certificate, the issuer's evidence and the
local account rules authorize a login, prints at most one `cert-authority` line
on standard output, and writes one audit event to syslog. Two more command
families check, generate and publish its configuration.

This directory models two kinds of code. One is correct by the order of things:
stages and deadlines, output and audit, files that change while they are read,
publications that race or are cut short. The other reads what strangers wrote:
JSON, Base64, durations, certificates, proofs, configurations, where the
question is whether exactly the right inputs are accepted and mean the right
thing. TLC checks the models on small instances; TLAPS proves the properties of
the first kind, and those of the verdict on a certificate, of the commands with
the configurations they read and write, and of the JSON readers for open-ended
documents, for every value of the constants.

## Inventory

| Component | State it keeps | Operations | Interacts with | What makes it correct |
|---|---|---|---|---|
| verify command (`command.cpp`, `main.cpp`) | the stage it is in, start time and budget, per-policy results, what was written, the event | `run_main`, `run`, `run_verify`, `interrupted`, `deny_verify`, exception handlers | clock, signal flag, configuration reader, carrier verification, stdout, syslog | a line only for a sole acceptor; deadline and signals stop it promptly; one truthful audit event; it ends, unless a file, stdout or syslog call never returns |
| config and sshd-config commands (`command.cpp`) | parsed options, result | `config init`, `config check`, `sshd-config render` | configuration reader, publication, stdout, syslog | exit code, output and audit agree; a signal stops it before it has an effect |
| publication (`config.cpp: publish`) | descriptor, temporary name, offset | one pass of `open` .. `fsync` | directory and disk, other processes | target always whole; success durable; no overwrite without `--force`; no leftovers |
| configuration reader and JWKS reader (`config.cpp: read_file`, `jwks.cpp: load_static_file`) | descriptor, size seen, offset, buffer | `open`, `fstat`, `read`*, `fstat` | writers of the same files | what is parsed was the content of the file at some moment |
| configuration parser and initializer (`config.cpp`) | typed configuration | `parse_and_validate`, `initialize` | JSON reader, JWKS reader | cross-field rules; what is generated is accepted by the parser, as far as its text fits |
| carrier verification (`direct_verifier.cpp`) | none between calls | `verify_carrier`, `verify_token`, `parse_cic` | certificate parser, issuer verification, crypto | order of checks; times with skew and integer bounds; principal and account rules |
| issuer verification (`issuer_verifier.cpp`) | none | `verify`, `validate_policy`, `validate_claims` | JWKS, crypto | binding profile enforced; times; admitted claims only |
| strict JSON readers (`strict_json.cpp`, SAX handlers in three more files) | stack, counters | SAX callbacks | nlohmann::json | depth, member and value bounds; no duplicate members |
| base64 codecs, JWS, certificate parser | offsets | decode, parse | - | canonical encodings only; bounds |
| audit (`syslog_logger.cpp`) | none | `serialize`, `emit` | syslog | only well-formed events; loss never changes the decision |
| crypto (`crypto.cpp`) | none | verify RS256, GQ, ES256, Ed25519, SHA-256 | OpenSSL | one representation of a proof, bound to one statement; OpenSSL's arithmetic is not modelled |

Hard behaviours: the signal flag and the clock are read at different times and
both before a stage that takes long; the same clock origin is used with two
budgets; output is accepted in parts and buffered until the exit; exceptions
may come anywhere, the reporting code included; files are replaced, rewritten
and linked by other processes between two system calls; the machine may stop
between any two of them; several policies are judged and the answer depends on
all of them. The list with the lines where each bites, and the properties that
cover it, is `hazards` in `PROJECT.json`.

## Modules

| Module | What it is |
|---|---|
| `Verify` | one execution of `verify`, from `run_main` to the exit |
| `Decision` | what one verification promises: judge, answer for the sole acceptor, report once |
| `MCVerify` | `Verify` for TLC, with the refinement mapping to `Decision` |
| `VerifyProofs` | theorems about `Verify`, proved with TLAPS: types, line and audit event, deadline and signals, the reason that is logged |
| `DecisionProofs` | `Verify` implements `Decision`, proved step by step |
| `Publish` | `config::publish` run by several processes on one path |
| `Register` | what publication promises: one value, replaced whole, settled later |
| `PublishRefinement` | the mapping from `Publish` to `Register` |
| `PublishProofs` | theorems about `Publish`, proved with TLAPS, the refinement included |
| `Snapshot` | `read_file` and `load_static_file` against programs that change the files |
| `SnapshotProofs` | theorems about `Snapshot` |
| `Issuer` | `issuer_verifier.cpp` as operators: policy, claims, times, order of checks |
| `Carrier` | `verify_token` and `verify_carrier` on top of `Issuer`, asked again as the wall clock moves |
| `CarrierProofs` | theorems about `Carrier`, and the lemmas about rows of checks they rest on |
| `MCCarrier` | the requests and policies that `Carrier` is checked with |
| `StrictJson` | the five SAX handlers as machines over the parser's callbacks |
| `StrictJsonProofs` | theorems about `StrictJson`: the three readers of open-ended documents, and the memory of all five |
| `MCStrictJson` | names, strings and bounds of small documents |
| `Base64` | both decoders and encoders, and the split of a compact JWS |
| `Durations` | the readers of durations and of canonical integers |
| `Utf8` | the loop that decides which names are text, with its three sets of rules |
| `Certificate` | `parse_certificate` and the second reading in `verify_certificate_signature` |
| `Evidence` | the frames of both evidence profiles and the GQ proof |
| `MCCodecs` | inputs of the five modules above, grown or corrupted step by step |
| `ConfigRules` | what `parse_and_validate` admits and builds, and what `initialize` writes |
| `Commands` | `config init`, `config check`, `sshd-config render` and the help, on top of `ConfigRules` |
| `ConfigRulesProofs` | what `parse_and_validate` and `initialize` compute for documents of any length |
| `CommandsProofs` | theorems about `Commands`, on top of `ConfigRulesProofs` |
| `MCCommands` | configurations, policy inputs, files and calls that `Commands` is checked with |

### Verify

`run_verify` is a row of stages, and each stage begins with a call of
`interrupted` (`command.cpp:142`), which reads the clock, then the signal flag.
A stage is therefore three steps: `ReadClock`, `ReadFlag` and the body
(`ParseArguments`, `LoadConfiguration`, `DecodeOffered`, `BeginLoop`,
`VerifyCarrier`, `RecordResult`, `SelectPolicy`, `BoundLine`, `WriteLine`).
Between any two, the environment may let time pass (`Tick`), raise the flag
(`RequestCancellation`) or kill the process (`Kill`). `Throw` is an exception
at any point: `handler` counts which `catch (...)` took it (`run`, then
`run_main`). `Emit` is the one audit call, which may lose the event. `Exit`
flushes standard output.

Data is abstracted to what the decision needs: a policy's verdict is an
acceptance or one error, with or without a verified core (`CarrierAuditContext`);
an output is nothing, a part, or the whole line (`Extent`); an event is its
outcome, its reason, the policy it names and the facility. `overrun` is a
history variable that counts bodies begun after the budget was spent or a
signal came.

### Publish

Each process runs `publish` once: `Begin` (path checks, `open`), `Inspect`
(`fstatat`), `Create` (`openat` with `O_EXCL`, next name on `EEXIST`), `Write`,
`Sync`, `Rename` or `Link` and `Unlink`, `SyncDirectory`, and `Cleanup` on the
error paths. `dir` is the directory as processes see it, `disk` the one a stop
of the machine leaves; `size` and `synced` are a file's bytes in memory and on
the disk. `Die`, `Stop`, `WriteBack` and `Tamper` are the rest of the world. A
read or write that `EINTR` interrupts changes nothing and is a stutter.

### Snapshot

`load_and_validate` reads the configuration and, from inside
`parse_and_validate`, the JWKS it names. Each of `open`, `fstat`, `read` and the
last `fstat` is an action (`Open`, `Stat`, `Read`, `Accept`), and between any two
another program may publish a new file under the name (`Replace`) or rewrite the
file in place (`Truncate`, then `WriteBlock`s). The two readers are one pair of
actions with their differences named: `Waits` (only `load_static_file` opens with
`O_NONBLOCK`) and `SameSize` (only it looks at the file again). A file is a
sequence of blocks, each marked with its version; parsing is abstracted to
whether the last block is there. `during` and `torn` are history variables.

### Issuer and Carrier

The code is a long row of checks, each with its error; the model is the same row
(`FrameChecks`, `TokenChecks` with `EnvelopeChecks` and `IssuerChecks` inside,
`CertificateChecks`), and the answer is the error of the first that fails. What decoders and
signatures say is the request's set of `faults`; what the code computes with
(dates, claims, predicates, principal, account rules) is there as values. Dates
have the range of `integer_claim`, sums that of `int64`, certificate times that
of `uint64`; `MaxDate` and `MaxInt` stand for 2^53-1 and 2^63-1. `Judge` is one
call of `verify_carrier` and `Tick` the wall clock, so that properties can speak
about the same certificate offered again later.

### StrictJson

The vendored parser is external: `ReadStart`, `ReadScalar`, `ReadKey` and
`ReadEnd` are its callbacks for a grammatical document, which a syntax error
(`ReadGarbage`) may end at any point; `ReadFinish` is what the reader does when
the parser returns. `sax` is the handler that was called (`HeaderSax`,
`ConfigSax`, `ObjectSax`, `CoreEnvelopeSax` or `JwksSax`): its counters, the sets
of names of the open objects, its stack of unfinished values, its error.
`doc` is what has been read, kept apart as paths and values; the properties
compare it with what the handler accepts, builds and reports.

### The codecs: Base64, Durations, Utf8, Certificate, Evidence

These are operators, named as the code's functions are, each followed by a
definition of what the format means that does not go through the decoder: all
byte strings and their encodings, all ways to read a text as numerals with
units, all records of a certificate and their encoding, honest proofs. A
decoder is right when it accepts exactly the images and returns what they came
from. `Certificate` reads a blob cell by cell with the offsets of `Reader`; a
number is one cell, so a length can have any value another field can.
`Evidence` computes with integers modulo a small number, and the transcript
hash is any function of the transcript's cells. `MCCodecs` has one action per
way to come by an input: `Grow` appends a symbol to a text; `Corrupt`,
`Truncate` and `Insert` change the encoding of a certificate or a proof.

### ConfigRules and Commands

`ConfigurationError` is the row of checks of `parse_and_validate` in the code's
order, down through policies, predicates, key sources and accounts;
`parse_and_validate` builds the typed configuration, and `Admit` is its last
loop, which gives the claims of a rule to the policies of its issuer.
`initialize` is the same row applied to what the options and the policy input
say, followed by the rewriting of the policies in a fixed order of members
(`ordered_issuer`). A document has two texts: `initialize` holds the one on one
line (`Compact`) against the byte bound of `parse_json` (`config.cpp:1172`,
`194`) and returns the indented one (`Indented`, `config.cpp:1179`), whose size
is looked at by whoever reads the file (`Reread`: `read_file` refuses a file
above the same bound). The two sizes are functions of the document that the
model leaves open.

`Commands` runs one call after another on the same files: `Start`, `Dispatch`
(the command line and the first look at the signal flag), `Work` (the files are
read), `Look` (the second look at the flag) and `Effect` (output, publication
or the verdict with its audit event). `Signal` may come at any of these stages,
`Throw` before any effect, and `Edit` is another program that changes the files
once, between calls or within one. `written` is how much of the output was
taken; `warned` and `made` are history variables.

## Runs, bounds and what they show

| Run | Question | Bounds |
|---|---|---|
| `verify_stages` | line only for a sole acceptor; audit event truthful, single, and matching the verdicts; prompt stop; it ends unless a call it made never returns | 3 policies (two acceptors and a rejection together), budget 2, clock up to 3 (before, at and past the budget), two carrier errors |
| `verify_decides` | `Verify` implements `Decision`, also under a clock that steps back | 2 policies, budget 1, clock 2 |
| `verify_silence` | finding: a run that is no allowance may have delivered bytes | 1 policy |
| `publish_paths` | the path is one register, replaced whole and lastingly and only as asked; own temporary names, no leftovers; every call returns | 2 processes with one process identifier (so their names collide), 2 names each, free or all in use at first, 2 write steps, 1 stop, 1 foreign change |
| `publish_regular` | finding: an entry that is not a regular file is replaced | as `publish_paths` |
| `snapshot_loads` | a document nobody wrote to meanwhile stood whole under its name; keys never older than the configuration; the load ends | 2 versions of each file, 3 blocks, replaced and rewritten in place, a FIFO for the JWKS |
| `snapshot_fifo` | finding: the load waits for ever on a FIFO | the configuration's name may lead to a FIFO |
| `carrier` | acceptance exactly in the window, once, bounded by the credential, monotone in the policy; comparisons exact at the ends of the integers; core reported only when verified; forged claims unread; commitment bound under each profile; unadmitted claims decide nothing | 864 orders of the dates of a request under 8 policies, the clock through all of them; `MaxInt` 15, `MaxDate` 8 with dates, durations and certificate times at and beside each end; every pair of 20 faults with right and wrong claims; 100 claim sets, 3 profiles, 12 policies |
| `strict_json` | each handler accepts exactly the documents of its rules, builds what the document says, reports a limit as a limit | the three open-ended readers: depth 3, 4 members, 6 values, three names of which one is too long and one empty; the two closed shapes: the bounds of their largest document, 2 keys |
| `codecs` | one text for one value, and no other text accepted | 1 bit per unit (symbols of 3, bytes of 4), texts up to 8 symbols; durations up to 8 characters, small units, integers that end at 14 and 6; names up to 5 bytes around every boundary of UTF-8; two kinds of certificate with up to two fields off, or two cells changed, removed or inserted; proofs of 2 rounds modulo 15 |
| `commands` | exit, output, effect and audit agree; what `init` makes is accepted and means what was asked; what is accepted is sound and usable; what is rendered reads back | configurations with one thing wrong in the root, a policy, a rule or an account, policies and accounts combined; all rows of up to 3 flags of 6; paths of up to 2 characters and the absolute ones of 3; one edit, one signal at a time, short writes, exceptions; texts of at most 8 units, where a policy input has as many units on one line as audiences (1 to 9) and twice as many when indented |
| `commands_size` | finding: what `init` publishes is refused by `check` | as `commands`, with policy inputs of 1 to 9 audiences |

A handler treats all names alike but for the closed shapes, and only compares
counters, so small bounds show each comparison on both sides; the closed shapes
need the bounds at which their largest document is still accepted, since a
smaller one would hide the rest of the shape. In `codecs` the widths are scaled
down until every number is near an end: a unit of one bit leaves one, two or
three bits over as the code's two bits do, and seconds, minutes and hours
divide the small maxima the way the real ones divide 2^64. Two changed cells
reach the disagreement of two lengths; one field off and one beside it reach
every pair of checks. The bound on a certificate's size (46 cells) is that of
the largest one that is complete, so a field too many is over it. In `commands`
two things wrong at once fix the order of the errors, and two policies of one
issuer beside one of another, with two accounts, are the least with which
admitted claims can go to the wrong one.

Two blocks suffice for a mixture and a short read between them; with a third a
file can grow past the size that was seen. Comparisons in `Carrier` depend
on the order of at most six times and two durations, which the small ranges
exhaust, and the ends of the types are the only places where a width shows. Two
faults suffice because each answer is decided by the first of them.

Two processes are enough for each race of one target and one name; a third
would only wait for one of the two. Three policies are the least number with
which "exactly one" differs from "first", "last" and "not all" in the loop.
`CHECK_DEADLOCK FALSE` is set for the processes that end (`Verify`, `Publish`,
`Snapshot`, `StrictJson`, `Commands`) and for the inputs of `MCCodecs`, which
stop growing; `Carrier` may always be asked again.

Fairness: `Verify` has weak fairness of what the process computes by itself
(`Computation`): a process that can run is scheduled. Nothing is owed by the
rest. Time need not pass, signals, kills and exceptions need not come, and the
calls that the process makes (`Call`: the load of the configuration, the write
of the line, the audit event, the flush at the exit) need not return. None of
them has a deadline; `read_file` waits in `open` on a FIFO, as `snapshot_fifo`
shows, and a full pipe or log socket blocks as well. `Termination` therefore
says that the process ends or waits in one of these calls for ever: the stages,
the loop over the policies and the exception handlers never keep it running.
That the loads themselves end, but for that FIFO, is `LoadReturns`.
`Publish` has weak fairness per process, for its next system call to be
answered. System calls that never answer (a hung network file system, endless
`EINTR`) are outside that assumption. `Snapshot` has weak fairness of the
reader's steps; `open` on a FIFO without a writer is not enabled, which is what
`snapshot_fifo` shows.

## Proofs

`VerifyProofs` proves, for any number of policies, any budget, clock and error
sets, steady clock or not:

- `TypeCorrect`: `Spec => []TypeOK`, with `TypeInv`, which adds that `index`
  stays in the loop's bounds and that the stage agrees with the handler count;
- `LineUnambiguous`, `AuditTruthful`, `OneAudit`: the safety properties of the
  same names, from the inductive `SafetyInv`. It adds to them `LoopGathers` (in
  the loop, `successes` and `authenticated` hold exactly the policies before
  `index` with that verdict, and those after it are not judged yet),
  `ReportLast` (nothing is logged before the report stage) and `EventTruthful`
  (the event under construction already has what the log must have). Without
  `LoopGathers` a state with two acceptors but one recorded success would be
  allowed, and the line would be ambiguous in the next step.

The assumptions are those named in `Verify`: bounds are natural numbers, and
the errors of the stages are not those that `interrupted` alone gives.

It proves three more safety properties of `Verify` on top of `SafetyInv`, each
with what it needs to be inductive:

- `InterruptionReal` (`InterruptionIsReal`), with `ReasonReal`: a run on its way
  to its report already has a reason that is true, since the flag and the clock
  were read steps before;
- `StopPrompt` (`StopsPromptly`), with `PromptInv`: until the configuration is
  loaded the budget is the default one, and a body that began late is the last,
  because its phase ends in the next check. The configured budget is never
  longer than the default, without which a late check could pass again;
- `SelectionMatches` (`SelectionMatchesVerdicts`), with `SelectionInv`: the error
  the loop keeps is that of the first policy, from its first turn on.

`DecisionProofs` proves `VerifyDecides` (`Decides`): each step of `Verify`, with
its clock, signals, exceptions and kills, is a step of `Decision` or a stutter.
`DecisionInv` says what the mapping needs: no bytes are delivered that were not
written, and none are written unless the recorded successes are the acceptors.

`PublishProofs` proves, for any number of processes, identifiers, temporary
names and sizes, and any number of deaths, stops and foreign changes:

- `TypeCorrect`, `NeverTorn` (`TargetIsWhole`), `NamesAreOwn` (`OwnTemporary`),
  `SuccessLasts` (`SuccessIsDurable`) and `CleansUp` (`NoLeftover`), each a
  consequence of one inductive invariant `Inv`;
- `NeverClobbers` (`NoClobber`), from `Inv` and each step;
- `Implements` (`PublishesAtomically`): every step of `Publish` is a step of
  `Register` under the mapping, or changes nothing that `Register` sees.

`Inv` follows a process's own file from one system call to the next. Until it is
created no name leads to it (`Unmade`), then the one temporary name does and no
other (`OwnTemporary`, `OneName`), and once the entry is placed and the temporary
name removed none does (`Unnamed`). Its size is `Full` after the last write, on
the disk too after the `fsync` (`Written`), and nothing shortens it while PATH or
the disk's PATH leads to it (`WholeTwice`, which speaks of both directories and
both sizes because a stop makes one pair the other). A placed entry that has not
settled belongs to a process that has not reported yet, or has failed
(`Settling`): without it a process whose entry a stop took back could still
report success. The assumptions are `PublishAssumption` and `ForeignAssumption`:
process identifiers are positive, so that the target is none of the temporary
names, and processes are not entries of other kinds.

`SnapshotProofs` proves, for any number of versions, any bound on sizes and any
steps of the writers:

- `SnapshotTypes` (`TypeOK`): what a reader has read never exceeds the size it saw;
- `LoadsStand` (`SnapshotStood`) and `KeysCover` (`KeysCoverConfiguration`).

Their invariant `SnapshotInv` has four parts: every inode holds a beginning of
one version, the one under the name a beginning of the newest, and the
configuration is never newer than the keys (`FilesInv`); the reader's state
agrees with its program counter (`ReaderType`); while nobody writes to the file
it has open, its buffer is a beginning of that file, which stood under the name
if it is whole, and is no older than the configuration that led to it
(`ReadInv`); and the configuration that was accepted is a version that exists,
no newer than the keys in the end (`LoadedInv`). Without `ReadInv` a reader
could hold half of one version and finish with another.

`CarrierProofs` proves, for any requests and policies that `CasesAssumption`
admits, any width of the integers and any clock:

- `CarrierTypes` (`TypeOK`), `CoreAuthentic` (`CoreIsAuthentic`),
  `AuthorityBounded` (`AuthorityIsBounded`), `TimesExact` (`TimesAreExact`),
  `ForgedUnread` (`ForgedClaimsAreUnread`), `AdmittedDecide`
  (`OnlyAdmittedDecide`);
- `ValidityEnds` (`ValidOnce`) and `TighteningSafe` (`TighteningNeverAdmits`),
  which speak of a request and a policy while no sum leaves its integers
  (`SumsFit`).

The inductive invariant, `CarrierInv`, is short: the case is one of the cases and
the last answer was that to the same request at a time that has passed. The
argument is about the answer, the error of the first check that fails in a row
of some thirty. `LeastFailure` finds that check, and `ErrorOfFirst`,
`ErrorOfRow` and `ErrorOfTwoRows` say what the error of a row, and of two rows one
after the other, is; `AnswerError` then cuts the row at the two places where it
looks at the clock. What stands before, between and behind does not change with
time, so an answer later differs from one now only by a comparison whose sides
have moved apart. `ForgedUnread` cuts it before the first claim that is read,
behind the issuer's signature.

`CasesAssumption` says that a request and a policy have their members, that dates
are integers, missing or unreadable, that certificate times are 64-bit, and that
a policy admits the claims it reads, which `parse_and_validate` sees to
(`config.cpp:1017-1019`). TLC evaluates it for the cases of `carrier`.
`SumsFit` holds in the program unless the clock or a date, with a duration of
the policy added, reaches 2^63 seconds, or the beginning of a certificate 2^64.
The two properties are false without it, since a sum that overflows refuses what
a shorter one admits; the run has cases on both sides.

`CommandsProofs` proves `ReportsTrue` (`ReportsAreTrue`), for any files, any edit
of them and any calls. The inductive `CommandsInv` adds what holds on the way to
the effect: nothing is written, placed or logged yet (`Untouched`), a signal that
was there before the last look stopped the call (`WarnedInv`; the help does not
look), and what was read never has the kind of an interruption (`CallType`). The
last rests on lemmas about `ConfigRules`: whatever a document says, the error
found in it is one of `FileErrors` (`ConfigurationKinds`, `InitializeKinds`).
Were it not, a check of such a file would be logged by no event, since `serialize`
refuses an invalid configuration with that reason. `ScenariosAssumption` says the
same of the files that cannot be read; only `command.cpp` makes that kind.

`ConfigRulesProofs` is about the functions that the commands call, for documents
of any length:

- `NumberMeans` and `WholeSecondsRange`: a number that is read is what its digits
  mean and never a value that wrapped around, and a duration fits the signed
  seconds;
- `ParsedSound`: what `parse_and_validate` accepts is sound (`IsSound`);
- `InitializedMeans`: what `initialize` writes is what was asked for and fits the
  byte bound on one line; read again, it is accepted if it fits when indented
  as well (`Readable`), and is refused as `state_invalid` if it does not.

Every loop of these functions is a fold, which the community modules define by a
function chosen by its equation. `IterExists` shows that there is such a
function, and each fold has a lemma of its own (`NumberRow`, `SplitsRow` and
others) that lays its values out in a row, each the step of the one before;
what holds along the row is then proved by induction on the set of places where
it holds (`Numbers`, `AlongRow`). For `ParsedSound` the claims that a policy
admits are followed along the row of `Admit`: after each rule they are those of
the rules so far, and the last loop has seen all rules. `InitializedMeans` needs
that reading undoes rewriting: `ordered_issuer` keeps each member that the
checks admit.

`CommandsProofs` carries this through the calls, by the inductive `DocumentsInv`:

- `InitializedAccepted` (`InitializedIsAccepted`, which asks that the indented
  text fits) and `AcceptedSound`
  (`AcceptedIsSound`). What the files hold, also after an edit or a publication,
  is a document; the options that the flags leave are texts (`FlagsTexts`, along
  the row of words); the last initialization means what was asked (`MadeInv`),
  and what is about to be published is a document (`GotInv`). That no policy of
  an accepted configuration is unusable (`Usable`) joins the checks of
  `parse_and_validate` to those of `validate_policy` in `Issuer`;
- `RenderedExact` (`RenderedIsExact`), with `FragmentInv`: a fragment was made of
  words that `validate_render_path` and `valid_command_user` let pass. Such a
  word holds no blank, line end or percent (`PlainPath`), so that each split goes
  on with its last part through it (`SplitsWord`) and opens new parts only in
  the fixed text (`SplitsCount`); `FragmentLines`, `LineWords`, `UserWords` and
  `FragmentPercents` count them.

Their assumptions: the digits are listed (`DigitsAreListed`), the signed integers
end before the unsigned ones (`SignedIsSmaller`), a second is a whole number of
each smaller unit (`UnitsDivide`), the bounds are positive and those of sizes fit
(`ConfigLimits`); a file that can be read holds a document (`ScenariosAssumption`);
the defaults of the options are texts, and the characters of each word that is
read as a number, a path or a user are given (`OptionsAssumption`). TLC evaluates
all of them on the run `commands`. A document (`IsDocument`) has objects, lists
and texts where the parser goes through objects, lists and durations, of any
length and with any members, present or not; a value of another kind in such a
place is one that the checks refuse as the code does (`NotObject`, `NotList`,
`NotDuration`).

`StrictJsonProofs` proves, for the three readers of open-ended documents (`Trees`:
`HeaderSax`, `ConfigSax` and `ObjectSax`), any names, strings and bounds:

- `TreesExact` (`AcceptsExactly`), `TreesReturnDocument` (`ResultIsDocument`) and
  `TreesReportLimits` (`LimitsAreReported`).

Their invariant is `TreeInv`: while the reader parses, `Reading`, afterwards the
three properties. `Reading` ties the handler to the document. `Counting` says
that the counters are the numbers of names and values read; `Clean` that
nothing read breaks a rule yet; `Rooting` when the result is whole. `Tree` is the
heart of it and speaks of every open container, the i-th context having the
names that were read in the i-th container and the values that stand below it,
but for the one that is being read, which the contexts further in hold. A
container that ends gives its value to the context outside, and `TreeEnded` shows
that this is where the document has it; a name that is in the context is one
that was read at the same path, and the other way round (`Keyed`), so a
duplicate is refused and nothing else is. The lemmas at the beginning of the
module are about paths: what is below one path and not below another.
`TreeOpened`, `TreeScalarRead`, `TreeNamed` and `TreeEnded` are the four things
that can happen to a tree, about any tree; `StartReads`, `ScalarReads`, `KeyReads`
and `EndReads` are the handler's steps. The assumptions are that bounds are
positive (`BoundsArePositive`) and that different indexes of an array have
different decimal texts (`IndexesDiffer`), which TLC evaluates up to the bounds.

For all five readers the module proves `ReadersStayBounded` (`TypeOK`): whatever is
read, the nesting, the names held, the values built and the keys parsed stay
within the reader's bounds, and the failure is one that its caller may report.
`TypeOK` bounds what is stored while the code bounds counters, so the invariant
is that each counter accounts for what was stored (`Room`): the names held in all
contexts are at most `members`, the values built and the open contexts together
at most `values`, the keys parsed and the one being read at most `keys`. An
ending context needs this sum, since it moves what it built outwards
(`TreeEndSane`). A callback that passes a bound stops the handler before it
stores anything, which is why what is stored stays `Bounded` after a failure. `JwksSax`
has no depth bound of its own: the kind of a context tells its depth
(`KeySetDepth`), and the third admits no container.

Only model-checked:

- liveness (`Termination`, which says how a run of `Verify` may not end,
  `EveryCallReturns`, `LoadReturns`) and what depends on
  fairness, which the prover does not reach;
- the codecs (`TextsAreExact`, `DurationsAreExact`, `CertificatesAreExact`,
  `EvidenceIsExact`): their reference definitions are recursive operators over
  texts, which the prover does not read. The readers of numbers and durations are
  proved not to wrap around or leave their range (above), but that a duration
  means what its text says in every spelling is checked by `codecs` alone;
- the properties of `StrictJson` other than `TypeOK` for the two readers of closed
  shapes (`CoreEnvelopeSax` and `JwksSax`), which are within it.

## Findings

- `verify_silence`: the help text says "Denial produces empty stdout"
  (`command.cpp:94`) and the tests count a failed write as a denial
  (`adapters_test.cpp:510`). After a short `sputn` the accepted part of the line
  remains in standard output although the event says `internal_error`.
- `publish_regular`: the README (191-192) limits forced replacement to regular
  files, but the type is inspected by `fstatat` and the replacement is a later
  `renameat`, which replaces whatever non-directory is there by then.
- `snapshot_fifo`: the README (186-187) says that individual file calls are
  bounded by admitted input sizes; `open` of a configuration that is a FIFO
  is not bounded at all, because `read_file` lacks the `O_NONBLOCK` that
  `load_static_file` has.
- `commands_size`: the tests call initializer output "accepted by production
  parser" (`adapters_test.py:194`), and `OPERATIONS.md` (69-73) has the published
  file checked next. `initialize` measures the document on one line
  (`config.cpp:1172`) and writes it indented (`config.cpp:1179`), so that near
  1 MiB it publishes a file that `config check`, and every login, refuses. The
  program does so: from a policy input of 1,048,114 bytes `config init` ends
  with 0 and publishes 1,049,010 bytes, above the bound of 1,048,576, and
  `config check` of that file ends with 2 and `state_invalid`. The model is that
  of `InitializedIsAccepted`, whose condition `Readable` excludes just this case.

Also seen while modelling, without a property: a JWKS rewritten in place with the
same size while it is read is accepted as a mixture of both versions, since
`jwks.cpp:318` compares sizes alone; the allowance is logged before
standard output is flushed; `publish` may return an error after the target is in
place (failed `unlinkat` or directory `fsync`); after a failed `fsync` the
descriptor is set to -1 without being closed (`config.cpp:1258-1260`); the error
paths do not synchronize the directory, so a stop of the machine can bring a
temporary name back. `clock_skew` has no upper bound in `parse_and_validate`
(`config.cpp:828`), while `initialize` refuses more than 30 s
(`config.cpp:1101`). `ObjectSax` reports a document that is too deep as
malformed where the other handlers report a limit. An exception during
`config check` ends it without an audit event (`command.cpp:630`), so
`ReportsAreTrue` excepts that case. An age limit so large that its sum overflows
refuses every credential, so `TighteningNeverAdmits` is stated while no sum
overflows. The first stages are checked against the default of ten seconds,
before the configured budget applies.

## Not modelled

- RS256, ECDSA, Ed25519 and SHA-256 are OpenSSL's: a signature's outcome is an
  input of `Carrier`, and the hash of a GQ transcript stands for any function.
- The JSON grammar is the vendored parser's; only what it calls is modelled, and
  numbers are a kind of value. The claims of a token enter `Carrier` as values
  or as faults.
- The grammars of an HTTPS URI and of a policy identifier are sets of names in
  `ConfigRules`, because nothing else depends on the characters.
- Wording and layout: messages, help, and the fields of an audit event. An event
  is at most 996 bytes long, below the 1024 at which `serialize` would replace
  the text by its hash, so that only the choice of the outcome and the loss
  of an event are behaviours.
- `Commands` leaves out the flush of standard output at the exit, which `Verify`
  has, and the steps of `publish`, which `Publish` has; here its outcome is an
  error before or after the entry is in place. An exception in the middle of
  an effect is the short write.
- Tests, fuzzers, packaging scripts and the vendored headers are not the program.

## Plan

Done: `Verify`, `Publish`, `Snapshot`, `Issuer`, `Carrier`, `StrictJson`, the
codecs, `ConfigRules`, `Commands`, and the theorems about `Verify`, `Publish`,
`Snapshot`, `Carrier`, `ConfigRules`, `Commands` and `StrictJson` (its tree
readers, and the memory of all five). Next, in this order:

1. Proofs about the rest of `StrictJson`: the two closed shapes, whose stack has
   at most three contexts.
2. `Evaluation`: `Verify`'s loop composed with `Carrier`, each policy judged at
   its own reading of the wall clock.

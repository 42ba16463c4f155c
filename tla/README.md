# A TLA+ model of io-email

io-email is a Rust library that gives one e-mail API over IMAP, JMAP, Gmail,
Microsoft Graph, SMTP, Maildir and m2dir. Most of it is *coroutines*: state
machines with a `resume(bytes)` method that yield the I/O they want
(`WantsRead`, `WantsWrite`, file operations) and keep all of the control; small
blocking clients (`*/client.rs`) pump them. This directory holds TLA+ models of
the parts where order, failure and concurrency matter, the TLC runs that check
them on small instances, and TLAPS proofs of the results for every instance.

Paths below are relative to the crate root (`src/envelope/jmap/watch.rs` is the
JMAP watcher).

## 1. Inventory

| component | code | state it keeps | operations | hard behaviour | what makes it correct |
|---|---|---|---|---|---|
| JMAP mailbox watcher | `envelope/jmap/watch.rs`, `envelope/event.rs`, pump in `jmap/client.rs:374-418` | shadow of the mailbox, Email state, queue of events, `State` | subscribe, read frame, end of cycle, Email/changes, Email/get, apply diff, emit | server changes between any two requests, truncated answers, streams that end silently, shutdown flag flipped by another thread, consumer that goes away | events always turn what the consumer knows into the shadow; no difference is out of reach of the next diff; the watch converges and stops when told |
| IMAP incremental diff | `imap/client.rs:386-544`, `envelope/imap/diff.rs` | none between calls: the checkpoint blob and the ancestor are the caller's | SELECT (QRESYNC), UID FETCH, baseline, listing | other sessions between two commands, UIDVALIDITY changes, failures half-way, `u32` end of range | the checkpoint is old enough for the ancestor; a quiet diff is exact |
| JMAP incremental diff | `jmap/client.rs:420-559`, `envelope/jmap/diff.rs` | as above | Email/changes rounds, two Email/get, baseline, `diff_mailboxes` | changes between rounds, `cannotCalculateChanges` in any round, short-lived emails | as above |
| Gmail history watcher | `gmail/client.rs:284-337`, `envelope/gmail/watch.rs` | poll cursor (in io-gmail), chunks of the sleep | poll, fold diff into events, send, sleep | order between kinds of change within one diff is lost; shutdown read only between sleeps; receiver gone | a consumer is wrong only about what cannot be told in kinds; the watch ends soon |
| IMAP IDLE watcher | `envelope/imap/watch.rs`, pump in `imap/client.rs:351-384` | none (io-imap's watcher has it) | translate events | depends on io-imap | faithful translation |
| IMAP session operations | `imap/client.rs`, `message/imap/*`, `flag/imap/store.rs` | selected mailbox (`auto_select`), connection | select, get, store, copy, move, append with UID lookup, delete | EXPUNGE takes other sessions' messages; append succeeded but UID lookup failed; a mailbox left selected | operations touch what they were asked to touch |
| m2dir store | `m2dir/client.rs`, `message/m2dir/*`, `flag/m2dir/store.rs` | files and sidecars | store, flags, get, list, copy, move = get + store + delete | crash between steps, another process on the same message, batch stopped by the first error | no message is lost; a batch is a prefix; a listing leaves out no file it found |
| Maildir store | `maildir/client.rs`, `message/maildir/*`, `flag/maildir/store.rs` | files of `cur` and `new` whose names hold the flags; `tmp` | read the directories for an id, then rename, copy or read; add: write to `tmp`, then rename; list: read `cur` and `new`, then the files; delete sets T | a rename by another process between look-up and use, or a message that goes from one directory to another while they are read | no message is lost, no flag set meanwhile is undone, a listing shows what stayed in place |
| Gmail, Graph and JMAP message operations | `{message,flag,mailbox}/{gmail,msgraph,jmap}/*` | position in the id list, `State` of a chain | flags, move, copy, delete, mailboxes; upload, import, submit | one request per id or one for all; refused, or done without an answer; another client meanwhile | a failed batch has changed a prefix; flags come back as asked; nothing is sent unasked or sent twice by one call |
| Client dispatcher | `client.rs` | seven optional backend slots | every shared operation, by its own priority list | several backends registered: ids of one end up at another | ids go back to the backend they came from |
| Flags | `flag/types.rs`, `*/convert.rs` | - | add, remove, set; conversions both ways | a label that stands for the absence of a flag; flags a backend does not have | what is stored is what is listed |
| Listing and pagination | `envelope/*/list.rs` | position in a multi-request page | window arithmetic, tokens, one get per message | mail that comes and goes between the requests of a page or between pages; `u32` products | a page is a slice; pages cover the mailbox |
| Search | `search/*`, `envelope/*/search.rs` | a `post_filters` list | parse, evaluate here, translate to IMAP and JMAP | precedence; a date condition that becomes a bound plus a check | one query finds the same messages on every backend |
| Mailboxes | `mailbox/*` | - | list, create, delete, counts | deletion under a running operation | - |
| SMTP | `smtp/*`, `message/smtp/*` | - | one transaction (io-smtp) | - | - |

**How they interact.** The caller owns an `EmailClientStd`; each operation goes
to the first registered backend of a per-operation priority list, whose client
builds a coroutine and pumps it over a socket, an HTTP client or the file
system. Watchers push `WatchEvent`s into an `mpsc` channel and share one
`Arc<AtomicBool>` with whoever wants to stop them. Sync engines store the
opaque checkpoint of `EnvelopeDiff` next to their own copy of the mailbox (the
*ancestor*). `PROJECT.json` lists every component with its status and every
hazard with the properties that cover it, or why none does.

## 2. Modules

| module | models | extended by |
|---|---|---|
| `MailboxFeed` | abstract: what a watcher promises its consumer | - |
| `JmapWatch` | the JMAP watcher, its pump, the server, the shutdown flag, the consumer; implements `MailboxFeed` | `MCJmapWatch`, `JmapWatchProofs` |
| `GmailWatch` | the Gmail watcher, the account's history, the caller, the consumer | `MCGmailWatch`, `GmailWatchProofs` |
| `ImapDiff` | the IMAP diff and baseline, the other sessions, the caller | `MCImapDiff`, `ImapDiffProofs` |
| `JmapDiff` | the JMAP envelope diff and baseline, the other clients, the caller | `MCJmapDiff`, `JmapDiffProofs` |
| `ImapSession` | the per-message operations of the IMAP client, the other sessions, the caller | `MCImapSession`, `ImapSessionProofs` |
| `CopyStore` | abstract: a store of whole messages that are found, put, dropped and marked in separate steps | - |
| `M2dirStore` | the m2dir operations, one file operation at a time, several processes, interruptions; implements `CopyStore` | `MCM2dirStore`, `M2dirStoreProofs` |
| `MailStore` | abstract: a store whose operations on messages are atomic, one by one, and whose listings read a mailbox in two parts | - |
| `MaildirStore` | the Maildir operations, likewise, with other programs that deliver, expunge and take messages from `new` to `cur`; implements `MailStore` | `MCMaildirStore`, `MaildirStoreProofs` |
| `EmailClient` | the dispatcher, and the message, flag and mailbox operations of Gmail, Graph and JMAP | `MCEmailClient`, `EmailClientProofs` |
| `SearchQuery` | pure: the query language, its parser, its evaluation and translations | `EnvelopeListing` |
| `Paging` | pure: which messages are on a page, by window, by position and limit, by cutting a list | `EnvelopeListing`, `ImapDiffProofs` |
| `EnvelopeListing` | listings and searches page by page on every kind of backend; composes `SearchQuery` and `Paging` with the other clients of a mailbox | `MCEnvelopeListing` |

Definitions named `...` after a definition they precede and commented *Mutant*
are plausible mistakes in that definition. They are used to test the
properties, never by the specifications.

### JmapWatch

State and code: `pc` is `State` (`watch.rs`), `running` says whether `resume()`
is executing or parked at a yield, `latest` is `latest_change`; `shadow`,
`emailState`, `pending`, `suppress` are the fields of `JmapWatchMailbox`.
`mail`/`stamp`/`srv` are the server: the keywords of each email, the Email state
of its last change, the current state. `sub`, `note`, `owed`, `net`, `chg`,
`seen` are what is on the wire. `replica` is the mailbox as a consumer that
folds the events sees it.

`Feed == INSTANCE MailboxFeed WITH ...` is the refinement: the events the
consumer folds and the shadow behave as the abstract feed.

One action per arm of `resume()`'s loop: `Resume` (flag check at the top),
`OpenStream`, `AwaitFrame`, `TakeFrame`, `EndCycle` (`handle_cycle_end`),
`AwaitReply`, `DispatchGet` (`dispatch_get`), `ApplyDiff` (`apply_diff`),
`Emit`, `Resubscribe`, `Fail`. The server acts between any two of them, and
inside a running `resume()` too; `AnswerChanges` allows every answer RFC 8620
allows, truncated ones included, and `AnswerGet` reads the mailbox later.

The io-jmap coroutines the watcher drives (event source, Email/changes,
Email/get) are external, modelled by how `watch.rs` uses them. Two assumptions
are made about them: the event source shares the flag and completes with `Ok`
when it finds it set (it is given the flag, `watch.rs:117,144`), and an id
created and destroyed since the old state is told as destroyed or not at all.

An email carries keywords only: subject, addresses and dates never change, and
`apply_diff` compares keywords alone.

### ImapDiff

`msg`, `stamp`, `modseq`, `validity` are the mailbox, with the mod-sequence of
every message's last change. `pc`, `cached`, `sel`, `new` are the call in
progress: the decoded `ImapState`, the SELECT response, the fetched window.
`state` and `ancestor` belong to the caller, who applies the three buckets and
stores `new_state` with the result, or lists the mailbox when told
`FullListRequired`.

`SelectQresync`, `FetchNew`, `Apply` are `diff_envelopes`; `WithoutQresync` and
`StartBaseline` its early returns; `SelectPlain`, `FetchLast`, `List` are
`diff_baseline` and the listing that follows; `Fail` is any command that fails,
or a caller that dies. `Deliver`, `StoreFlags`, `Expunge`, `Recreate` are other
sessions, between any two commands. `Window` is `UID FETCH high+1:*` with the
IMAP rule that a range holding `*` always holds the last message, and is empty
when `high + 1` overflows (`MaxUid` stands for `u32::MAX`).

Left out: mailboxes without mod-sequences (NOMODSEQ), unsolicited FETCH
responses inside the window, a SELECT response that lacks UIDVALIDITY in
`diff_envelopes` (the code then assumes it unchanged).

### JmapDiff

`mail`, `birth`, `stamp`, `srv` are the account: keywords, and the states of an
email's creation and last change. `cursor`, `ids`, `new`, `upd` are the call:
the state reached by the rounds, `created_ids`/`updated_ids`/`destroyed_ids`,
and the two Email/get. `Changes` is one round; `CannotCalculate` may happen in
any of them. `Omitted` holds the ids the server may leave out of Email/changes when
they were created and destroyed since the old state, as RFC 8620 (5.2)
recommends. The account has one mailbox, because Email/changes is global
to the account and the code ignores the mailbox argument; what that does to an
ancestor of one mailbox among several is listed as a hazard.

### ImapSession

`mail`, `nextUid` are the account, `selected` is the mailbox of the connection,
`call` and `step` are the coroutine in progress: its arguments and the command
it sends next (`Selecting` is `select`; `Fetching`, `Storing`, `Copying`,
`Moving` are `command`; `Expunging` is `expunge`; `SelectingForLookup` and
`Searching` are `lookup` and `search`). `chosen` is the caller's: the mailbox it
selected for a batch with `auto_select` off. `appended` is the server's: the UID
of the appended message, which a server without UIDPLUS does not tell.

`Begin` is the `new` of an operation, `Return` its end, which may lose the
answer of a command that was carried out. `Fail` is any command that fails, and
`Reconnect` a new connection. `Deliver`, `Reflag`, `Expunge` are other sessions.
A message is its Message-ID and flags. Left out: UIDs that do not parse (an
error before any command), UIDVALIDITY (no operation looks at it), and
Message-IDs that contain one another (SEARCH HEADER matches substrings).

### GmailWatch

`phase` is where `watch_mailbox` stands: `Poll` (the history so far is answered),
`Diff` (`history_diff_to_events`, with the messages that came read one by one),
`Send` (one event, or the receiver is gone), `Sleep` (one chunk of a second,
the flag read before it), `Fail`. `here`, `labels`, `history` are the account;
`Come`, `Go`, `Give`, `Take` other clients. A history groups what happened by
kind, in order within a kind, as `GmailHistoryDiff` does; it has no record of a
message outside the mailbox. `events` is what `Send` has still to send: a set of events,
each with its `place` in the order `history_diff_to_events` gives them (those that came,
those that went, the records of labels given, those of labels taken). `replica` is a consumer that folds the events,
`picture` the mailbox the last diff led to, `muddled` the messages about which
kinds tell less than what happened: came and went, or a label lost and regained,
within one diff. Left out: a failing read of one message that came.

### M2dirStore

`entry`, `content`, `meta`, `marked` are the files: ids of a mailbox, contents,
sidecars of flags, markers of mailboxes. `op[c]` is the coroutine process `c`
pumps: `stage` is its `State` or `Stage`, `ids` is `pending`, `id` is
`current_id`. One action per file operation: `Get`, `Store`, `SetFlags`,
`Remove`, `Look`, `Write`, `Names`, `Read`. `Interrupt` is a file operation that
fails or a process that ends there; nothing of a call survives it but the files,
so a restart is a new call. `kept` is a ghost: the contents stored and not
deleted by a call that says so. What happens when an entry to delete is gone
already is io_m2dir's decision and left open: `Remove` may succeed or fail. The entries of a
mailbox, which is one directory here, are read in one step (`read_dir` and its iteration).
Consequences the model has and no property forbids: a call interrupted between
`Store` and `SetFlags` leaves the message without flags, a repeated add stores
it twice, and a repeated move stops at the first id the first attempt moved.

`Promised == INSTANCE CopyStore WITH mail <- Mail, boxes <- marked, task <- Tasks` is the
refinement. `Mail` is the files with their sidecars, less the sidecars of files that
are gone (their ids are never given again); `Tasks` is what each call has left to do,
or how it ended. A move is found, put and dropped, with other processes acting between;
a message that is added is marked one step after it appears; a listing is taken at
`Names`, and `Read` confirms it or fails; `Look` is no step. Because `Look` and `Write`
are two, a flag another process set between them is lost: of a flag change `CopyStore`
promises that the flags asked for are there (or, removed, not there), on that message
alone, and nothing of its other flags.

### MaildirStore

`file[b]` holds records of an id, letters (the file name) and the directory, `cur` or
`new`; `tmp[b]` the ids written to `tmp` and not renamed from there. Whatever reads
a mailbox reads its directories one after the other, in either order (`WantsDirRead`,
`maildir/client.rs:148-166`), and other processes act between the two. An operation
on a message is one `Find` for each directory, until one shows the file of that id,
then `Rename` or `Copy` under the name found, so another process's rename in between
makes it fail. A move keeps the directory a file is in; after a change of flags the
file is there or in `cur` (`Renamings`: io_maildir decides). Adding is `Write`, which makes `tmp` and its parents and nothing
else, and `Link`, the rename into `cur`, which fails if the mailbox was deleted; a
call may fail or end between the two and then leaves a file in `tmp` that no
operation shows. A listing is two `Names` and then one `Read` for each file.
`Deliver`, `Settle` (from `new` to `cur`) and `Expunge` are other programs.

`original` and `kept` are ghosts for `NoLoss`, and `steady[c]` is one for
`ListShowsSteady`: the files that have been in the listed mailbox, under one name, ever
since the listing of `c` began. A copy keeps its id or gets a new one. Left out, as
one step each: the entries of one directory (`read_dir` and its iteration), the
removal of a mailbox (`remove_dir_all`), `fs::copy`. Left out altogether: copies
within one mailbox, and flags without a letter, which are written to a file no
listing reads.

`Atomic == INSTANCE MailStore WITH task <- Tasks` is the refinement: `Tasks` maps a call
to what it has left to do, whether or not it has looked its file up, or to how it
ended. A message is moved, flagged or copied at the rename or the copy of its file,
and added at the rename from `tmp`. A listing is no step of `MailStore`: it reads the two
parts of a mailbox, each at a moment of its own, and the files it reads afterwards
confirm the names or make it fail. The abstract store has no files, names or
look-ups; the flags a change leaves are computed from those of its moment.

`M2dirStore` does not implement `MailStore`, and is not meant to: a message moves there
in steps that others see, which is what `CopyStore` describes.

### EmailClient

`slots` are the registered backends; `Order` has, for each operation, its
priority list, and `Route` the first of them that is registered. `mail` is the
account at the server: a message is its content (`raw`) and its tags, a set that
holds mailboxes and flags alike: labels at Gmail, `mailboxIds` and keywords at
JMAP, the folder, the fields and the categories at Graph. Every batch comes down
to a patch of tags. `call` is the coroutine: `ids`, the position `at`, `stage`,
and a copy (`before`) of the account as the call found it, for the properties.
`Request` is one request of a Gmail or Graph batch, `SetEmails` the one Email/set of
JMAP with the ids the server did not take, `Deliver` a step of appending or sending.
A request is answered, refused, or done while its answer is lost. `held` is an
id a caller was given, and by which call. `Meddle` is another client, between
two requests. `ready` says whether identity and drafts mailbox are set.
Operations routed to IMAP, Maildir or m2dir belong to the modules above;
reading a message, listing mailboxes and `ping` change nothing and are left out.
Left out, too: a move to the mailbox the message is in, and the calls that
connect a backend.

### SearchQuery, Paging and EnvelopeListing

`SearchQuery` has no state. `Written` and `Text` are how a caller writes a query
with the parentheses its precedences need; `Chain`, `More`, `Negation` are the
parser's `query` with its `foldl`s; `Matches` is `matches_filter`, `ImapKey` and
`JmapFilter` are the two `convert_filter`, `PostFilters` and `PostMatch` the part of a
JMAP search this library checks itself, `KeyHolds` and `ConditionHolds` the
servers. Days have two halves, a sender is in UTC or half a day east of it.

`Paging` has no state either: `ComputeWindow` is IMAP's page, counted from the end of the
mailbox in u32 sequence numbers with a product that saturates, `PositionLimit` the page
asked of JMAP, `Paginate` the page cut of a list that was read whole.

`EnvelopeListing` has one call at a time: `call` holds its arguments, its
`stage` and what it has read. IMAP: `Select` (EXISTS and `compute_window`),
`FetchWindow`, or `Sort` and `FetchUids`. Gmail: `Token` per server page, then
`GetEach` per message. JMAP and Graph ask once. "local" is Maildir and m2dir,
whose two reads are the subject of their own modules. `Turn` is a caller that goes
on to the next page, `End` one that stops at an empty one, `Meddle` the other
clients, while a call is under way. `walk` is a ghost: what was there when the walk
began, what it got, how many were removed. A Gmail token goes on after the last
message of its page (an assumption about the server). Every message has a Date,
is received when it is sent, and ties are listed in the order of ids.

## 3. Runs

| run | result | what it shows |
|---|---|---|
| `jmap_watch` | pass | `StaleIsCovered`: a message the shadow has wrong has changed after `email_state`; `PendingExplains`: the queued events are exactly the difference between the consumer's picture and the shadow; `ImplementsFeed`: refinement of `MailboxFeed` |
| `jmap_watch_live` | pass | `Converges`, `ShutdownStops` (flag flipped while parked) |
| `jmap_watch_race` | violation | `ShutdownStops` fails when the flag flips inside `resume()`: EndCycle, Resubscribe, EndCycle ... for ever, without a yield |
| `gmail_watch` | pass | `WrongOnlyIfMuddled`: after a diff the consumer is wrong only about messages whose changes cannot be told in kinds; `OneLatePoll`: at most one poll after the flag is raised; `WatchEnds`: the watch ends once the flag is up or the receiver gone |
| `imap_diff` | pass | `StaleIsReported`: every message the stored ancestor has wrong is reported by the next diff from the stored checkpoint; `QuietSyncIsExact`: an undisturbed diff leaves the ancestor equal to the mailbox in either order of the buckets |
| `jmap_diff` | pass | as `imap_diff`; about an email created and destroyed between two syncs the server may say nothing, and both properties say which emails that can leave wrong |
| `imap_session` | pass | `TouchesOnlyNamed`: a call changes only what it names, in the mailbox it names; `AnswersAboutNamed`: get and add_message answer about that mailbox, and the UID of an appended message is never that of an older copy; `DeletedIsGone`: a deletion that succeeds leaves the message only if another session unmarked it |
| `imap_session_preselect` | violation | with `auto_select` off, the UID lookup of add_message leaves another mailbox selected, and the next deletion of the batch happens there |
| `m2dir_store` | pass | `NoLoss`: a stored message is somewhere until a call deletes it; `TransferIsPrefix`: what a batch has stored is a prefix; `TouchesOnlyNamed`; `ImplementsStore`: refinement of `CopyStore` |
| `maildir_store` | pass | `NoLoss`; `NothingUndone`: a file leaves only under the name a call found it by, so a flag another process set is not undone; `ListShowsSteady`: a listing that succeeds shows every message that kept its name and its directory from the beginning of the listing to its end; `ImplementsStore`: refinement of `MailStore`, so that whatever else a listing shows was in `cur` or in `new` at the moment that directory was read |
| `email_client` | pass | `RoutedBack`: ids go back to the backend that gave them, but for the calls that backend cannot make; `BatchOutcome`: an Ok call changed every id, a failed one a prefix (or some, of one Email/set); `FlagsAsAsked`: the next listing shows the flags asked for, as far as the backend has them; `NothingLost`; `SendAccounted`: at most one delivery per call, at least one if Ok, and a JMAP submission leaves its draft |
| `envelope_listing` | pass | `PageIsSlice`: a page of a listing is that page of the mailbox as the call found it, less what was removed; `SearchAgrees`: from query text to page, all backends find what the caller wrote; `PagesCover`: a walk over the pages misses no more messages than were removed meanwhile |

Every passing run but `jmap_watch_live` also checks a type invariant. A run that ends in
a violation records where the code does something else than a doc or a comment
of the repository says; `PROJECT.json` quotes the line.

**Bounds.** `JmapWatch`: two ids and two keywords, two changes during the watch
(`MaxState - Start`): enough for one change before and one after any request,
for a message that both gains and loses keywords, for two queued events about
one message and for a truncated answer. `GmailWatch`: two messages, one label
that is a flag and one that is the absence of one, three changes (come and go
and a label, or a label taken and given twice), two chunks of sleep. `ImapDiff`:
three UIDs (one below, one at, one above a mark, and the last UID as the end of
the range), two changes, one recreation. `JmapDiff`: two emails, two keywords,
four changes: an email can be created in one round, updated in another and
destroyed after the last; the server may leave out one of the two when it was
short-lived. `ImapSession`: two mailboxes of two UIDs, two
Message-IDs, the flag \Deleted: enough for an older copy of the appended
message, for the same UID in two mailboxes, and for a message another session
marked. `M2dirStore`, `MaildirStore`: two processes with one call each or one
with two, two mailboxes, two messages, batches of two, one interruption: two
moves of one message, a move against a flag change, a deletion or a listing, a
mailbox deleted under a transfer. In `MaildirStore` one of the two first messages
is in `new` (`Fresh`), so that a listing or a look-up can miss it on its way to `cur`. `EmailClient`: two messages, batches of two in
either order, two calls, one change by another client; four registrations, one
of them with a backend that shares only some operations. `EnvelopeListing`: up to three
messages of three kinds (read, unread, sent on another day by its sender's
clock), pages of one and two, five pages, two changes, a server page of four,
`u32` cut to 7 so that a product passes it; four queries with every operator and
precedence.
Emails, keywords, mailboxes and processes are interchangeable, so symmetry is
used where no liveness property is checked (in `JmapDiff` only for keywords: its
two emails differ in what the server may leave out). `CHECK_DEADLOCK FALSE`: a watch may
end, and the counters of changes and calls are bounded.

**Fairness.** `JmapWatch`: `WF(Progress)`: the driver keeps calling `resume()`,
as the loop of `watch_mailbox` does. `WF(AnswerChanges)`, `WF(AnswerGet)`: a
request is answered (or `Fail` ends the watch). `WF(PushState /\ owed)`,
`WF(CloseStream)`: the event source sends what it owes and ends a stream, as the
subscription asks (`closeafter=state`, ping). Nothing forces changes, errors,
shutdown. `Converges` also needs `PushesOnConnect`: a change between
Email/changes and the next subscription is otherwise noticed only with the next
change. `GmailWatch`: `WF(Watch)`: the thread of `watch_mailbox` runs and the
server answers its polls; nothing else is fair.

## 4. Proofs

Each `*Proofs` module extends its component and is checked by tlapm for every
value of the constants that satisfies the component's ASSUMEs.

* `JmapWatchProofs`: `TypeCorrect`, `QueueExplains`, `WatchImplementsFeed` rest
  on `ToldCorrect`, the invariant that the queue, the consumer's picture and
  the shadow fit together (type correctness alone is not inductive: `ApplyEvent`
  needs to know that a flag event finds its message). `StaleCovered` rests on
  `CoverInv`: an Email/changes answer accounts for every change up to the state
  it was cut at (`ChangesInv`), and Email/get is right about what it names but
  for later changes (`GetInv`).
* `ImapDiffProofs`: `TypeCorrect`, `StaleReported`, `QuietSyncExact`. The
  invariant adds what SELECT told (`SelectOK`), what is still wrong between
  SELECT and FETCH (`HalfwayOK`: above the mark, or changed since), and what is
  still wrong after it (`DiffedOK`); `PastOK` says that no message will ever
  arrive at or below a stored mark. `WindowIsPage` and `PagesAgree` are about `Paging`, for
  every mailbox, page and size in u32: a message is in the window of one page and of no
  other, although the product of page and size saturates, and the window, the position
  and limit, and the cut list hold the same messages. They rest on the arithmetic of a
  quotient (`Quotient`) and on what reversing and cutting a sequence give (`ReverseOf`,
  `CutOf`).
* `JmapDiffProofs`: the same three, for every server. `Told(i)` is the invariant of the
  rounds: what the ancestor has wrong is in one of the three id lists, or changed
  after the cursor, or `Excused`: destroyed, and such that the server may leave it out
  of the rounds. `Fetched` says that Email/get is right or overtaken.
* `ImapSessionProofs`: `TypeCorrect`, and under `AutoSelect` `OnlyNamedTouched`,
  `AnswersNamed`, `DeletedGone`; without it the run `imap_session_preselect`
  refutes the first. `SelectedIsNamed` says which mailbox is selected while a
  call runs, and `AppendedIsNamed` that the appended message keeps its id until
  it is gone, because UIDs are given out once (`Keeps`).
* `GmailWatchProofs`: `TypeOK`, `OneLatePoll`, `WrongOnlyIfMuddled`, for any messages,
  labels and interval and histories of any length. For `OneLatePoll`, `LateIsLast`:
  after a poll that began with the flag raised, the watcher comes to the sleep with
  all its chunks to go, and reads the flag before the first. For
  `WrongOnlyIfMuddled`, `TellInv` follows a difference through the four places it can
  be in. Before the poll (`Recorded`), the last record of a label tells how the
  label is. In the diff (`Leads`), the records told by kind lead from what the
  consumer knows to the picture. In line (`Corrected`, `Pending`), each event that
  speaks against the picture has a later one that corrects it, and what the
  consumer does not know yet is in line. At rest (`ToldOK`) nothing is left.
  `OutAssumption` says that the model value for "not in the mailbox" is no set of
  flags.
* `MaildirStoreProofs`: `TypeOK`, `NoLoss`, `ListShowsSteady`, `NothingUndone`, for any
  number of processes, mailboxes, messages and interruptions. The strengthening is
  that each call is in one of a few record types (`Op`) with its fields in order
  (`OpOK`); beside it `NoLoss` is inductive, because a rename takes the file and
  gives it in one step. `ListShowsSteady` adds `SteadyOK`, inductive beside that
  invariant: what has been steady so far is among the names read, or in a directory the
  listing has still to read. `StoreIsAtomic` is the refinement of `MailStore`, from the same
  invariant and no other: `AtomicStep` has one lemma per kind of step (`CallsMap`,
  `FindMaps`, `NamesMaps`, `ReadMaps`, `RenameMaps`, `CopyMaps`, `WriteMaps`, `LinkMaps`,
  `EndingMaps`). It holds because a
  rename finds the file under the name looked up or fails, so that the flags it
  carries over are those of its own moment.
* `M2dirStoreProofs`: `TypeOK`, `NoLoss`, `TransferIsPrefix`,
  `TouchesOnlyNamed`, and `ListIsSnapshot`, which no run checks (a listing or a search
  that succeeds leaves out no file it found the name of), for any number of processes, mailboxes, ids and interruptions and
  batches of any length. `NoLoss` is not inductive: while a move stands at
  `Deleting`, the entry it is about to remove does not count. `KeptIsSafe` says that
  each content to keep has an entry no move is about to remove; `Store` makes
  the new entry safe before it makes the old one unsafe. `TransferIsPrefix` needs
  where the batch stands (`Standing`: the current id and those pending are the
  rest of the batch) and that steps are `Steady`: contents never change, and the
  only new entry is a new id. `StoreKeepsPromise` is the refinement of `CopyStore`:
  `PromisedStep` has one lemma per kind of step (`CallsMap`, `GetMaps`, `StoreMaps`,
  `SetFlagsMaps`, `RemoveMaps`, `FlaggingMaps`, `ListingMaps`, `EndingMaps`, `BoxesMap`),
  which rest on what the files of a mailbox are when one appears, goes or is marked
  (`AppearsIn`, `MailGoes`, `MailFlagged`). It needs of the invariant that a file and its
  sidecar have ids that were given out (so that a new message has no flags), that the
  files a listing has found are among its names, and that the flags about to be written
  are as asked.
* `EmailClientProofs`: the six properties of its run, for any registrations,
  mailboxes, keywords and numbers of messages, calls and changes by others, and batches
  of any length. `TypeCorrect` and `IdsGoBack` rest on `StateOK`: the account
  (`AccountOK`), the call in progress with the kinds of patch each backend makes
  (`CallOK`), ids that were given out and do not come back (`IdsOK`), the held id
  (`HeldOK`), the counts of deliveries (`OutboxOK`). `NoMessageLost` and
  `SendingsAccounted` need `OneFolder` beside it: at Graph a message is in at most
  one mailbox, and the deletion of that mailbox takes it. `BatchesAccounted` is inductive
  with `StateOK`: the position in the batch separates the ids that are changed from
  those that are as the call found them, and ids are not repeated, so that a request
  moves just one across. `FlagsStored` follows from it and three facts about the
  translations, one per backend (`LabelsFit`, `FieldsFit`, `KeywordsFit`).
  `TagsAssumption` excludes a keyword that is named like a label, a field or a flag
  the conversions give a meaning (it would come back as that flag), and, where
  mailboxes and flags are different things (Graph, JMAP), that one tag is both; at
  Gmail they are all labels and may coincide. `BoundsAssumption` has room for the two
  messages the account begins with.

Only model-checked: the liveness properties (`Converges`, `ShutdownStops`, `WatchEnds`),
which need fairness; the properties of `EnvelopeListing`, whose queries are recursive
definitions (the pages it cuts are `Paging`'s, of which the two theorems above hold);
and the runs that end in a violation.

## 5. Where the code and its words differ

Two of these are runs (`jmap_watch_race`, `imap_session_preselect`). The others
came up while modelling, and the models take them into account: as an
assumption a property names, or as an exception in its statement.

* A truncated Email/changes is followed by the warning "next subscription cycle
  will catch up" (`envelope/jmap/watch.rs:202`); the next cycle diffs only if a
  frame with another Email state arrives, so on a server that pushes only
  changes the watcher may stay behind. `Converges` assumes `PushesOnConnect`.
* "Bootstrap cycle ... events from that cycle populate the shadow silently"
  (`watch.rs:8-9`): after a truncated bootstrap the rest of the inventory is
  announced as new mail (`watch.rs:380`).
* "then fetches new UIDs above the cached high-water mark" (`imap/client.rs:389-390`):
  `high+1:*` always answers the last message, so an idle diff reports it again
  (`envelope/imap/diff.rs:83`).
* "The three buckets are disjoint" (`envelope/types.rs:35-36`): a message delivered
  since the checkpoint is in `flag_updates` and `new_envelopes` of an IMAP diff.
  `QuietSyncIsExact` therefore asks for either order of the buckets.
* The JMAP baseline takes its state before the listing (`jmap/client.rs:549-559`). An
  email listed meanwhile and destroyed before the next diff may be left out of
  Email/changes (RFC 8620, 5.2), and stays in the ancestor for ever. `StaleIsReported` and
  `QuietSyncIsExact` except such emails; without the exception the run refutes the second.
* JMAP date conditions: the bound put in their place is on `receivedAt`, at
  midnight UTC, and the check of `jmap/client.rs:223-226` is applied to the whole
  answer. Under `not` or `or` the two do not add up (`not after D` drops messages
  that match), and a message from east of UTC may be outside the bound.
  `SearchAgrees` states the two exceptions.
* Without a page size JMAP is said to return the whole mailbox
  (`jmap/client.rs:207-208`); the server may cap it. Gmail's pages are then of the
  server's own size, and Graph ignores the page number.
* Graph's skip is a plain product of `u32` (`envelope/msgraph/list.rs:46`), where IMAP's
  saturates: it panics or wraps, by the build's profile.
* An IMAP page whose messages are all expunged between SELECT and FETCH is
  empty, and a caller cannot tell it from the end. Without that exception
  `PagesCover` fails; without its allowance for removals it fails on every
  backend that counts positions.
* A Graph Set without keywords leaves the categories; a Gmail Set without Junk
  takes the SPAM label off; keywords of a Maildir are written and never listed.
* JMAP's delete_message destroys the email in all its mailboxes; those of IMAP
  and of the local stores delete one mailbox's copy.
* A batch with an id of which the server says nothing in JMAP's `notUpdated` is
  taken for a success, which the models take as a server that answers about
  every id.
* A Maildir listing reads `cur` and `new` one after the other
  (`maildir/client.rs:148-166`) and may show a mailbox that never was: without a
  message that went from `new` to `cur` between the two, or with one that came in after
  another it does not show. `MailStore` says so, and `ListShowsSteady` what a caller can count on.
* A query whose text has "order by" inside a quoted pattern is cut there
  (`search/parser.rs:32-50`).
* Sort keys differ by backend: the local stores sort by display name and raw
  subject, IMAP by mailbox name and base subject (RFC 5256). `SearchQuery` has one
  sender and no subject.

## 6. Not modelled, and the plan

Not modelled: the IMAP IDLE watcher (`envelope/imap/watch.rs` translates what
io-imap's watcher says, and that state machine is not here), `diff_mailboxes`
(one request, Changed or Unchanged), the mailbox listings with their counts
(requests that keep nothing), how SMTP picks its recipients from headers, the
set-up of sessions and connections, an IMAP read that times out and leaves its
answer on the wire (what io-imap's parser does with it is not said in `src/`),
parsing of messages and headers, `address.rs`. The protocol crates (io-imap,
io-jmap, io-smtp, io-gmail, io-msgraph, io-maildir, io-m2dir) appear as `src/`
uses them, marked external in `PROJECT.json`.

Planned: several mailboxes in `JmapDiff`, with `diff_mailboxes`.

# A TLA+ model of the AI chat application

The application is a FastAPI backend (`src/backend/app`, one asyncio process over
an Oracle database) with a React front end (`src/frontend/src`). This directory
holds TLA+ modules for the parts whose correctness depends on the order in which
things happen, the TLC configurations that check them on small instances, and
proofs that hold for every size of instance.

A coroutine of the backend runs without interruption from one `await` to the
next, so **an action of a module is what one request does between two awaits**. A
method that is a plain `def` is one action.

## Inventory

| component | state | operations | hard behaviour | what makes it correct |
|---|---|---|---|---|
| One-time code store (`services/otp_service.py`) | live and pending challenges, cooldowns, windows per day / destination / address, authenticator failures and locks, all in memory | claim, claim_totp, commit, discard, require_live, verify, reserve_request_slot, invalidate_user | claim and commit are apart by a provider call; expiries and windows move with the clock; limits shared by users and flows | one live code per user and flow; a code works once and in time; no limit is ever exceeded; failures cost the user nothing but the attempt |
| Sign-in (`auth_service.py`) | failed-login counters; USERS row | register, login, complete_otp_login, switch_otp_method, change_password | reads before an await, use after it; concurrent switches | one session per code; one switch goes through; the throttle throttles |
| Two-step settings (`two_factor_service.py`) | OTP_ENABLED, contact columns, TOTP_SECRET, PREFERRED_OTP_METHOD | start_enable, start_totp_enroll, confirm_enable, disable | partial UPDATEs of a row read earlier | the row names a channel that exists; codes die with the setting |
| Recovery (`password_reset_service.py`) | authorizations in memory; PASSWORD_HASH | request, verify, complete, invalidate_user | three steps over two stores and a row; failure between them | one change per code; a reset ends everything that was outstanding |
| Code history (`otp_audit.py`, `repositories/otp_log.py`) | OTP_LOG rows | issued, consumed | written after an await, matched without an id, failures swallowed | no more codes on record as used than were used |
| Delivery (`otp_delivery.py`, `sms_service.py`, `email_service.py`) | none | deliver | timeouts, provider errors | a send ends in success or in a discard |
| Clock and authenticator codes (`time_service.py`, `totp_service.py`) | offset and its age; the loop's wait | synchronize, run, is_usable, verify, start and shutdown | stale offset, failed or slow answers, a local clock that drifts or is set | no code is judged by an untrusted clock; the clock becomes usable again |
| Google sign-in (`google_auth_service.py`) | USERS row, uploaded picture | identify, _create_user | two first sign-ins race, or one races a user verifying the same address | an identity enters its own account only; no orphan upload |
| Chat streaming (`ai_service.py`) | MESSAGES, CONVERSATIONS | prepare_message, stream_response, _persist_assistant_message | one exchange over several database sessions, disconnects, provider errors | every reply follows its question; nothing is stored twice |
| Prompt and reply (`ai/context.py`) | none | select_messages, extract_streamed_content, parse_completion | an envelope that arrives in chunks and may break off anywhere | what was shown is what is stored |
| AI providers (`ai/providers/`) | none | stream | errors, empty answers | their outcomes are inputs of the two above |
| Characters, models, personas, conversations (`character_service.py`, `model_service.py`, `persona_service.py`, `conversation_service.py`) | rows | create, update, soft or real deletion, look-ups of one kind for another | overlapping changes, each of a row read before; deletion under a look-up or a running stream | what is deleted stays deleted; a change brings back nothing it did not mean to |
| Profile, avatars (`user_service.py`, `cloudinary_service.py`) | USERS row, external images | update_profile, upload, delete_asset | preferred method against channels other requests write | the preference can be honoured; pictures belong to rows |
| HTTP layer (`main.py`, `api/`, `core/`) | none | routing, validation, JWT | none | not a state machine |
| Front end (`features/chat`, `session`, `api`) | query cache, stream store, session | send, stream, paginate, sign out | answers that arrive late or out of order | the view converges to what the server has |

How they interact: the routes call one service per request. Sign-in, settings and
recovery share the code store (one instance per process) and the USERS row; each
asks the store for a code (`claim`), awaits a provider through the delivery
service, and tells the store how it went (`commit` or `discard`). An answer goes to
`verify`, and then to the row. Settings and recovery also call `invalidate_user`
after their write. Registration, Google sign-in, the profile and the settings share the
rows of USERS and their unique columns. An authenticator code is judged by the clock
the synchronisation loop keeps. The chat services share only rows: an exchange reads
the conversation, character, persona and model that their own services write.

`PROJECT.json` lists every hazard found, with its line and the property that covers
it or the reason none does.

## Modules

| module | what it is |
|---|---|
| `OtpService` | the code store, every method an action, with a clock |
| `CodeLifecycle` | the abstract specification: what the store promises its callers, and the proof of what follows from it alone |
| `OtpServiceProofs` | type correctness, single use, that OtpService implements CodeLifecycle, that its limits hold for every cap, window and cooldown, and that no code is lost to another's send |
| `AccountAccess` | concurrent sign-ins, switches, settings and recoveries on one row, over CodeLifecycle |
| `Transcript` | the abstract specification: what a reader of a conversation may rely on |
| `ChatStream` | concurrent exchanges of `ai_service.py` and the deletion of their conversation, over the committed tables |
| `ChatStreamProofs` | the tables of ChatStream are consistent and implement Transcript, and its prompts are the longest that fit |
| `CorrectedClock` | `TimeService` with its loop, a local clock, a server and the verification of authenticator codes |
| `CorrectedClockProofs` | no code is judged by a stale offset or, while clocks only drift, wrongly, for every setting |
| `Accounts` | the rows of USERS under registration, Google sign-in, profile and two-step settings, with pictures and OTP_LOG, over CodeLifecycle |
| `AccountAccessProofs` | what overlapping requests cannot do with codes, for any number of them, and that they implement CodeLifecycle |
| `AccountsProofs` | what holds of those rows, for any number of accounts and requests, and that their codes implement CodeLifecycle |
| `ReplyEnvelope` | a reply that arrives in chunks: what is forwarded, and what is stored |
| `ReplyEnvelopeProofs` | both agree, and with what the model meant, for replies of any length |
| `Catalog` | characters, models, personas, conversations and default models under overlapping requests |
| `CatalogProofs` | what holds of those rows, for any number of users, rows and requests |
| `MC...` | symmetry, first tables and candidates for the configurations |

### OtpService

| code | module |
|---|---|
| `_challenges`, `_pending` (dictionaries by id) | `challenges`, `pending`: sets of challenges that carry their id |
| `_sends`, `_destination_sends`, `_ip_sends`, `_ip_requests`, `_totp_failures` (deques of timestamps) | sets of the claims, requests or failures that appended them, each with its time |
| `_last_send`, `_totp_locks` (missing entry) | `Never`, `0` |
| `_prune`, run at the head of almost every call | `Unexpired`, `Pruned`, `Cooling` inside every action whose method calls it; not in `Commit`, `Discard` and `InvalidateUser`, whose methods do not |
| `_reserve` | `Admitted` (all limits first), then `Charge` |
| `claim` | `ClaimCode` |
| `claim_totp` with the `commit` both its callers run next | `OpenTotp`, throttled unless it is an enrolment |
| `commit(id, replaces)` | `Commit`; `replaces` is a set of at most one id |
| `discard` | `Discard` |
| `verify` | `VerifyRight`, `VerifyWrong` |
| `reserve_request_slot` | `ReserveRequestSlot` |
| `require_live`, every refused call | `Sweep`: the pruning is all that remains of it |
| `invalidate_user` | `InvalidateUser` |
| the clock | `Tick` |

Ghost variables record what an observer saw: every claim, every counted request,
the ids given back, the codes accepted, and each user's run of wrong authenticator
codes. No guard reads them except to keep an id or a request name from being used
twice and to limit a switch to a code that was really issued for the same user and
flow, as `switch_otp_method` does.

`reset_all` exists for the tests and is left out. A restart is `Init` again, so it
is no action here; in `AccountAccess` it is one.

The attempts of a challenge start at `MaxAttempts`, the code (`verify`) decrements
them and drops the challenge at the last; a wrong authenticator code is counted in
`_totp_failures`, and the lock starts when the count reaches the same number.

### CodeLifecycle

A code is new, sending, live, spent or dead, and belongs to a flow: a user and a
purpose. Any call may let codes lapse. `OtpService!CodesAreSingleUse` is its
specification under the refinement mapping `StageOfCode`, `FlowOfCode`.

### AccountAccess

A request is a record naming the await it is suspended in:

| `at` | handler and await |
|---|---|
| `deciding` | `login` or `switch_otp_method` has read the row |
| `sending` | `_start_otp_login`, `start_enable` or `PasswordResetService.request` awaits the provider |
| `reading` | an authenticator code is submitted, the owner's row is being read for its secret |
| `checking` | the code was right; the row is read for the last decision |
| `signing` | `_issue_session`: the commit before the token |
| `enabling` | `confirm_enable`: the write |
| `disabling`, `clearing` | `disable`: the write, then `invalidate_user` |
| `replacing`, `wiping` | `complete`: the write, the refresh, then both invalidations |

Two details of the ORM matter and are modelled. A second read of one row in one
session returns the object loaded first, as it was (`RowOf`); and an UPDATE writes
only the columns that differ from what was read (`Enable`, `Disable`).

The store is `CodeLifecycle`, not `OtpService`: the clock, limits and guesses show
only as requests that fail and codes that lapse, at any moment. That this loses no
behaviour is what the theorem `Implements` says.

`proof`, `supersedes`, `opened`, `sessions` and `finished` are ghosts.

### ChatStream

An exchange is one POST to a conversation's messages. Its handler opens a session to
store the question, a second to read the history, none while the provider streams,
and a third to store the reply:

| `at` | what the handler awaits |
|---|---|
| `found` | the conversation is there and active; the quoted message is being looked up |
| `asking` | the INSERT of the question, dated already |
| `saving` | the commit of the question and of LAST_MESSAGE_AT |
| `loading` | the second session: `Load` reads the history and selects the prompt |
| `streaming` | the provider; `Delta`, `Completion`, `ProviderFails` are its events |
| `answering` | the look-up of the message the model answers, and the INSERT of the reply |
| `storing` | telemetry, LAST_MESSAGE_AT and the commit of the reply |
| `stored` | the client takes `message.completed` |

`messages`, `generations` and `rows` are what is committed. A row still in its
transaction is `new` of its exchange: nobody else sees it, and it is gone if the
handler fails (`Abandon`). Identities come from one counter when the row is
inserted, so they are ordered as the INSERTs were and not as the commits are. Times
are readings of `utcnow`, a counter too. An UPDATE of the conversation writes the
column that changed (`Bump`), so a deletion that came in between stays.

`Select` is `select_messages` with its arithmetic: `Cost` is `estimate_tokens`, compared
with a budget that counts characters, as in the code.

`Transcript` knows messages by identity, exchange, conversation and role: they are only
added, a reply needs the question of its own exchange before it, an exchange has
one of each at most, and a deleted conversation stays deleted.

### CorrectedClock

| code | module |
|---|---|
| `_offset`, `_synced_at` | `offset`, `age`: the time since, up to one past the age that `is_usable` looks at |
| `run`: due, request in a thread, result waiting for the event loop, `wait_for(stop, delay)` | `at`: `due`, `asking`, `asked`, `sleeping`; `wait` |
| `synchronize` | `Request`, `Answer`, `Resume`: a failure or a slow sample changes nothing but the next wait |
| `is_usable`, `get_current_unix_time`, `TotpService.verify` | `Usable`, `Error`, `Verdict` |
| `lifespan` (`main.py`) | `Start`, `Shutdown` |
| true time, local clock, network | `Tick`, `SetLocalClock`, `Network` |

No absolute time is kept: the local clock is "true time plus `skew`", so that a
behaviour never runs out of time and liveness can be asked for. `reachable` says that a
request made now is answered quickly; when it is false the server may fail, answer late
or even well. `measured`, `jumped` and `slipped` are ghosts: how long ago the offset in
use was really measured, whether the clock was set since, and how long ago it drifted.

### Accounts

A request is a record naming the await it is suspended in, the row as it read it
(`seen`) and the row as it wants it (`want`):

| `at` | handler and await |
|---|---|
| `creating` | `register` or `_create_user`: the INSERT |
| `unknown`, `naming`, `picturing`, `undoing`, `entering` | Google: the look-ups of the address and of a free name, the upload, `delete_asset` after a lost race, the session |
| `deciding`, `saving` | the row is read; `update_profile`: the commit |
| `sending`, `logging` | `start_enable`: the provider, `audit.issued` |
| `clearing` | `disable`: `invalidate_user` after the write |
| `checking`, `confirming`, `enabling`, `recording` | `confirm_enable`: the row for the secret, the row for the contact, the commit, `audit.consumed` |

`Merged` is what a commit writes: the columns that differ from what was read. `Clashes`
is the unique constraints, which decide the races the look-ups lose. Each request
occurs once and gives its name to the code it issues and to the picture it uploads.

### ReplyEnvelope

A reply is a frame and the pieces of its content; a piece is a letter, a raw newline or
quote, an escape, or a `\u` escape of a letter or of half a surrogate pair, right or
malformed. The provider sends it in chunks that end between any two symbols and stops
anywhere. `Extract` is `extract_streamed_content`: where the value starts, the scan
that holds back what is not complete, the decoding. `Parse` is `parse_completion`.
`Delta` and `Complete` are the loop of `stream_response` around them. Inside a symbol
(a quoted name, four hexadecimal digits) no chunk ends, since the code takes
an unfinished one for one that is not there.

### Catalog

`db` is a record of tables. A request reads, decides (`Enters`), looks up what else it
needs one await at a time (`CheckUnique`, `CheckDefault`, `ResolveExplicit`,
`ReadDefault`, `ResolveDefault`, `ResolveFirst`, `VerifyPersona`, `Detach`), and commits
(`Insert`, `Save`, `Erase`). `Save` merges columns as above. Deleting a persona is two
statements of one transaction: the UPDATE that detaches it sees the conversations that
exist, the DELETE and both effects show at the commit. Models are numbered, since
`first_active` takes the smallest id. `outlived` is a ghost: the conversations there
were when a persona, since deleted, was detached.

## Runs

| run | question | instance | distinct states |
|---|---|---|---|
| `otp_sends` | do the limits hold over *any* stretch of time, not only those that end now? | 2 users, 1 destination, 1 address, 3 claims, clock 0..5 | about 228,000 |
| `otp_attempts` | is a code good once and in time, and does the authenticator lock bound the guesses? | 1 user, authenticator and SMS, sign-in and enrolment, 3 codes, 2 attempts each, clock 0..4 | about 615,000 |
| `otp_life` | is there one code per flow, is none lost to another's send, is CodeLifecycle refined? | 1 user, authenticator and SMS, sign-in and recovery, 3 codes, 2 counted requests, clock 0..1 | about 75,000 |
| `account_access` | what do two concurrent requests do to each other on one account? | 1 account, 2 sent codes and 1 authenticator code, 2 requests | about 362,000 |
| `reset_in_flight` | does a reset end the sign-ins under way, as the notes say? It does not | the same | a violation |
| `chat_stream` | do two exchanges and a deletion, failing anywhere, keep the transcript? | 2 exchanges, 2 conversations, messages of 1 or 3 tokens, a prompt of 2 messages and 4 | about 810,000 |
| `last_message` | is LAST_MESSAGE_AT bumped on every message, as the notes say? Not always | 1 conversation | a violation |
| `history_budget` | does the history fit the documented characters? It does not | 1 conversation | a violation |
| `clock` | is a code ever judged by a stale offset, or judged wrong, and does the clock recover? | ages of 4, a synchronisation every 2, a retry after 1, skew up to 2 | about 152,000 |
| `accounts` | do identities, contacts, preferences, pictures and the history stay right under races? | 3 accounts, 1 address, 1 number, 2 Google identities, 3 requests, 3 first tables | about 276,000 |
| `envelope` | is what a client saw what is stored, and what the model meant? | contents of 3 pieces, 8 frames, chunks anywhere | about 289,000 |
| `catalog` | what do any two overlapping requests do to the rows? | a user and an administrator, 2 requests, 8 first tables | about 72,000 |

No run needs a state constraint: every bound is a constant used in a guard.

* `Ids` and `Requests` bound how many codes and recovery requests there ever are.
  Three codes are one more than the caps of 2 that the windows are checked with, so
  a claim is refused in every window, and let through in the mutants that weaken
  one; two codes that race and a third they race for is also what a change of
  method needs.
* `MaxTime` is longer than every window of its run that must be seen to slide:
  5 against a `Window` of 3, `Day` of 4 and `Cooldown` of 2 in `otp_sends`; 4
  against `Lockout` 2, `Window` 3 and `CodeTTL` 2 in `otp_attempts`. `otp_life` asks
  about codes, not about time: one tick makes a code expire and a window full.
  The address windows are checked there with a cap of 1.
* `SendTimeout` bounds how long after its claim a provider may still *fail*; a
  success may come at any time. `CooldownKept` needs it below the cooldown: `discard`
  drops the channel's timestamp whoever set it, so a failure later than the cooldown
  drops that of a newer claim. The defaults are 10 s (provider timeout) and 60 s
  (`core/config.py`); nothing in the code ties one to the other, and the property is
  not claimed for settings that reverse them.
* `EnrolTTL` exceeds `CodeTTL`, `LoginDailyCap` exceeds `ResetDailyCap`, as in the
  defaults, so that exchanging them shows.
* Two exchanges store four messages between them: more than a prompt of two holds, so
  that the newest are chosen among others, and enough for a commit to overtake
  another. Sizes 2 and 6 cost 1 and 3, and any two but the largest fit together into
  4. Exchanges are the bound of `ChatStream`, so its runs may stop when all are
  done and nothing is left to delete: its configurations switch the deadlock check
  off. The program itself waits for the next message there.
  A client or a model names any identity handed out so far, the next one, or none.
* Two requests at a time reach every pair of suspended handlers of `AccountAccess`; a
  third adds no await, only a longer queue of the same pairs.

* `clock`: a `SyncInterval` of 2, a `Timeout` and a `Latency` of 1 are just within the
  `MaxOffsetAge` of 4, the premise of `KeepsUsable`; a failure and its retry can push the
  age past it. `Delays` has a quick sample, one at the limit and one beyond. Drift is one
  unit in three ticks, so that the worst error (3) is exactly the window: `CodesJudgedRight`
  is asked of the largest error its premise admits. A clock within `MaxSkew` of 2 can be
  set by 4, more than a period.
* `accounts`: three requests are one to claim a contact, one to confirm it, and one that
  takes the address or changes the row in between; or two first sign-ins and the
  verification of their address. Three accounts leave room for the new ones beside
  the first. The two Google identities share one address (as after it was reassigned), the
  first of their candidate names is taken.
* `envelope`: three pieces are a surrogate pair and a neighbour, or an escaped backslash
  before a quote; what the scan looks at is never longer. The theorems lift the number.
* `catalog`: a lost update, a late check and a row nobody checked each need one request
  between the read and the commit of another; every pair of requests does that, with
  every row present, deleted or built-in. The theorems lift the number.

Symmetry is over ids, users and request names, which no property tells apart
(`Apps`, the authenticator's ids, stay apart from the others).

Every property is also checked to fail when a plausible bug is put into the code it
is about: the definitions marked "Mutant" beside the ones they replace.

### Properties

* `DestinationWindow`, `AddressWindow`, `DailyAllowance`: the code prunes a deque and
  compares its length; the property is about all claims ever made and every
  interval, wherever it starts, including failed sends (they stay charged) and both
  groups of purposes (they share a destination, not a day).
* `CooldownKept`: two codes of one user, channel and group are a cooldown apart unless
  one of them was given back.
* `AcceptedOnceInTime`: a code is accepted once, and within the lifetime that began at
  its claim.
* `GuessBudget`: over any stretch shorter than the lock and the window, a run of wrong
  authenticator codes is at most `MaxAttempts` long, however it is spread over
  challenges and flows. A right authenticator code, or dropping everything the user
  has, ends the run, as in the code; a right code of another channel must not.
* `OneCodePerFlow`: the newest committed code of a flow is the only live one.
* `HeldCodeSurvives`: a code that has not expired leaves the live ones only in the step
  that accepts it, takes its last attempt, puts a newer code of its flow in its place, or
  drops all its user holds. So a failed or refused send never costs the user the code in
  hand, nor one of another flow; the switch that loses a race leaves the winner's.
* `CodesAreSingleUse`: the refinement.
* `OneChangePerCode`: a password is replaced at most once per spent recovery code.
* `OneSessionPerCode`: a code opens at most one session and only a spent sign-in code
  does, although two submissions of one authenticator code overlap around the read.
* `SwitchedOnce`: of the switches that race from one code, one goes through.
* `ResetDropsWhatWasOpen`: no code live, and no authorization outstanding, when a
  reset finished is good for anything later.

* `ToldIsStored`, `TelemetryPerReply`, `NothingPartial`: what the client was told of is in
  the table, a reply and its telemetry come together or not at all, and only the
  reply of a provider that completed is stored.
* `QuotesStayInside`: whatever id the client or the model names, a message quotes an
  earlier one of its own conversation.
* `PromptHasQuestion`, `PromptIsLongestRecent`: the model reads the longest run of newest
  messages that fits, and the question is in it unless newer messages pushed it out:
  the prompt is read after the question was committed, not with it.
* `LastIsAMessage`: LAST_MESSAGE_AT is the time of a stored message, or empty when none is.
* `TranscriptKept`: the refinement.

* `NoStaleVerdict`: a code is called right or wrong only while the offset was measured, not
  just recorded, within the age allowed and the wait for the event loop.
* `CodesJudgedRight`: as long as the local clock is not set, the delay of the sample, its
  age, drift, rounding to a period and the window together never refuse the code a right
  phone shows, nor take one more than a window and the worst error away. It is asked
  of settings that keep the worst error within the window, as the run's just do.
* `Recovers`, `KeepsUsable`: liveness of the loop; see "Fairness".

* `IdentityIsAccount`: a Google sign-in only ever enters the account with its `sub`.
* `PicturesMatchRows`: a row's picture is stored, and a stored picture is a row's, or
  about to be, unless an error or its owner let go of it.
* `ContactsProven`: an address or number is on an account because Google vouched for it or
  a code sent to it, for that account, came back.
* `SentPreferenceExists`: an account with the second step on can be sent its code, although
  contacts, preference and flag are written by overlapping requests.
* `UsesAreReal`: OTP_LOG never shows more codes as used than were used.

* `StreamedIsStored`: the deltas put together are the stored message, whether or not the
  model keeps to the format and wherever it is cut, but for an object with two content
  members (see "Not modelled"); no half of a pair is in either.
* `AnswerKept`: a well-formed reply that arrives whole is what the model meant, one that
  breaks off is the part the client saw.

* `ClashOnlyByRace`: `_check_unique` does its work. A change of a model that is past its
  check would be refused by the database only because another change was written after
  that, or because its row was changed between its reading and its check: then it checked
  a row that is not the one its commit makes. Both happen in the run, and the answer
  is a 500. Two administrators who take turns never see one, and `deactivate`, which
  checks nothing, never causes its own.
* `PersonasInPlace`: a conversation names its own user's persona, and one that was
  deleted only if it was stored after the deletion had looked for conversations.
* `DeletionsStick`: what was deleted or detached stays so, and a character its owner's,
  unless an administrator who saw it otherwise asks for just that.

### Findings

`ResetEndsSignIns` fails. `docs/password-reset-notes.md` lines 43-45 says that a reset
drops "every challenge of every purpose", because "a sign-in code minted under the old
one must stop being a way in". `OtpService.invalidate_user` drops the live challenges
and leaves those still being sent in `_pending`. In the run a sign-in with the old
password awaits its provider, a recovery of the account starts and completes, the
provider answers, the sign-in's code is committed and then accepted. `disable`
relies on the same call with the same words.

`ResetDropsWhatWasOpen` is the part of the promise the code keeps.

`LastIsNewest` fails. `docs/database.md` line 177 says LAST_MESSAGE_AT is "Bumped by the
app on every message". Each exchange writes the time it read before its INSERT; of two
that commit in the other order, the later commit sets the column back, behind a
message that is stored. The list of conversations sorts by the column.
`LastIsAMessage` is what holds.

`HistoryWithinChars` fails. The README of the backend, lines 495-496, gives the budget of
the history as "`context_window × 4` chars"; `select_messages` compares a sum of tokens
with it, so four times the text gets in. `PromptIsLongestRecent` is what holds, with
the units of the code.

### Fairness

Only `CorrectedClock` assumes any: weak fairness of `Loop` and of `Tick`. The event loop
runs what is due, a request to a time server ends at its timeout at the latest (the
guard of `Tick` lets no time pass beyond it), and time goes on. Nobody has to start or
stop the application, set its clock or repair the network, and a server that is not
reachable may stay so. Under it a clock whose server stays reachable becomes usable
again and again (`Recovers`) and, with settings that leave room for one request in
every interval, stays usable (`KeepsUsable`).

The other modules say only what may happen: their code promises no progress that does
not depend on a provider, a user or a client's retry.

## Proofs

The assumptions are on constants, and TLC evaluates them in every run of the module
that states them. `OtpConstants`: the sets of ids and request names are finite, `None`
is neither an address nor a destination, methods and purposes are the code's, and
lifetimes, caps and windows are positive, cooldown, lock, timeout and clock bound
natural. `ClockConstants`: ages, intervals and the period are positive, delays natural.
`CatalogConstants` and `TablesLegal`: models are numbered, administrators are users, and
the first tables are typed, without duplicate offers or foreign personas.
`AccountConstants`: ids and requests are finite, `None` is neither an id nor a user.
`AccountsConstants`: requests are finite, `None` is outside the other sets, identities
have an address and names to try. `ReplyConstants`: the bound on pieces is natural, and
`None` is not a stored message. `Accounts!TablesLegal`: the first rows are typed, show
no picture of the program's, and have the contact their codes go to. Nothing is assumed
of how sizes and settings compare, but in `CooldownHolds`, which assumes that a failed
send is heard of before the cooldown ends.

* `OtpServiceProofs!TypeCorrect`: `Spec => []TypeOK`.
* `OtpServiceProofs!OneLiveCode`, `CodesWorkOnce`: `Spec => []OneCodePerFlow` and
  `Spec => []AcceptedOnceInTime`. Neither is inductive: a commit is harmless only because the id it installs is not
  live already, and a second acceptance is impossible only because an accepted id is
  neither live nor pending and no id is minted twice. The invariant `CodeInv` adds
  this: ids are unique in the history and across both stores (`UniqueIds`), every
  challenge was claimed, with the same user and purpose, at the time its expiry says
  (`Claimed`), and an accepted id is gone (`SpentIsGone`). One step per action.
* `OtpServiceProofs!Implements`: `Spec => CodesAreSingleUse`. Each action maps to one
  of CodeLifecycle's with the codes it prunes as `gone`; `Tick` and
  `ReserveRequestSlot` map to a drop of nothing or of what was pruned. `CodeInv` is what
  makes the mapping well defined: a `CHOOSE` of the claim with an id has one answer.
* `OtpServiceProofs!DestinationsAreBounded`, `AddressesAreBounded`, `DaysAreBounded`: a
  bound on stretches of the whole log is not inductive, because the code counts what its
  pruned store still holds. `Counted` says what that store is for: it holds every entry of
  the log that a stretch ending now could contain, so a claim that finds room in the store
  leaves every stretch within its cap (`CountedGrows`).
* `OtpServiceProofs!CooldownHolds`: from `SendTimeout < Cooldown`, `Spec => []CooldownKept`.
  The invariant says that a channel's timestamp is that of its newest claim that counts
  for as long as it cools; a failure heard of inside the cooldown then gives back the only
  claim of its channel that still cools. Without the assumption the statement is false.
* `OtpServiceProofs!GuessesAreBounded`: `Watched` adds that a stretch of misses that is full
  and could still grow is under a lock that lasts as long as it could.
* `OtpServiceProofs!HeldCodesSurvive`: `Spec => HeldCodeSurvives`, from `CodeInv`: what a
  commit installs was pending, so its id is new to the live codes, and the id of a live
  code is not among the accepted ones until the step that accepts it.
* `CodeLifecycle!LiveCodesAreUnique`, `CodesNeverReturn`: no two codes of one
  flow are live; a spent or dead code stays so. With `Implements` they hold of
  the store.
* `AccountAccessProofs!AccessKeepsThePromise`, `AccountsProofs!AccountsKeepThePromise`:
  `Spec => Store!Spec`. Both modules reason about CodeLifecycle instead of the store; this
  is the other half of that, that whatever their handlers do with codes is something
  CodeLifecycle allows: a code is minted for a real user and purpose, installed only from
  `sending`, spent only from `live`. It needs what a suspended handler knows (`Basic`,
  `AccountsInv`). `AccessCodesAreSingleUse` and `ContactCodesAreSingleUse` then cite
  CodeLifecycle's two theorems for the codes of those modules.

* `ChatStreamProofs!ToldRowsStay`, `RepliesHaveTelemetry`, `QuotesAreInside`, `LastIsRight`:
  `ToldIsStored`, `TelemetryPerReply`, `QuotesStayInside` and `LastIsAMessage` always hold; `PartialRepliesAreDropped`:
  `Spec => NothingPartial`; `TranscriptImplemented`: `Spec => TranscriptKept`. The
  invariant `ChatInv` says what the database does not: which row each suspended
  handler is about to write and for whom (`WritesItsOwn`), that identities handed out
  in open transactions are unused elsewhere (`OwnIdentity`), what of an exchange is
  stored at each await (`StoredInStep`), and that an uncommitted quote is inside its
  conversation (`DraftsQuoteInside`). Every step is quiet (the tables stay), inserts,
  commits or deletes (`NextKinds`), and one lemma per kind shows that it keeps the
  invariant. They use no assumption on the constants.
* `ChatStreamProofs!ChatTypes`, `PromptsHaveTheQuestion`, `PromptsAreLongestRecent`:
  `TypeOK`, `PromptHasQuestion` and `PromptIsLongestRecent`. `select_messages` walks back
  over the history with a recursive function, and sums costs with a fold over a set; that
  both are defined, and that the walk stops where the longest fitting run of newest
  messages ends, is shown from the first place at which it would not. `PromptInv` is the
  types, the finiteness of the table, and `PromptHasQuestion`; what a read selects is kept
  over deletions and other commits.

* `ReplyEnvelopeProofs!TheStreamIsStored`, `TheAnswerIsKept`: `Spec => []StreamedIsStored`
  and `Spec => []AnswerKept`, for contents of any number of pieces. The invariant
  `ReplyInv` says that what was shown is what `Extract` makes of a beginning of the reply
  (`Shown`), and that what was sent is what was shown until the rest is added.
  Three facts make it inductive. Of two texts of which one begins the other, the scan for
  the end of the value and the decoder agree as far as the shorter shows characters, so a
  longer reading only adds to what was shown. The scan that forwards (`EndOf`) and the one
  that parses (`ClosedAt`) take an escaped quote for the same thing, so the closing quote
  of the whole is never inside what was shown. And an object that does not parse is stored
  as what was shown. `AnswerInv` adds that what is stored is `Content` of the part read;
  a well-formed content then decodes piece by piece (`WholeParses`, `LoadsMeant`), the two
  pieces of a pair together.

* `CorrectedClockProofs!TypeCorrect`, `VerdictsAreFresh`: `Spec => []TypeOK` and
  `Spec => []NoStaleVerdict`. The invariant adds `AgeIsReal`: as long as the age is
  within the limit, what was measured is older than it by the wait of its result at most.
  `VerdictsAreRight`: `Spec => []CodesJudgedRight`. `DriftInv` bounds the error of the
  offset in use, and of a sample that waits, by that of its measurement and the slips
  since: `k` of them take `k - 1` times `DriftEvery` ticks at least (`Drifted`).

* `CatalogProofs!ClashesAreRaces`, `PersonasStayInPlace`, `DeletionsStay`: the three
  properties of `Catalog`. The invariant `CatalogInv` types the tables and every request
  (`Shaped`) and adds what makes a commit harmless: which columns a change can be about
  (`Narrow`), that a conversation about to be inserted names a persona that was its user's
  when it was looked up and a deletion knows all it has to detach (`Current`), that named
  personas are rows (`PersonasReal`: a deleted id is never handed out again), and that the
  detached stay detached (`DetachedForGood`). A step only moves one request, or inserts,
  saves or erases (`NextKinds`), with a lemma for each. For the clashes, a request comes
  to be about to write a model only in `CheckUnique` and `Deactivate`
  (`EnteringToWrite`, `ResumingToWrite`), and the table changes only in the commits of
  such requests (`ModelsWritten`); that a deactivation meets no duplicate rests on the
  constraint (`OffersDiffer`).

* `AccountsProofs!IdentitiesStay`, `ContactsStayProven`, `PreferencesExist`,
  `PicturesStay`, `UsesAreRecorded` and `TypeCorrect`: every property of `Accounts`. What
  overlapping requests write is harmless because of what each still knows of rows it read
  before an await; the invariant `AccountsInv` says that, await by await (`Fits`): an
  account keeps its identity, and its contacts and preference change but are never emptied
  (`Kept`), so a preference that was usable when it was read has a contact when it is
  written; a request about to write a contact holds a code that was spent, sent to it, for
  its account. A step that writes no row keeps all of it once its own request `Fits`
  (`ReadingKeeps`); for the steps that write one, `WritingKeeps` asks for what they write.
  `Pictured` adds where each picture is while its request runs. For the history
  `Counted` counts, per account, the rows marked as used and the requests that may still
  mark one against the codes spent: the use of a code adds to both sides, and a mark moves
  one request to one row, since codes that became live are numbered apart (`Numbered`).

* `AccountAccessProofs!TypeCorrect`, `CodesOpenOneSession`, `SwitchesGoOnce`,
  `ResetsCloseWhatWasOpen` and `CodesChangeOnce`: every invariant of `AccountAccess`. All
  rest on `Basic`: the types, and what a request knows at each await (`Knows`): the code it
  is about was minted for its user and purpose, and is spent once it is past its check. A
  step is calm, opens a code, uses one, or is one of five that count (`NextKinds`), so each
  property has a lemma per kind: a used code is in one request's hands and has opened
  nothing yet (`Alone`, `Unsigned`); what was switched away from is over when the new code
  is live (`Superseded`: commit looks for it in the same step that drops it); and the
  passwords replaced, the authorizations and the requests that may become either never
  outnumber the recovery codes spent (`Paid`).

So every invariant and every action property that a passing run checks is also a theorem,
and each of them holds for all values of the constants. Only model-checked are the two
liveness properties of `CorrectedClock`, `Recovers` and `KeepsUsable`: liveness under
fairness, which needs ENABLED, is out of the prover's reach. The prover cannot instantiate
the library's induction theorems either; where a model recurses (`Select`, `Loads`, `EndOf`,
`ClosedAt`) the proofs take the least or greatest position at which a claim would fail, by
the well-foundedness of the naturals, and refute it. Those definitions are recursive
functions, not RECURSIVE operators, for this reason.

## Not modelled, and why

* The failed-login throttle (its counters meet nothing else in this code),
  `change_password` (one column, no other call), and in `AccountAccess` a login of an
  account without a second step (it reads, decides and ends: `Fail`) and wrong codes
  (they change only what `OtpService` keeps). What a sign-in from Google with the
  second step on does next is `AccountAccess`'s.
* The HMAC and the digits: a guess is right or wrong, and a code is right for its own
  challenge only, since the HMAC covers the challenge id.
* In `ChatStream`: the title, the memories, the persona and the clock line of the system
  prompt (they change no row); the fetch limit of 500 rows, above any prompt of the
  default 50 messages; messages of other roles or without content, which nothing in the
  services writes; equal clock readings.
* In `Accounts`: Google's keys and their cache, and the checks of a credential, which
  passes or not; answers. A registration that loses its race is a 500 in the code, where
  `docs/database.md` lines 286-289 speak of a 409; the row is right all the same.
* In `ReplyEnvelope`: an object with two content members, and white space between the
  parts. An envelope whose content is empty is stored as its raw text, and one with a raw
  newline as what was forwarded before the newline, as the code does; how much that
  was depends on the chunks.
* In `Catalog`: names and texts of rows are one column, provider and endpoint another;
  they are read back by nothing here. Pages of messages are reads, memories are written
  by another program.
* The front end: what a browser shows of rows that are modelled. Two hazards of it are
  listed: a sent message is appended to the last page of the cache, which is the oldest
  once two are loaded, and signing out drops stream entries without ending their requests.
* Wording, logging, wire formats of providers, JWT contents, routing, CSS and rendering.

What the models show that no document promises otherwise, and so is no finding: a
conversation created while its persona is deleted names a persona that is gone, and the
prompt falls back to none; a user's change lands on a character that an administrator
reassigned after the row was read; the constraint on models stops what two checks let
through, with a 500.

Where the code does differ from what is written of it, and no run shows it:

* `user_service.py` lines 47-48 ("the preference may only ever name a channel that
  exists"), `schemas/users.py` lines 85-87 and `docs/otp-2fa-notes.md` line 26 promise a
  preference that can be used. The check asks for a mobile number whenever the method is
  not EMAIL, so a preference for an authenticator is accepted with a number and no
  authenticator, and the next login fails closed; with an authenticator and no number it
  is refused.
  `SentPreferenceExists` is what holds: it speaks of the methods that send a message.
* `repositories/otp_log.py` lines 46-49 says that the newest unused row is the code just
  verified. An authenticator's enrolment writes no row, so its confirmation marks an older
  one, of a code that was never used. `UsesAreReal` counts rows and does not ask which.
* `db/models/user.py` lines 38-39 says that EMAIL is only written after a code sent to it
  came back. Google sign-in writes the address Google vouches for, as the notes on it
  say; `ContactsProven` allows both.

## Plan

Done: `CodeLifecycle` and `OtpService`, `AccountAccess`, `ChatStream` over `Transcript`,
`CorrectedClock`, `Accounts` with the code history, `ReplyEnvelope`, `Catalog`, and the
proofs above. Left, in this order:

1. `LoginThrottle`: `LoginAttemptTracker` around the await of the row.
2. The front end's page cache and stream store.

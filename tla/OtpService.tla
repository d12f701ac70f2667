------------------------------ MODULE OtpService ------------------------------
(***************************************************************************)
(* The in-process store of one-time codes: backend/app/services/           *)
(* otp_service.py, class OtpService.  Every method is a plain "def", so the *)
(* event loop runs each of them to its end: one method, one action.  What  *)
(* interleaves is the order of the calls, and between a claim and its      *)
(* commit or discard the caller awaits a provider.                         *)
(*                                                                         *)
(* A dictionary from challenge ids is the set of its challenges, each      *)
(* carrying its id.  A deque of timestamps is the set of the claims        *)
(* (requests, failures) that appended them, each carrying its time, so two *)
(* entries of one instant stay two.  A code is not put together digit by   *)
(* digit: a guess is right or wrong, and nothing but its own challenge can *)
(* tell, because the stored HMAC covers the challenge id.                  *)
(***************************************************************************)
EXTENDS Integers, FiniteSets

CONSTANTS
    Ids,              \* challenge ids secrets.token_urlsafe may mint
    Requests,         \* names of the recovery requests that are counted
    Users, Destinations, Addresses,
    Methods, Purposes,
    None,             \* no destination, or client_ip=None: nothing is charged there
    CodeTTL, EnrolTTL, Cooldown, Window, Day, Lockout, MaxAttempts,
    LoginDailyCap, ResetDailyCap, DestinationCap, AddressCap,
    SendTimeout,      \* bound: how long after its claim a provider may still fail
    MaxTime           \* bound on the clock

ASSUME OtpConstants ==
    /\ IsFiniteSet(Ids) /\ IsFiniteSet(Requests)
    /\ None \notin Addresses \cup Destinations
    /\ Methods \subseteq {"SMS", "EMAIL", "TOTP"}
    /\ Purposes \subseteq {"login", "verify_contact", "password_reset"}
    /\ {CodeTTL, EnrolTTL, MaxAttempts, DestinationCap, AddressCap} \subseteq Nat \ {0}
    /\ {LoginDailyCap, ResetDailyCap, Window, Day} \subseteq Nat \ {0}
    /\ {Cooldown, Lockout, SendTimeout, MaxTime} \subseteq Nat

VARIABLES
    now,               \* self._clock()
    challenges,        \* self._challenges
    pending,           \* self._pending
    lastSend,          \* self._last_send
    sends,             \* self._sends
    destinationSends,  \* self._destination_sends
    ipSends,           \* self._ip_sends
    ipRequests,        \* self._ip_requests
    totpFailures,      \* self._totp_failures
    totpLocks,         \* self._totp_locks
    (************************ what an observer has seen ************************)
    history,           \* every claim since the process started
    requested,         \* every counted recovery request since then
    discarded,         \* ids whose send failed and was given back
    accepted,          \* codes verify has accepted, and when
    misses             \* wrong authenticator codes since the last right one

limits == <<lastSend, sends, destinationSends, ipSends, ipRequests>>
locks == <<totpFailures, totpLocks>>
ghosts == <<history, requested, discarded, accepted, misses>>
vars == <<now, challenges, pending, limits, locks, ghosts>>

Time == 0 .. MaxTime
SentMethods == Methods \ {"TOTP"}
Groups == {"login", "password_reset"}
Never == -1   \* no entry in _last_send

\* The budget a purpose draws on.
LimitGroup(p) == IF p = "password_reset" THEN "password_reset" ELSE "login"
DailyCap(g) == IF g = "password_reset" THEN ResetDailyCap ELSE LoginDailyCap

Challenge == [id : Ids, user : Users, purpose : Purposes, method : Methods,
              expires : Nat, left : 1 .. MaxAttempts]
Claim == [id : Ids, user : Users, purpose : Purposes, method : Methods,
          destination : Destinations \cup {None}, address : Addresses \cup {None}, at : Time]
Request == [id : Requests, address : Addresses, at : Time]
Failure == [id : Ids, left : 1 .. MaxAttempts, at : Time]
Acceptance == [id : Ids, at : Time]

SendKeys == Groups \X Users \X Methods
KeyOf(c) == <<LimitGroup(c.purpose), c.user, c.method>>
BudgetOf(c) == <<LimitGroup(c.purpose), c.user>>
SendsMessage(c) == c.method # "TOTP"
Budgets == Groups \X Users
Places == SentMethods \X Destinations

Named(S) == {c.id : c \in S}
Minted == Named(history)

-------------------------------------------------------------------------------
\* _prune: what is left of each store once the clock reads now.

\* Mutant: a code is still good at the instant it expires.
UnexpiredTooLate(S) == {c \in S : c.expires >= now}
Unexpired(S) == {c \in S : c.expires > now}
\* Mutant: the window forgets its oldest event one tick early.
RecentTooShort(log, age) == {e \in log : e.at > now - age}
Recent(log, age) == {e \in log : e.at >= now - age}
Pruned(logs, age) == [k \in DOMAIN logs |-> Recent(logs[k], age)]
Charged(logs, age, keys, e) ==
    [k \in DOMAIN logs |-> Recent(logs[k], age) \cup (IF k \in keys THEN {e} ELSE {})]
\* Mutant: the cooldown ends one tick early.
CoolingTooShort == [k \in SendKeys |->
              IF lastSend[k] # Never /\ now - lastSend[k] < Cooldown - 1
                THEN lastSend[k] ELSE Never]
Cooling == [k \in SendKeys |->
              IF lastSend[k] # Never /\ now - lastSend[k] < Cooldown
                THEN lastSend[k] ELSE Never]
Locked(u) == totpLocks[u] > now

PruneCodes ==
    /\ challenges' = Unexpired(challenges)
    /\ pending' = Unexpired(pending)
PruneLimits ==
    /\ lastSend' = Cooling
    /\ sends' = Pruned(sends, Day)
    /\ destinationSends' = Pruned(destinationSends, Window)
    /\ ipSends' = Pruned(ipSends, Window)
    /\ ipRequests' = Pruned(ipRequests, Window)
PruneLocks ==
    /\ totpFailures' = Pruned(totpFailures, Window)
    /\ totpLocks' = [u \in Users |-> IF Locked(u) THEN totpLocks[u] ELSE 0]

-------------------------------------------------------------------------------
\* _reserve: every limit is looked at before anything is recorded.

\* Mutant: the address window lets one send too many through.
AdmittedOffByOne(c) ==
    /\ Cooling[KeyOf(c)] = Never
    /\ c.destination # None =>
         Cardinality(Recent(destinationSends[c.method, c.destination], Window)) < DestinationCap
    /\ c.address # None => Cardinality(Recent(ipSends[c.address], Window)) <= AddressCap
    /\ SendsMessage(c) => Cardinality(Recent(sends[BudgetOf(c)], Day))
                            < DailyCap(LimitGroup(c.purpose))
Admitted(c) ==
    /\ Cooling[KeyOf(c)] = Never
    /\ c.destination # None =>
         Cardinality(Recent(destinationSends[c.method, c.destination], Window)) < DestinationCap
    /\ c.address # None => Cardinality(Recent(ipSends[c.address], Window)) < AddressCap
    /\ SendsMessage(c) => Cardinality(Recent(sends[BudgetOf(c)], Day))
                            < DailyCap(LimitGroup(c.purpose))

\* A message is charged to its user's day, its destination and its address; an
\* authenticator challenge sends nothing and only starts the cooldown.
Charge(c) ==
    /\ lastSend' = [Cooling EXCEPT ![KeyOf(c)] = now]
    /\ sends' = Charged(sends, Day, {k \in Budgets : SendsMessage(c) /\ k = BudgetOf(c)}, c)
    /\ destinationSends' =
         Charged(destinationSends, Window, {k \in Places : k = <<c.method, c.destination>>}, c)
    /\ ipSends' = Charged(ipSends, Window, {a \in Addresses : a = c.address}, c)
    /\ ipRequests' = Pruned(ipRequests, Window)

NewChallenge(c, ttl) ==
    [id |-> c.id, user |-> c.user, purpose |-> c.purpose, method |-> c.method,
     expires |-> now + ttl, left |-> MaxAttempts]

\* claim: reserve a send slot and mint a code, held aside until the send is over.
ClaimCode(c) ==
    /\ c.id \notin Minted
    /\ c.method \in SentMethods
    /\ c.at = now
    /\ Admitted(c)
    /\ Charge(c)
    /\ challenges' = Unexpired(challenges)
    /\ pending' = Unexpired(pending) \cup {NewChallenge(c, CodeTTL)}
    /\ PruneLocks
    /\ history' = history \cup {c}
    /\ UNCHANGED <<now, requested, discarded, accepted, misses>>

SameFlow(c, d) == c.user = d.user /\ c.purpose = d.purpose

\* _clear_user_challenges(user, purpose) and the installation, the end of commit.
\* Mutant: a code replaces the one of its own channel, whatever the flow.
InstallByMethod(S, c) == {d \in S : d.user # c.user \/ d.method # c.method} \cup {c}
Install(S, c) == {d \in S : ~SameFlow(d, c)} \cup {c}

\* commit, after the provider took the message: the new code replaces the one of
\* the same flow.  replaces is the set of the id it supersedes, {} for None.
\* Mutant: the flow is cleared before the code to supersede is looked for.
CommitClearing(c, replaces) ==
    /\ c \in pending
    /\ pending' = pending \ {c}
    /\ challenges' = IF replaces \subseteq Named(challenges) THEN Install(challenges, c)
                                                            ELSE Install(challenges, c) \ {c}
    /\ UNCHANGED <<now, limits, locks, ghosts>>
Commit(c, replaces) ==
    /\ c \in pending
    /\ pending' = pending \ {c}
    /\ IF replaces \subseteq Named(challenges)
         THEN challenges' = Install(challenges, c)
         ELSE challenges' = challenges   \* refused: the code just sent is lost
    /\ UNCHANGED <<now, limits, locks, ghosts>>

\* claim_totp with the commit every caller runs right after it, no await between.
\* An enrolment is not throttled and lives longer; a lock refuses both.
OpenTotp(c, throttled, ttl, replaces) ==
    /\ c.id \notin Minted
    /\ c.method = "TOTP" /\ "TOTP" \in Methods
    /\ c.at = now
    /\ ~Locked(c.user)
    /\ IF throttled THEN Admitted(c) /\ Charge(c) ELSE PruneLimits
    /\ challenges' = LET held == Unexpired(challenges)
                     IN  IF replaces \subseteq Named(held)
                           THEN Install(held, NewChallenge(c, ttl)) ELSE held
    /\ pending' = Unexpired(pending)
    /\ PruneLocks
    /\ history' = history \cup {c}
    /\ UNCHANGED <<now, requested, discarded, accepted, misses>>

\* discard, when the send failed: the code goes and the channel's cooldown with it.
\* Mutant: a failed send is given back to the day's allowance as well.
DiscardRefunded(c) ==
    /\ c \in pending
    /\ now <= c.expires - CodeTTL + SendTimeout
    /\ pending' = pending \ {c}
    /\ lastSend' = [lastSend EXCEPT ![KeyOf(c)] = Never]
    /\ sends' = [sends EXCEPT ![BudgetOf(c)] = {e \in @ : e.id # c.id}]
    /\ discarded' = discarded \cup {c.id}
    /\ UNCHANGED <<now, challenges, destinationSends, ipSends, ipRequests, locks,
                   history, requested, accepted, misses>>
Discard(c) ==
    /\ c \in pending
    /\ now <= c.expires - CodeTTL + SendTimeout
    /\ pending' = pending \ {c}
    /\ lastSend' = [lastSend EXCEPT ![KeyOf(c)] = Never]
    /\ discarded' = discarded \cup {c.id}
    /\ UNCHANGED <<now, challenges, sends, destinationSends, ipSends, ipRequests, locks,
                   history, requested, accepted, misses>>

\* verify with the right code: consuming is removal.
\* Mutant: any right code, a sent one too, clears the authenticator failures.
VerifyRightClearsAll(c) ==
    /\ c \in Unexpired(challenges)
    /\ c.method = "TOTP" => ~Locked(c.user)
    /\ challenges' = Unexpired(challenges) \ {c}
    /\ pending' = Unexpired(pending)
    /\ PruneLimits
    /\ totpFailures' = [Pruned(totpFailures, Window) EXCEPT ![c.user] = {}]
    /\ totpLocks' = [u \in Users |-> IF Locked(u) THEN totpLocks[u] ELSE 0]
    /\ accepted' = accepted \cup {[id |-> c.id, at |-> now]}
    /\ misses' = IF c.method = "TOTP" THEN [misses EXCEPT ![c.user] = {}] ELSE misses
    /\ UNCHANGED <<now, history, requested, discarded>>
\* Mutant: a right code is accepted without being removed.
VerifyRightKeeps(c) ==
    /\ c \in Unexpired(challenges)
    /\ c.method = "TOTP" => ~Locked(c.user)
    /\ PruneCodes /\ PruneLimits /\ PruneLocks
    /\ accepted' = accepted \cup {[id |-> c.id, at |-> now]}
    /\ misses' = IF c.method = "TOTP" THEN [misses EXCEPT ![c.user] = {}] ELSE misses
    /\ UNCHANGED <<now, history, requested, discarded>>
VerifyRight(c) ==
    /\ c \in Unexpired(challenges)
    /\ c.method = "TOTP" => ~Locked(c.user)
    /\ challenges' = Unexpired(challenges) \ {c}
    /\ pending' = Unexpired(pending)
    /\ PruneLimits
    /\ totpFailures' = IF c.method = "TOTP"
                         THEN [Pruned(totpFailures, Window) EXCEPT ![c.user] = {}]
                         ELSE Pruned(totpFailures, Window)
    /\ totpLocks' = [u \in Users |-> IF Locked(u) THEN totpLocks[u] ELSE 0]
    /\ accepted' = accepted \cup {[id |-> c.id, at |-> now]}
    /\ misses' = IF c.method = "TOTP" THEN [misses EXCEPT ![c.user] = {}] ELSE misses
    /\ UNCHANGED <<now, history, requested, discarded>>

\* verify with a wrong code: one attempt less, the last one takes the challenge
\* with it, and a wrong authenticator code counts towards the lock.
\* Mutant: the attempts run out and the challenge stays.
VerifyWrongForever(c) ==
    LET miss == [id |-> c.id, left |-> c.left, at |-> now]
    IN  /\ c \in Unexpired(challenges)
        /\ c.method = "TOTP" => ~Locked(c.user)
        /\ challenges' = (Unexpired(challenges) \ {c}) \cup {[c EXCEPT !.left = @ - 1]}
        /\ pending' = Unexpired(pending)
        /\ PruneLimits /\ PruneLocks
        /\ misses' = [misses EXCEPT ![c.user] = @ \cup {miss}]
        /\ UNCHANGED <<now, history, requested, discarded, accepted>>
VerifyWrong(c) ==
    LET miss == [id |-> c.id, left |-> c.left, at |-> now]
        failures == Recent(totpFailures[c.user], Window) \cup {miss}
        others == Unexpired(challenges) \ {c}
    IN  /\ c \in Unexpired(challenges)
        /\ c.method = "TOTP" => ~Locked(c.user)
        /\ challenges' = IF c.left > 1 THEN others \cup {[c EXCEPT !.left = @ - 1]}
                                       ELSE others
        /\ pending' = Unexpired(pending)
        /\ PruneLimits
        /\ IF c.method = "TOTP"
             THEN /\ totpFailures' = [Pruned(totpFailures, Window) EXCEPT ![c.user] = failures]
                  /\ totpLocks' = [u \in Users |->
                       IF u = c.user /\ Cardinality(failures) >= MaxAttempts
                         THEN now + Lockout
                         ELSE IF Locked(u) THEN totpLocks[u] ELSE 0]
                  /\ misses' = [misses EXCEPT ![c.user] = @ \cup {miss}]
             ELSE PruneLocks /\ UNCHANGED misses
        /\ UNCHANGED <<now, history, requested, discarded, accepted>>

\* reserve_request_slot: one recovery request counts against its address.
ReserveRequestSlot(r) ==
    /\ r.id \notin Named(requested)
    /\ r.at = now
    /\ Cardinality(Recent(ipRequests[r.address], Window)) < AddressCap
    /\ PruneCodes /\ PruneLocks
    /\ lastSend' = Cooling
    /\ sends' = Pruned(sends, Day)
    /\ destinationSends' = Pruned(destinationSends, Window)
    /\ ipSends' = Pruned(ipSends, Window)
    /\ ipRequests' = Charged(ipRequests, Window, {r.address}, r)
    /\ requested' = requested \cup {r}
    /\ UNCHANGED <<now, history, discarded, accepted, misses>>

\* require_live, and every call a limit, a lock or a wrong id refuses: only _prune.
Sweep ==
    /\ PruneCodes /\ PruneLimits /\ PruneLocks
    /\ UNCHANGED <<now, ghosts>>

\* invalidate_user: two-step verification off, or a password reset.
InvalidateUser(u) ==
    /\ challenges' = {c \in challenges : c.user # u}
    /\ totpFailures' = [totpFailures EXCEPT ![u] = {}]
    /\ totpLocks' = [totpLocks EXCEPT ![u] = 0]
    /\ misses' = [misses EXCEPT ![u] = {}]
    /\ UNCHANGED <<now, pending, limits, history, requested, discarded, accepted>>

Tick ==
    /\ now < MaxTime
    /\ now' = now + 1
    /\ UNCHANGED <<challenges, pending, limits, locks, ghosts>>

-------------------------------------------------------------------------------
Init ==
    /\ now = 0
    /\ challenges = {} /\ pending = {}
    /\ lastSend = [k \in SendKeys |-> Never]
    /\ sends = [k \in Budgets |-> {}]
    /\ destinationSends = [k \in Places |-> {}]
    /\ ipSends = [a \in Addresses |-> {}]
    /\ ipRequests = [a \in Addresses |-> {}]
    /\ totpFailures = [u \in Users |-> {}]
    /\ totpLocks = [u \in Users |-> 0]
    /\ history = {} /\ requested = {} /\ discarded = {} /\ accepted = {}
    /\ misses = [u \in Users |-> {}]

\* What the routes ask for: a recovery send is charged to no address (its request
\* was), and only a sign-in challenge is ever superseded by a switch of method.
CanSupersede(c, replaces) ==
    \/ replaces = {}
    \/ /\ c.purpose = "login"
       /\ \E old \in history : /\ replaces = {old.id} /\ old.id # c.id
                               /\ SameFlow(old, c)

Asked(c) == c.purpose = "password_reset" => c.address = None
Supersedes == {{}} \cup {{i} : i \in Ids}

Next ==
    \/ \E c \in [id : Ids \ Minted, user : Users, purpose : Purposes, method : SentMethods,
                 destination : Destinations, address : Addresses \cup {None},
                 at : {now}] : Asked(c) /\ ClaimCode(c)
    \/ \E c \in pending, replaces \in Supersedes :
          CanSupersede(c, replaces) /\ Commit(c, replaces)
    \/ \E c \in [id : Ids \ Minted, user : Users, purpose : Purposes, method : {"TOTP"},
                 destination : {None}, address : {None}, at : {now}],
          replaces \in Supersedes :
          /\ CanSupersede(c, replaces)
          /\ IF c.purpose = "verify_contact" THEN OpenTotp(c, FALSE, EnrolTTL, replaces)
                                             ELSE OpenTotp(c, TRUE, CodeTTL, replaces)
    \/ \E c \in pending : Discard(c)
    \/ \E c \in challenges : VerifyRight(c) \/ VerifyWrong(c)
    \/ \E r \in [id : Requests, address : Addresses, at : {now}] : ReserveRequestSlot(r)
    \/ Sweep
    \/ \E u \in Users : InvalidateUser(u)
    \/ Tick

Spec == Init /\ [][Next]_vars

-------------------------------------------------------------------------------
\* Every variable holds what the code's type annotations say.
TypeOK ==
    /\ now \in Time
    /\ challenges \subseteq Challenge /\ pending \subseteq Challenge
    /\ lastSend \in [SendKeys -> Time \cup {Never}]
    /\ sends \in [Budgets -> SUBSET Claim]
    /\ destinationSends \in [Places -> SUBSET Claim]
    /\ ipSends \in [Addresses -> SUBSET Claim]
    /\ ipRequests \in [Addresses -> SUBSET Request]
    /\ totpFailures \in [Users -> SUBSET Failure]
    /\ totpLocks \in [Users -> Nat]
    /\ history \subseteq Claim /\ requested \subseteq Request
    /\ discarded \subseteq Ids /\ accepted \subseteq Acceptance
    /\ misses \in [Users -> SUBSET Failure]

\* commit: however claims, sends and commits interleave, a user never holds two
\* codes of one flow, so the code sent last is the only one that works.
OneCodePerFlow ==
    \A c, d \in challenges : SameFlow(c, d) => c = d

\* verify: a code works once, and only while the lifetime that started at its claim
\* (not at its commit) lasts, however slow the send in between was.
TTL(c) == IF c.method = "TOTP" /\ c.purpose = "verify_contact" THEN EnrolTTL ELSE CodeTTL
AcceptedOnceInTime ==
    /\ \A x, y \in accepted : x.id = y.id => x = y
    /\ \A x \in accepted :
         /\ x.id \notin Named(challenges \cup pending)
         /\ \E c \in history : c.id = x.id /\ c.at <= x.at /\ x.at < c.at + TTL(c)

\* No stretch of age ticks, wherever it starts, holds more than cap of the log.
Sliding(log, age, cap) ==
    \A e \in log : Cardinality({f \in log : e.at <= f.at /\ f.at <= e.at + age}) <= cap

\* _check_window and _prune: the rolling windows, pruned by every call, still bound
\* every stretch of Window ticks: the messages to one destination, whichever
\* accounts and flows asked, and those charged to one address.
DestinationWindow ==
    \A m \in SentMethods, d \in Destinations :
        Sliding({c \in history : c.method = m /\ c.destination = d}, Window, DestinationCap)
AddressWindow ==
    \A a \in Addresses :
        /\ Sliding({c \in history : c.address = a}, Window, AddressCap)
        /\ Sliding({r \in requested : r.address = a}, Window, AddressCap)

\* _reserve: no stretch of a day holds more than the cap of one user's messages in
\* one group, a failed send included, and the two groups count apart.
DailyAllowance ==
    \A g \in Groups, u \in Users :
        Sliding({c \in history : SendsMessage(c) /\ LimitGroup(c.purpose) = g /\ c.user = u},
                Day, DailyCap(g))

\* _reserve and discard: two codes of one user, channel and group are a cooldown
\* apart, unless one of them was never sent.
Throttled(c) == SendsMessage(c) \/ c.purpose # "verify_contact"
CooldownKept ==
    \A c, d \in {e \in history : Throttled(e) /\ e.id \notin discarded} :
        c # d /\ KeyOf(c) = KeyOf(d) => c.at - d.at >= Cooldown \/ d.at - c.at >= Cooldown

\* _record_totp_failure: a run of wrong authenticator codes, spread over as many
\* challenges as it likes, gets at most MaxAttempts looked at in any stretch shorter
\* than both the lockout and the window failures age out of.
GuessBudget ==
    \A u \in Users : \A e \in misses[u] :
        LET span == IF Lockout < Window THEN Lockout ELSE Window
        IN  Cardinality({f \in misses[u] : e.at <= f.at /\ f.at < e.at + span}) <= MaxAttempts

\* claim, commit, discard and verify: a live code leaves the store only in the step
\* that accepts it, takes its last attempt, drops all its user held or puts a newer code
\* of its flow in its place.  A send that fails, is refused (a switch that lost the race
\* leaves the winner's code alone) or is another flow's never costs it.
HeldCodeSurvives ==
    [][\A c \in challenges :
          \/ now >= c.expires
          \/ c.id \in Named(challenges')
          \/ c.id \in Named(accepted') \ Named(accepted)
          \/ c.left = 1 /\ VerifyWrong(c)
          \/ \E d \in challenges' : d.id \notin Named(challenges) /\ SameFlow(c, d)
          \/ InvalidateUser(c.user)]_vars

\* The life of a code as CodeLifecycle tells it.
StageOfCode == [i \in Ids |->
    IF i \notin Minted THEN "new"
    ELSE IF i \in Named(pending) THEN "sending"
    ELSE IF i \in Named(challenges) THEN "live"
    ELSE IF i \in Named(accepted) THEN "spent" ELSE "dead"]
FlowOfCode == [i \in Ids |->
    IF i \in Minted THEN LET c == CHOOSE c \in history : c.id = i IN <<c.user, c.purpose>>
                    ELSE <<>>]

Codes == INSTANCE CodeLifecycle WITH
    Flows <- Users \X Purposes, NoFlow <- <<>>, stage <- StageOfCode, flow <- FlowOfCode

\* The whole store, with its limits, clock and guesses, keeps that promise.
CodesAreSingleUse == Codes!Spec
===============================================================================

---------------------------- MODULE AccountAccess -----------------------------
(***************************************************************************)
(* The ways into an account and what they share: two-step sign-in and its  *)
(* change of method (backend/app/services/auth_service.py), two-step       *)
(* verification on and off (two_factor_service.py) and password recovery   *)
(* (password_reset_service.py), as concurrent requests over one store of   *)
(* codes and one USERS row per account.                                    *)
(*                                                                         *)
(* A handler runs without interruption between two awaits, so an action is *)
(* what one request does from an await to the next, and "at" names the     *)
(* await it is suspended in.  The store is CodeLifecycle, the promise      *)
(* OtpService is proved to keep: its limits, expiries and last wrong       *)
(* guesses show here as requests that fail and codes that lapse, at any    *)
(* time.  Codes and passwords entered are right: a wrong one changes no    *)
(* state of this module.                                                   *)
(***************************************************************************)
EXTENDS Integers, FiniteSets

CONSTANTS
    Ids,       \* challenge ids
    Apps,      \* those of challenges an authenticator answers: nothing is sent
    Users, Requests,
    None       \* no code, no row read yet

ASSUME AccountConstants ==
    /\ IsFiniteSet(Ids) /\ IsFiniteSet(Requests)
    /\ Apps \subseteq Ids /\ None \notin Ids \cup Users

VARIABLES
    stage, flow,      \* the challenges of OtpService, as CodeLifecycle has them
    account,          \* USERS: how often the password was reset, and OTP_ENABLED
    authorizations,   \* PasswordResetService._authorizations
    requests,         \* the handlers, each suspended in one await or idle
    (************************ what an observer has seen ************************)
    proof,            \* the password a sign-in code was minted on
    supersedes,       \* the code a switch of method moves away from
    opened,           \* the last finished reset when a code became live
    sessions,         \* how many sessions each code has opened
    finished          \* the newest password whose reset has run to its end

codes == <<stage, flow>>
ghosts == <<proof, supersedes, opened, sessions, finished>>
vars == <<codes, account, authorizations, requests, ghosts>>

Purposes == {"login", "verify_contact", "password_reset"}
Flows == Users \X Purposes
Store == INSTANCE CodeLifecycle WITH NoFlow <- None

Row == [password : Nat, otp : BOOLEAN]
Steps == {"idle", "deciding", "sending", "reading", "checking", "signing",
          "enabling", "replacing", "wiping", "disabling", "clearing"}
Request == [at : Steps, user : Users \cup {None}, purpose : Purposes \cup {None},
            code : Ids \cup {None}, from : Ids \cup {None}, seen : Row \cup {None}]
Idle == [at |-> "idle", user |-> None, purpose |-> None,
         code |-> None, from |-> None, seen |-> None]
Authorization == [code : Ids, user : Users, since : Nat]

UserOf(i) == flow[i][1]
PurposeOf(i) == flow[i][2]
Held(S) == S \cap Store!Held
LiveOf(u) == {i \in Ids : stage[i] = "live" /\ UserOf(i) = u}

Enters(r, q) == requests[r] = Idle /\ requests' = [requests EXCEPT ![r] = q]
Resumes(r, step, to) ==
    /\ requests[r].at = step
    /\ requests' = [requests EXCEPT ![r].at = to]
Ends(r, step) ==
    /\ requests[r].at = step
    /\ requests' = [requests EXCEPT ![r] = Idle]

-------------------------------------------------------------------------------
\* Asking for a code: login, switch_otp_method, start_enable, start_totp_enroll and
\* PasswordResetService.request.  Unless the method is the authenticator, each awaits
\* the provider between its claim and its commit.

\* Both ways to a sign-in code read the row and decide on what they read.
ReadsRow(r, u, from) ==
    /\ Enters(r, [Idle EXCEPT !.at = "deciding", !.user = u, !.purpose = "login",
                              !.from = from, !.seen = account[u]])
    /\ UNCHANGED <<codes, account, authorizations, ghosts>>

Login(r, u) == ReadsRow(r, u, None)

\* switch_otp_method starts at a live sign-in code (require_live).
SwitchMethod(r, from) ==
    /\ stage[from] = "live" /\ PurposeOf(from) = "login"
    /\ ReadsRow(r, UserOf(from), from)

\* A switch passes on the proof of the code it starts at; a login has its own.
Issue(q, i) ==
    /\ proof' = [proof EXCEPT ![i] = IF q.purpose # "login" THEN 0
                                     ELSE IF q.from = None THEN q.seen.password
                                     ELSE proof[q.from]]
    /\ supersedes' = [supersedes EXCEPT ![i] = q.from]

\* claim, and the message leaves.
SendCode(r, q, i) ==
    /\ i \notin Apps
    /\ Store!StartSending(i, <<q.user, q.purpose>>, {})
    /\ Issue(q, i)
    /\ requests' = [requests EXCEPT ![r] =
                      [q EXCEPT !.at = "sending", !.code = i, !.seen = None]]
    /\ UNCHANGED <<account, authorizations, opened, sessions, finished>>

\* Mutant: the code to replace is not looked for.
ReplaceableAlways(q) == TRUE
Replaceable(q) ==
    q.from = None \/ stage[q.from] = "live"

\* claim_totp and commit, with no await between them.
OpenApp(r, q, i) ==
    LET f == <<q.user, q.purpose>>
    IN  /\ i \in Apps
        /\ IF Replaceable(q)
             THEN /\ Store!Open(i, f, Store!LiveIn(f))
                  /\ opened' = [opened EXCEPT ![i] = finished[q.user]]
             ELSE Store!Refuse(i, f, {}) /\ UNCHANGED opened
        /\ Issue(q, i)
        /\ requests' = [requests EXCEPT ![r] = Idle]
        /\ UNCHANGED <<account, authorizations, sessions, finished>>

\* The authenticator or a message: whichever the account and the caller chose.
Issues(r, q, i) == SendCode(r, q, i) \/ OpenApp(r, q, i)

\* _start_otp_login, after a read that found the second step on.
StartOtpLogin(r, i) ==
    /\ requests[r].at = "deciding" /\ requests[r].seen.otp
    /\ Issues(r, requests[r], i)

\* The other handlers read nothing before the claim that they write afterwards.
StartEnable(r, u, i) ==
    /\ requests[r] = Idle
    /\ SendCode(r, [Idle EXCEPT !.user = u, !.purpose = "verify_contact"], i)
StartTotpEnroll(r, u, i) ==
    /\ requests[r] = Idle
    /\ OpenApp(r, [Idle EXCEPT !.user = u, !.purpose = "verify_contact"], i)
RequestRecovery(r, u, i) ==
    /\ requests[r] = Idle
    /\ Issues(r, [Idle EXCEPT !.user = u, !.purpose = "password_reset"], i)

\* The provider took the message: commit.  It refuses when the code expired on the
\* way or the code to replace has gone.
Sent(r) ==
    LET q == requests[r]
    IN  /\ Ends(r, "sending")
        /\ IF stage[q.code] = "sending" /\ Replaceable(q)
             THEN /\ Store!Install(q.code, Store!LiveIn(flow[q.code]))
                  /\ opened' = [opened EXCEPT ![q.code] = finished[q.user]]
             ELSE Store!Drop(Held({q.code})) /\ UNCHANGED opened
        /\ UNCHANGED <<account, authorizations, proof, supersedes, sessions, finished>>

\* It did not: discard, and the error goes to the caller.
NotSent(r) ==
    /\ Ends(r, "sending")
    /\ Store!Drop(Held({requests[r].code}))
    /\ UNCHANGED <<account, authorizations, ghosts>>

-------------------------------------------------------------------------------
\* Answering with a code: complete_otp_login, confirm_enable and
\* PasswordResetService.verify.

\* Mutant: an authenticator code is taken up without reading its owner's row.
SubmitUnread(r, i) ==
    LET q == [Idle EXCEPT !.user = UserOf(i), !.purpose = PurposeOf(i), !.code = i]
    IN  /\ stage[i] = "live"
        /\ IF i \in Apps
             THEN Enters(r, [q EXCEPT !.at = "reading"]) /\ UNCHANGED codes
             ELSE Enters(r, [q EXCEPT !.at = "checking"]) /\ Store!Spend(i, {})
        /\ UNCHANGED <<account, authorizations, ghosts>>
\* A sent code is consumed before the first await.  An authenticator code needs its
\* owner's secret, so the row is read first.
Submit(r, i) ==
    LET q == [Idle EXCEPT !.user = UserOf(i), !.purpose = PurposeOf(i), !.code = i]
    IN  /\ stage[i] = "live"
        /\ IF i \in Apps
             THEN /\ Enters(r, [q EXCEPT !.at = "reading", !.seen = account[UserOf(i)]])
                  /\ UNCHANGED codes
             ELSE Enters(r, [q EXCEPT !.at = "checking"]) /\ Store!Spend(i, {})
        /\ UNCHANGED <<account, authorizations, ghosts>>

\* Mutant: the challenge looked up before the await is trusted after it.
VerifyAppUnchecked(r) ==
    /\ Resumes(r, "reading", "checking")
    /\ Store!Move(requests[r].code, "spent", {}) /\ UNCHANGED flow
    /\ UNCHANGED <<account, authorizations, ghosts>>
\* verify, after the await: the challenge is looked up again.
VerifyApp(r) ==
    /\ Resumes(r, "reading", "checking")
    /\ Store!Spend(requests[r].code, {})
    /\ UNCHANGED <<account, authorizations, ghosts>>

\* The row the last step decides on.  A second read in one session hands back the
\* object the first one loaded, as it was.
RowOf(q) == IF q.code \in Apps THEN q.seen ELSE account[q.user]

\* complete_otp_login: the code was right, is the second step still on?
Check(r) ==
    LET q == requests[r]
    IN  /\ Resumes(r, "checking", "signing")
        /\ q.purpose = "login" /\ RowOf(q).otp
        /\ UNCHANGED <<codes, account, authorizations, ghosts>>

\* verify of a recovery: one authorization for one spent code.
Authorize(r) ==
    LET q == requests[r]
    IN  /\ Ends(r, "checking")
        /\ q.purpose = "password_reset"
        /\ authorizations' = authorizations \cup
             {[code |-> q.code, user |-> q.user, since |-> finished[q.user]]}
        /\ UNCHANGED <<codes, account, ghosts>>

\* confirm_enable: assigns the row it read, and awaits the write.
Confirm(r) ==
    LET q == requests[r]
    IN  /\ q.at = "checking" /\ q.purpose = "verify_contact"
        /\ requests' = [requests EXCEPT ![r].at = "enabling", ![r].seen = RowOf(q)]
        /\ UNCHANGED <<codes, account, authorizations, ghosts>>

\* _issue_session: the commit is over and the token is minted.
SignIn(r) ==
    LET i == requests[r].code
    IN  /\ Ends(r, "signing")
        /\ sessions' = [j \in Ids |-> sessions[j] + (IF j = i THEN 1 ELSE 0)]
        /\ UNCHANGED <<codes, account, authorizations, proof, supersedes, opened, finished>>

-------------------------------------------------------------------------------
\* The row is written with the columns that differ from what the request read.

Enable(r) ==
    LET q == requests[r]
    IN  /\ Ends(r, "enabling")
        /\ account' = [account EXCEPT ![q.user].otp = @ \/ ~q.seen.otp]
        /\ UNCHANGED <<codes, authorizations, ghosts>>

TurnOff(r, u) ==
    /\ Enters(r, [Idle EXCEPT !.at = "disabling", !.user = u, !.seen = account[u]])
    /\ UNCHANGED <<codes, account, authorizations, ghosts>>

Disable(r) ==
    LET q == requests[r]
    IN  /\ Resumes(r, "disabling", "clearing")
        /\ account' = [account EXCEPT ![q.user].otp = @ /\ ~q.seen.otp]
        /\ UNCHANGED <<codes, authorizations, ghosts>>

\* invalidate_user, once the change is written.
Clear(r) ==
    /\ Ends(r, "clearing")
    /\ Store!Drop(LiveOf(requests[r].user))
    /\ UNCHANGED <<account, authorizations, ghosts>>

\* Mutant: the authorization is left where it is.
CompleteUnspent(r, a) ==
    /\ Enters(r, [Idle EXCEPT !.at = "replacing", !.user = a.user])
    /\ UNCHANGED <<codes, account, authorizations, ghosts>>
\* complete: the authorization is spent before the write.
Complete(r, a) ==
    /\ Enters(r, [Idle EXCEPT !.at = "replacing", !.user = a.user])
    /\ authorizations' = authorizations \ {a}
    /\ UNCHANGED <<codes, account, ghosts>>

\* The new password is committed, and the row refreshed.
Replace(r) ==
    LET u == requests[r].user
        row == [account[u] EXCEPT !.password = @ + 1]
    IN  /\ requests[r].at = "replacing"
        /\ account' = [account EXCEPT ![u] = row]
        /\ requests' = [requests EXCEPT ![r].at = "wiping", ![r].seen = row]
        /\ UNCHANGED <<codes, authorizations, ghosts>>

\* Mutant: the other authorizations of the account are kept.
WipeCodesOnly(r) ==
    LET u == requests[r].user
        done == requests[r].seen.password
    IN  /\ Ends(r, "wiping")
        /\ Store!Drop(LiveOf(u))
        /\ finished' = [finished EXCEPT ![u] = IF done > @ THEN done ELSE @]
        /\ UNCHANGED <<authorizations, account, proof, supersedes, opened, sessions>>
\* complete, its end: both invalidate_user calls.
Wipe(r) ==
    LET u == requests[r].user
        done == requests[r].seen.password
    IN  /\ Ends(r, "wiping")
        /\ Store!Drop(LiveOf(u))
        /\ authorizations' = {a \in authorizations : a.user # u}
        /\ finished' = [finished EXCEPT ![u] = IF done > @ THEN done ELSE @]
        /\ UNCHANGED <<account, proof, supersedes, opened, sessions>>

-------------------------------------------------------------------------------
\* A limit, a lock, a row that says no, or the database: the request ends early.  So
\* does, for all this module keeps, a login that turns out to need no code.
Fail(r) ==
    /\ requests[r].at \notin {"idle", "sending"}
    /\ requests' = [requests EXCEPT ![r] = Idle]
    /\ UNCHANGED <<codes, account, authorizations, ghosts>>

\* Codes expire or run out of attempts, authorizations expire.
Lapse ==
    /\ \/ \E i \in Store!Held : Store!Drop({i}) /\ UNCHANGED authorizations
       \/ \E a \in authorizations : authorizations' = authorizations \ {a} /\ UNCHANGED codes
    /\ UNCHANGED <<account, requests, ghosts>>

\* The process restarts: what it kept in memory is gone, the rows stay.
Restart ==
    /\ Store!Drop(Store!Held)
    /\ authorizations' = {}
    /\ requests' = [r \in Requests |-> Idle]
    /\ UNCHANGED <<account, ghosts>>

Init ==
    /\ Store!Init
    /\ authorizations = {}
    /\ account \in [Users -> [password : {0}, otp : BOOLEAN]]
    /\ requests = [r \in Requests |-> Idle]
    /\ proof = [i \in Ids |-> 0]
    /\ supersedes = [i \in Ids |-> None]
    /\ opened = [i \in Ids |-> 0]
    /\ sessions = [i \in Ids |-> 0]
    /\ finished = [u \in Users |-> 0]

Next ==
    \/ \E r \in Requests :
         \/ \E u \in Users : TurnOff(r, u) \/ Login(r, u)
         \/ \E i \in Ids : SwitchMethod(r, i) \/ StartOtpLogin(r, i) \/ Submit(r, i)
         \/ \E u \in Users, i \in Ids :
              StartEnable(r, u, i) \/ StartTotpEnroll(r, u, i) \/ RequestRecovery(r, u, i)
         \/ \E a \in authorizations : Complete(r, a)
         \/ Sent(r) \/ NotSent(r)
         \/ VerifyApp(r) \/ Check(r) \/ Authorize(r) \/ Confirm(r) \/ SignIn(r)
         \/ Enable(r) \/ Disable(r) \/ Clear(r) \/ Replace(r) \/ Wipe(r) \/ Fail(r)
    \/ Lapse \/ Restart

Spec == Init /\ [][Next]_vars

-------------------------------------------------------------------------------
\* Every variable holds what the code's type annotations say, and a request has what
\* the rest of its handler uses: its code, and the row it read.
Shaped(q) ==
    /\ q.at # "idle" => q.user \in Users
    /\ q.at \in {"sending", "reading", "checking"} => q.code \in Ids
    /\ q.at \in {"deciding", "reading", "enabling", "wiping", "disabling"} => q.seen \in Row
    /\ q.at = "checking" /\ q.code \in Apps => q.seen \in Row
TypeOK ==
    /\ Store!TypeOK
    /\ account \in [Users -> Row]
    /\ authorizations \subseteq Authorization
    /\ requests \in [Requests -> Request]
    /\ \A r \in Requests : Shaped(requests[r])
    /\ proof \in [Ids -> Nat] /\ opened \in [Ids -> Nat] /\ sessions \in [Ids -> Nat]
    /\ supersedes \in [Ids -> Ids \cup {None}]
    /\ finished \in [Users -> Nat]

\* verify and complete: however many verifications and completions of one recovery
\* run at once, and whichever fail, a password is replaced at most once per
\* recovery code that was spent for its account.
OneChangePerCode ==
    \A u \in Users : account[u].password <=
        Cardinality({i \in Ids : stage[i] = "spent" /\ flow[i] = <<u, "password_reset">>})

\* complete_otp_login: a code opens at most one session, and only a spent sign-in
\* code does, although verifications of one code overlap around the reads.
OneSessionPerCode ==
    \A i \in Ids : sessions[i] > 0 =>
        sessions[i] = 1 /\ stage[i] = "spent" /\ PurposeOf(i) = "login"

\* commit's "replaces": of the switches racing from one code, one goes through.
SwitchedOnce ==
    \A i, j \in Ids :
        /\ supersedes[i] = supersedes[j] /\ supersedes[i] # None
        /\ stage[i] \in {"live", "spent"} /\ stage[j] \in {"live", "spent"}
        => i = j

\* complete, its end: no code that was live and no authorization that was
\* outstanding when a reset of the account finished is good for anything after it.
ResetDropsWhatWasOpen ==
    /\ \A i \in Ids : stage[i] = "live" => opened[i] = finished[UserOf(i)]
    /\ \A a \in authorizations : a.since = finished[a.user]

\* backend/docs/password-reset-notes.md, lines 43-45: "a sign-in code minted under
\* the old [password] must stop being a way in".  No sign-in code is accepted that
\* was minted on a password older than one whose reset has finished.
ResetEndsSignIns ==
    [][\A i \in Ids :
          stage[i] = "live" /\ stage'[i] = "spent" /\ PurposeOf(i) = "login"
            => proof[i] >= finished[UserOf(i)]]_vars
===============================================================================

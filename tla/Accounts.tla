------------------------------- MODULE Accounts -------------------------------
(***************************************************************************)
(* The rows of USERS and everyone who writes them: registration and the    *)
(* sessions of returning Google users (backend/app/services/               *)
(* auth_service.py), accounts created from Google with their picture       *)
(* (google_auth_service.py, cloudinary_service.py), the profile            *)
(* (user_service.py), and the contacts two-step verification attaches      *)
(* (two_factor_service.py), with the history of their codes, OTP_LOG       *)
(* (otp_audit.py).                                                         *)
(*                                                                         *)
(* As in AccountAccess an action is what one request does from an await to *)
(* the next, and the store of codes is CodeLifecycle, here with its        *)
(* verify_contact codes.  Each request of the bound is made once; the code *)
(* it issues and the picture it stores bear its name.                      *)
(***************************************************************************)
EXTENDS Naturals, Sequences, FiniteSets

CONSTANTS
    Users,       \* primary keys: the bound on accounts
    Requests,    \* the bound on requests
    Names, Emails, Mobiles,
    Identities,  \* the "sub" claims of Google accounts
    EmailOf,     \* the verified address each of them has
    Candidates,  \* the usernames tried for each, in order
    Tables,      \* the tables there may be at first
    None         \* NULL, and nothing held yet

VARIABLES
    users,        \* USERS
    pictures,     \* what Cloudinary stores of the pictures the program uploaded
    stage, flow,  \* the challenges of OtpService, as CodeLifecycle has them
    carried,      \* what each code was sent over
    created,      \* OTP_LOG.CREATED_AT: the order in which codes became live
    log,          \* OTP_LOG.CONSUMED, of the codes that have a row
    requests,
    (************************ what an observer has seen ************************)
    start,        \* the first table
    left,         \* pictures an error, or their owner, let go of
    entered       \* who was signed in by which identity

codes == <<stage, flow, carried, created>>
ghosts == <<start, left, entered>>
vars == <<users, pictures, codes, log, requests, ghosts>>

Sent == {"SMS", "EMAIL"}
Methods == Sent \cup {"TOTP"}
Row == [name : Names, email : Emails \cup {None}, mobile : Mobiles \cup {None},
        secret : BOOLEAN, enabled : BOOLEAN, preferred : Methods \cup {None},
        sub : Identities \cup {None}, avatar : Requests \cup {None}]
NewRow == [name |-> None, email |-> None, mobile |-> None, secret |-> FALSE,
           enabled |-> FALSE, preferred |-> None, sub |-> None, avatar |-> None]
Absent == NewRow
Columns == {"name", "email", "mobile", "secret", "enabled", "preferred", "sub", "avatar"}

Store == INSTANCE CodeLifecycle WITH Ids <- Requests, Flows <- Users, NoFlow <- None

Steps == {"new", "deciding", "saving", "sending", "logging", "clearing", "checking",
          "confirming", "enabling", "recording", "unknown", "naming", "picturing",
          "creating", "undoing", "entering", "done"}
\* seen: the row as this request has it; want: as it is to be; tried: usernames tried.
Fresh == [at |-> "new", user |-> None, code |-> None, seen |-> Absent, want |-> Absent,
          tried |-> 0]
Done == [Fresh EXCEPT !.at = "done"]

Enters(r, q) == requests[r] = Fresh /\ requests' = [requests EXCEPT ![r] = q]
Resumes(r, from, q) == requests[r].at = from /\ requests' = [requests EXCEPT ![r] = q]
Ends(r, from) == Resumes(r, from, Done)

-------------------------------------------------------------------------------
\* The table.

Accounts == {u \in Users : users[u] # Absent}
NameTaken(n, u) == \E v \in Accounts \ {u} : users[v].name = n
Taken(column, d, u) == \E v \in Accounts \ {u} : users[v][column] = d

\* UK_USERS_USERNAME, UK_USERS_EMAIL, UK_USERS_MOBILE_NUMBER, UK_USERS_GOOGLE_SUB
Unique == {"name", "email", "mobile", "sub"}
Clashes(row, u) == \E c \in Unique : row[c] # None /\ Taken(c, row[c], u)

\* A commit writes the columns that differ from what the session read.
Merged(q) == [c \in Columns |->
                IF q.want[c] # q.seen[c] THEN q.want[c] ELSE users[q.user][c]]
Committed(q) == users' = [users EXCEPT ![q.user] = Merged(q)]

\* OtpDeliveryService.destination_for and default_method: NULL means SMS.
DestinationFor(row, m) ==
    CASE m = "EMAIL" -> row.email [] m = "SMS" -> row.mobile [] m = "TOTP" -> None
DefaultMethod(row) == IF row.preferred = None THEN "SMS" ELSE row.preferred
\* usable, of a configured provider.
Usable(row, m) == IF m = "TOTP" THEN row.secret ELSE DestinationFor(row, m) # None
ColumnOf(m) == IF m = "EMAIL" THEN "email" ELSE "mobile"

ASSUME AccountsConstants ==
    /\ IsFiniteSet(Requests)
    /\ None \notin Users \cup Requests \cup Names \cup Emails \cup Mobiles
                    \cup Identities \cup Methods
    /\ EmailOf \in [Identities -> Emails] /\ Candidates \in [Identities -> Seq(Names)]

\* At first no picture is the program's, and what codes are sent over is there.
ASSUME TablesLegal ==
    \A table \in Tables :
        /\ table \in [Users -> Row \cup {Absent}]
        /\ \A u \in Users :
             /\ table[u].avatar = None
             /\ table[u].enabled \/ table[u].preferred # None =>
                  DefaultMethod(table[u]) = "TOTP" \/ Usable(table[u], DefaultMethod(table[u]))

-------------------------------------------------------------------------------
\* Registration: the name is looked up, then the row is inserted.

Register(r, n) ==
    /\ ~NameTaken(n, None)
    /\ Enters(r, [Fresh EXCEPT !.at = "creating", !.want = [NewRow EXCEPT !.name = n]])
    /\ UNCHANGED <<users, pictures, codes, log, ghosts>>

\* verify: the credential does not hold up, or Google's keys cannot be had.
RefuseCredential(r) ==
    /\ Enters(r, Done)
    /\ UNCHANGED <<users, pictures, codes, log, ghosts>>

\* Mutant: the account that has the address is signed in.
IdentifyOrAdopt(r, g) ==
    LET owners == {u \in Accounts : users[u].sub = g \/ users[u].email = EmailOf[g]}
        want == [NewRow EXCEPT !.sub = g, !.email = EmailOf[g]]
    IN  /\ IF owners = {}
             THEN Enters(r, [Fresh EXCEPT !.at = "unknown", !.want = want])
             ELSE \E u \in owners :
                    Enters(r, [Fresh EXCEPT !.at = "entering", !.user = u,
                                            !.seen = users[u], !.want = want])
        /\ UNCHANGED <<users, pictures, codes, log, ghosts>>
\* identify: the credential holds up, and its sub is looked up.
Identify(r, g) ==
    LET owners == {u \in Accounts : users[u].sub = g}
        want == [NewRow EXCEPT !.sub = g, !.email = EmailOf[g]]
    IN  /\ IF owners = {}
             THEN Enters(r, [Fresh EXCEPT !.at = "unknown", !.want = want])
             ELSE \E u \in owners :
                    Enters(r, [Fresh EXCEPT !.at = "entering", !.user = u,
                                            !.seen = users[u], !.want = want])
        /\ UNCHANGED <<users, pictures, codes, log, ghosts>>

\* An address that has an account is not adopted.
CheckEmail(r) ==
    LET q == requests[r]
    IN  /\ IF Taken("email", q.want.email, None)
             THEN Ends(r, "unknown")
             ELSE Resumes(r, "unknown", [q EXCEPT !.at = "naming"])
        /\ UNCHANGED <<users, pictures, codes, log, ghosts>>

\* _username_base and _suffixed, of the attempt to come.
Candidate(q) == Candidates[q.want.sub][q.tried + 1]
Exhausted(q) == q.tried = Len(Candidates[q.want.sub])

\* Mutant: when all are taken there is no name.
TryNameOrNone(r) ==
    LET q == requests[r]
        Takes(n) == Resumes(r, "naming", [q EXCEPT !.at = "picturing", !.want.name = n])
    IN  /\ q.at = "naming"
        /\ IF Exhausted(q) THEN Takes(None)
           ELSE IF NameTaken(Candidate(q), None)
             THEN Resumes(r, "naming", [q EXCEPT !.tried = @ + 1])
             ELSE Takes(Candidate(q))
        /\ UNCHANGED <<users, pictures, codes, log, ghosts>>
\* _available_username: one lookup a candidate, and in the end a name nobody looked up.
TryName(r) ==
    LET q == requests[r]
        Takes(n) == Resumes(r, "naming", [q EXCEPT !.at = "picturing", !.want.name = n])
    IN  /\ q.at = "naming"
        /\ IF Exhausted(q) THEN \E n \in Names : Takes(n)
           ELSE IF NameTaken(Candidate(q), None)
             THEN Resumes(r, "naming", [q EXCEPT !.tried = @ + 1])
             ELSE Takes(Candidate(q))
        /\ UNCHANGED <<users, pictures, codes, log, ghosts>>

\* _store_avatar: no picture, or one that could not be fetched or stored.  What the
\* SDK itself raises is not among the errors it catches: the sign-in fails.
NoPicture(r) ==
    /\ \/ Resumes(r, "picturing", [requests[r] EXCEPT !.at = "creating"])
       \/ Ends(r, "picturing")
    /\ UNCHANGED <<users, pictures, codes, log, ghosts>>
StorePicture(r) ==
    /\ Resumes(r, "picturing", [requests[r] EXCEPT !.at = "creating", !.want.avatar = r])
    /\ pictures' = pictures \cup {r}
    /\ UNCHANGED <<users, codes, log, ghosts>>

\* The row goes in, under the next primary key.  Afterwards a first Google sign-in
\* goes on to its session with the row it wrote, and a registration is over.
Inserted(r, q) ==
    LET u == CHOOSE v \in Users \ Accounts : TRUE
    IN  /\ q.at = "creating"
        /\ Accounts # Users
        /\ ~Clashes(q.want, None)
        /\ users' = [users EXCEPT ![u] = q.want]
        /\ Resumes(r, "creating", IF q.want.sub = None THEN Done
                                  ELSE [q EXCEPT !.at = "entering", !.user = u,
                                                 !.seen = q.want])
        /\ UNCHANGED <<pictures, codes, log, ghosts>>
\* Mutant: the picture of the loser stays where it is.
CreateKeeping(r) ==
    LET q == requests[r]
    IN  \/ Inserted(r, q)
        \/ /\ Ends(r, "creating") /\ Clashes(q.want, None)
           /\ UNCHANGED <<users, pictures, codes, log, ghosts>>
\* register and _create_user, from the insert to the commit.  A lost race is told by
\* the constraints; a picture uploaded for it is to be removed.
Create(r) ==
    LET q == requests[r]
    IN  \/ Inserted(r, q)
        \/ /\ q.at = "creating" /\ Clashes(q.want, None)
           /\ Resumes(r, "creating", IF q.want.avatar = None THEN Done
                                     ELSE [q EXCEPT !.at = "undoing"])
           /\ UNCHANGED <<users, pictures, codes, log, ghosts>>

\* delete_asset, best effort.
Undo(r) ==
    /\ Ends(r, "undoing")
    /\ \/ pictures' = pictures \ {r} /\ UNCHANGED left
       \/ left' = left \cup {r} /\ UNCHANGED pictures
    /\ UNCHANGED <<users, codes, log, start, entered>>

\* login_google: a session, or the second step (AccountAccess goes on from there).
Enter(r) ==
    LET q == requests[r]
    IN  /\ Ends(r, "entering")
        /\ entered' = IF q.seen.enabled THEN entered
                      ELSE entered \cup {[user |-> q.user, sub |-> q.want.sub]}
        /\ UNCHANGED <<users, pictures, codes, log, start, left>>

-------------------------------------------------------------------------------
\* A signed-in user's requests begin with the row.

Reads(r, u) ==
    /\ u \in Accounts
    /\ Enters(r, [Fresh EXCEPT !.at = "deciding", !.user = u, !.seen = users[u]])
    /\ UNCHANGED <<users, pictures, codes, log, ghosts>>

\* update_profile asks for the email if that is preferred, and otherwise for a mobile.
Preferable(row, m) == DestinationFor(row, IF m = "EMAIL" THEN m ELSE "SMS") # None

\* update_profile: a name nobody has, a preference, the picture removed.
Change(r) ==
    LET q == requests[r]
    IN  /\ q.at = "deciding"
        /\ \E n \in Names, m \in Methods \cup {q.seen.preferred}, a \in {q.seen.avatar, None} :
             /\ n = q.seen.name \/ ~NameTaken(n, q.user)
             /\ m = q.seen.preferred \/ Preferable(q.seen, m)
             /\ Resumes(r, "deciding", [q EXCEPT !.at = "saving",
                   !.want = [q.seen EXCEPT !.name = n, !.preferred = m, !.avatar = a]])
        /\ UNCHANGED <<users, pictures, codes, log, ghosts>>

\* Its commit: a lost race for the name is a conflict.
Save(r) ==
    LET q == requests[r]
    IN  /\ Ends(r, "saving")
        /\ IF Clashes(Merged(q), q.user) THEN UNCHANGED <<users, left>>
           ELSE /\ Committed(q)
                /\ left' = IF Merged(q).avatar = users[q.user].avatar THEN left
                           ELSE left \cup {users[q.user].avatar}
        /\ UNCHANGED <<pictures, codes, log, start, entered>>

\* start_enable, once nobody else turned out to have the contact: claim.
Claim(r, m, d) ==
    LET q == requests[r]
    IN  /\ Resumes(r, "deciding", [q EXCEPT !.at = "sending", !.code = r, !.seen = Absent])
        /\ ~(q.seen.enabled /\ DestinationFor(q.seen, m) = d)
        /\ ~Taken(ColumnOf(m), d, q.user)
        /\ Store!StartSending(r, q.user, {})
        /\ carried' = [carried EXCEPT ![r] = [method |-> m, address |-> d]]
        /\ UNCHANGED <<users, pictures, created, log, ghosts>>

NextCreated(c) == [created EXCEPT ![c] = 1 + Cardinality({i \in Requests : created[i] > 0})]

\* The message is on its way: commit.  It refuses when the code expired on the way.
Committing(r) ==
    LET q == requests[r]
    IN  /\ IF stage[r] = "sending"
             THEN /\ Resumes(r, "sending", [q EXCEPT !.at = "logging"])
                  /\ Store!Install(r, Store!LiveIn(q.user))
                  /\ created' = NextCreated(r)
             ELSE Ends(r, "sending") /\ UNCHANGED <<stage, flow, created>>
        /\ UNCHANGED <<users, pictures, carried, log, ghosts>>
NotSent(r) ==
    /\ Ends(r, "sending")
    /\ Store!Drop({r} \cap Store!Held)
    /\ UNCHANGED <<users, pictures, carried, created, log, ghosts>>

\* audit.issued, whose failure is swallowed.
LogIssued(r) ==
    /\ Ends(r, "logging")
    /\ log' \in {log, [log EXCEPT ![r] = "unused"]}
    /\ UNCHANGED <<users, pictures, codes, ghosts>>

\* start_totp_enroll: the secret is committed, and the challenge opens at once.
Enroll(r) ==
    LET q == requests[r]
    IN  /\ Ends(r, "deciding")
        /\ users' = [users EXCEPT ![q.user].secret = TRUE]
        /\ Store!Open(r, q.user, Store!LiveIn(q.user))
        /\ carried' = [carried EXCEPT ![r] = [method |-> "TOTP", address |-> None]]
        /\ created' = NextCreated(r)
        /\ UNCHANGED <<pictures, log, ghosts>>

\* disable, and invalidate_user once that is written.
Disable(r) ==
    LET q == requests[r]
    IN  /\ Resumes(r, "deciding", [q EXCEPT !.at = "clearing", !.seen = Absent])
        /\ users' = [users EXCEPT ![q.user].enabled = @ /\ ~q.seen.enabled]
        /\ UNCHANGED <<pictures, codes, log, ghosts>>
Clear(r) ==
    /\ Ends(r, "clearing")
    /\ Store!Drop(Store!LiveIn(requests[r].user))
    /\ UNCHANGED <<users, pictures, carried, created, log, ghosts>>

-------------------------------------------------------------------------------
\* confirm_enable.

\* Mutant: whoever enters the code gets the contact.
SubmitByAnyone(r, i, u) ==
    LET q == [Fresh EXCEPT !.user = u, !.code = i]
    IN  /\ stage[i] = "live" /\ u \in Accounts
        /\ IF carried[i].method = "TOTP"
             THEN /\ Enters(r, [q EXCEPT !.at = "checking", !.seen = users[u]])
                  /\ UNCHANGED <<stage, flow>>
             ELSE Enters(r, [q EXCEPT !.at = "confirming"]) /\ Store!Spend(i, {})
        /\ UNCHANGED <<users, pictures, carried, created, log, ghosts>>
\* Only the user a code was minted for can use it (expected_user_id).  A sent code is
\* consumed before the first await; for an authenticator's the row with the secret is
\* read first.
Submit(r, i, u) ==
    LET q == [Fresh EXCEPT !.user = u, !.code = i]
    IN  /\ stage[i] = "live" /\ flow[i] = u
        /\ IF carried[i].method = "TOTP"
             THEN /\ Enters(r, [q EXCEPT !.at = "checking", !.seen = users[u]])
                  /\ UNCHANGED <<stage, flow>>
             ELSE Enters(r, [q EXCEPT !.at = "confirming"]) /\ Store!Spend(i, {})
        /\ UNCHANGED <<users, pictures, carried, created, log, ghosts>>

\* The code is one of the secret's, by a clock that can be trusted.
Prove(r) ==
    LET q == requests[r]
    IN  /\ q.seen.secret
        /\ Resumes(r, "checking", [q EXCEPT !.at = "confirming"])
        /\ Store!Spend(q.code, {})
        /\ UNCHANGED <<users, pictures, carried, created, log, ghosts>>

\* Mutant: the preference is left alone.
WithContactOnly(row, c) ==
    [row EXCEPT !.email = IF c.method = "EMAIL" THEN c.address ELSE @,
                !.mobile = IF c.method = "SMS" THEN c.address ELSE @,
                !.enabled = TRUE]
\* The row with the contact on it and the second step on; the first time, that is also
\* the way codes go.
WithContact(row, c) ==
    [row EXCEPT !.email = IF c.method = "EMAIL" THEN c.address ELSE @,
                !.mobile = IF c.method = "SMS" THEN c.address ELSE @,
                !.enabled = TRUE,
                !.preferred = IF row.enabled THEN @ ELSE c.method]

\* The read after the check hands a session that has the row already the same row.
Fetch(r) ==
    LET q == requests[r]
        row == IF carried[q.code].method = "TOTP" THEN q.seen ELSE users[q.user]
    IN  /\ Resumes(r, "confirming", [q EXCEPT !.at = "enabling", !.seen = row,
                                       !.want = WithContact(row, carried[q.code])])
        /\ UNCHANGED <<users, pictures, codes, log, ghosts>>

\* The commit.  Somebody else may have verified the contact in the meantime.
Enable(r) ==
    LET q == requests[r]
    IN  /\ q.at = "enabling"
        /\ IF Clashes(Merged(q), q.user)
             THEN Ends(r, "enabling") /\ UNCHANGED users
             ELSE /\ Resumes(r, "enabling", [q EXCEPT !.at = "recording", !.seen = Absent,
                                                      !.want = Absent])
                  /\ Committed(q)
        /\ UNCHANGED <<pictures, codes, log, ghosts>>

\* Mutant: the newest unused row there is.
UnusedAnywhere(u) == {i \in Requests : log[i] = "unused"}
\* mark_consumed: the newest unused row of the user.
Unused(u) == {i \in Requests : log[i] = "unused" /\ flow[i] = u}
Newest(S) == {i \in S : \A j \in S : created[j] <= created[i]}

\* audit.consumed, whose failure is swallowed.
Record(r) ==
    /\ Ends(r, "recording")
    /\ log' \in {log, [i \in Requests |-> IF i \in Newest(Unused(requests[r].user))
                                            THEN "used" ELSE log[i]]}
    /\ UNCHANGED <<users, pictures, codes, ghosts>>

-------------------------------------------------------------------------------
\* The database, a provider or a limit ends a request early, or its answer was no.  A
\* picture it had stored for a row that never came stays.
Fail(r) ==
    /\ requests[r].at \notin {"new", "sending", "undoing", "done"}
    /\ requests' = [requests EXCEPT ![r] = Done]
    /\ left' = left \cup IF requests[r].at = "creating" THEN {r} \cap pictures ELSE {}
    /\ UNCHANGED <<users, pictures, codes, log, start, entered>>

\* A code expires, or runs out of attempts.
Lapse(i) ==
    /\ i \in Store!Held
    /\ Store!Drop({i})
    /\ UNCHANGED <<users, pictures, carried, created, log, requests, ghosts>>

\* Every request of the bound has had its answer.
Over ==
    /\ \A r \in Requests : requests[r] = Done
    /\ UNCHANGED vars

Init ==
    /\ users \in Tables /\ start = users
    /\ pictures = {} /\ left = {} /\ entered = {}
    /\ Store!Init
    /\ carried = [i \in Requests |-> [method |-> None, address |-> None]]
    /\ created = [i \in Requests |-> 0]
    /\ log = [i \in Requests |-> "none"]
    /\ requests = [r \in Requests |-> Fresh]

Next ==
    \/ \E r \in Requests :
         \/ \E n \in Names : Register(r, n)
         \/ RefuseCredential(r)
         \/ \E g \in Identities : Identify(r, g)
         \/ CheckEmail(r) \/ TryName(r) \/ NoPicture(r) \/ StorePicture(r)
         \/ Create(r) \/ Undo(r) \/ Enter(r)
         \/ \E u \in Users : Reads(r, u)
         \/ Change(r) \/ Save(r)
         \/ \E d \in Emails : Claim(r, "EMAIL", d)
         \/ \E d \in Mobiles : Claim(r, "SMS", d)
         \/ Committing(r) \/ NotSent(r) \/ LogIssued(r)
         \/ Enroll(r) \/ Disable(r) \/ Clear(r)
         \/ \E i \in Requests, u \in Users : Submit(r, i, u)
         \/ Prove(r) \/ Fetch(r) \/ Enable(r) \/ Record(r)
         \/ Fail(r) \/ Lapse(r)
    \/ Over

Spec == Init /\ [][Next]_vars

-------------------------------------------------------------------------------
\* Every column and variable holds what the code's annotations say.
TypeOK ==
    /\ users \in [Users -> Row \cup {Absent}]
    /\ pictures \subseteq Requests /\ left \subseteq Requests
    /\ Store!TypeOK
    /\ created \in [Requests -> 0 .. Cardinality(Requests)]
    /\ log \in [Requests -> {"none", "unused", "used"}]
    /\ \A r \in Requests :
         /\ requests[r].at \in Steps
         /\ requests[r].at \in {"deciding", "saving", "sending", "clearing", "checking",
                                "confirming", "enabling", "recording", "entering"}
              => requests[r].user \in Accounts

\* google_auth_service.py: "sub is the identity, never the email".  A Google sign-in
\* only ever enters the account that has its sub, however it races with registration,
\* with other sign-ins, and with a user who is just verifying the same address.
IdentityIsAccount == \A e \in entered : users[e.user].sub = e.sub

\* _create_user and delete_asset: a row's picture is stored, and a stored picture is a
\* row's or about to be, unless an error or the row's owner let go of it.
PicturesMatchRows ==
    /\ \A u \in Accounts : users[u].avatar # None => users[u].avatar \in pictures
    /\ \A p \in pictures \ left :
         \/ \E u \in Accounts : users[u].avatar = p
         \/ requests[p].want.avatar = p

\* users.py, models: an address or number is on an account only because Google vouched
\* for it or because a code sent to it, for that account, came back.
ContactsProven ==
    \A u \in Accounts, m \in Sent :
        LET d == DestinationFor(users[u], m)
        IN  \/ d = None
            \/ start[u] # Absent /\ DestinationFor(start[u], m) = d
            \/ users[u].sub # None /\ d = EmailOf[users[u].sub]
            \/ \E i \in Requests : stage[i] = "spent" /\ flow[i] = u
                 /\ carried[i] = [method |-> m, address |-> d]

\* auth_service.py, 368: an account with the second step on and no contact where its
\* codes go is "reachable only by editing the database", while contacts, preference and
\* flag are written by overlapping requests with what each read.
SentPreferenceExists ==
    \A u \in Accounts : users[u].enabled /\ DefaultMethod(users[u]) \in Sent
        => Usable(users[u], DefaultMethod(users[u]))

\* OTP_LOG: however writes of the history fail and overlap, an account has no more
\* codes on record as used than it has used.
UsesAreReal ==
    \A u \in Users : Cardinality({i \in Requests : log[i] = "used" /\ flow[i] = u})
        <= Cardinality({i \in Requests : stage[i] = "spent" /\ flow[i] = u})
===============================================================================

----------------------------- MODULE AccountsProofs -----------------------------
(***************************************************************************)
(* What look-ups, partial writes and unique columns of Accounts add up to, *)
(* for every number of accounts, addresses, identities and overlapping     *)
(* requests.                                                               *)
(***************************************************************************)
EXTENDS Accounts, FiniteSetTheorems, TLAPS

Loose == [name : Names \cup {None}, email : Emails \cup {None},
          mobile : Mobiles \cup {None}, secret : BOOLEAN, enabled : BOOLEAN,
          preferred : Methods \cup {None}, sub : Identities \cup {None},
          avatar : Requests \cup {None}]
Request == [at : Steps, user : Users \cup {None}, code : Requests \cup {None},
            seen : Loose, want : Loose, tried : Nat]
Carried == [method : {"EMAIL"}, address : Emails] \cup [method : {"SMS"}, address : Mobiles]
             \cup [method : {"TOTP"}, address : {None}]

Signed == {"deciding", "saving", "sending", "logging", "clearing", "checking", "confirming",
           "enabling", "recording", "entering"}
Aware == {"deciding", "saving", "checking", "enabling", "entering"}

\* What is known of a row when an older reading of it is at hand: accounts keep their
\* identity, and contacts and preferences change but are never emptied.
Kept(old, new) ==
    /\ new \in Row
    /\ new.sub = old.sub
    /\ old.email # None => new.email # None
    /\ old.mobile # None => new.mobile # None
    /\ old.preferred # None => new.preferred # None

\* Where codes of an account go by its preference, if it has one or the second step.
Ready(row) ==
    /\ row.preferred = "EMAIL" => row.email # None
    /\ row.preferred = "SMS" => row.mobile # None
    /\ row.enabled /\ row.preferred = None => row.mobile # None

\* A row as Google sign-in or registration is about to write it.
FromGoogle(row) ==
    /\ row.mobile = None /\ ~row.enabled /\ row.preferred = None
    /\ row.sub = None => row.email = None
    /\ row.sub # None => row.email = EmailOf[row.sub]

\* What a request is about, at each await.
Fits(r, q) ==
    /\ q \in Request
    /\ q.at \in Signed => q.user \in Accounts
    /\ q.at \in Aware => q.seen \in Row /\ Kept(q.seen, users[q.user])
    /\ q.at = "saving" =>
         /\ q.want \in Row
         /\ q.want.email = q.seen.email /\ q.want.mobile = q.seen.mobile
         /\ q.want.secret = q.seen.secret /\ q.want.enabled = q.seen.enabled
         /\ q.want.sub = q.seen.sub
         /\ \/ q.want.preferred = q.seen.preferred
            \/ Preferable(q.seen, q.want.preferred)
         /\ q.want.preferred = None => q.seen.preferred = None
         /\ q.want.avatar \in {None, q.seen.avatar}
    /\ q.at = "sending" => q.code = r /\ stage[r] # "new" /\ flow[r] = q.user
    /\ q.at \in {"checking", "confirming", "enabling"} =>
         q.code \in Requests /\ stage[q.code] # "new" /\ flow[q.code] = q.user
    /\ q.at = "checking" => carried[q.code].method = "TOTP"
    /\ q.at \in {"confirming", "enabling"} => stage[q.code] = "spent"
    /\ q.at = "confirming" /\ carried[q.code].method = "TOTP" =>
         q.seen \in Row /\ Kept(q.seen, users[q.user])
    /\ q.at = "enabling" => q.want = WithContact(q.seen, carried[q.code])
    /\ q.at \in {"unknown", "naming", "picturing", "entering"} => q.want.sub \in Identities
    /\ q.at \in {"unknown", "naming", "picturing", "creating"} => FromGoogle(q.want)
    /\ q.at \in {"unknown", "naming"} => q.tried \in 0 .. Len(Candidates[q.want.sub])
    /\ q.at \in {"picturing", "creating"} => q.want.name \in Names
    /\ q.at = "entering" => users[q.user].sub = q.want.sub

RequestsFit ==
    /\ requests = [r \in Requests |-> requests[r]]
    /\ \A r \in Requests : Fits(r, requests[r])

RowsOK == users \in [Users -> Row \cup {Absent}] /\ \A u \in Accounts : Ready(users[u])

CodesOK ==
    /\ Store!TypeOK
    /\ created \in [Requests -> 0 .. Cardinality(Requests)]
    /\ log \in [Requests -> {"none", "unused", "used"}]
    /\ DOMAIN carried = Requests /\ carried = [i \in Requests |-> carried[i]]
    /\ \A i \in Requests : stage[i] # "new" => carried[i] \in Carried /\ flow[i] \in Accounts
    /\ \A i \in Requests : stage[i] \in {"new", "sending"} => created[i] = 0

\* Whom Google signed in is an account, with that identity.
EnteredRight ==
    \A e \in entered : e.user \in Accounts /\ users[e.user].sub = e.sub

AccountsInv == RequestsFit /\ RowsOK /\ CodesOK /\ EnteredRight /\ ContactsProven

-------------------------------------------------------------------------------
\* Rows and records.

LEMMA RowFacts ==
    /\ Row \subseteq Loose /\ Absent \in Loose /\ Absent \notin Row
    /\ NewRow = Absent
    /\ Fresh \in Request /\ Done \in Request
    /\ Fresh.at = "new" /\ Done.at = "done"
  BY AccountsConstants DEF AccountsConstants, Row, Loose, Absent, NewRow, Fresh, Done,
     Request, Steps

LEMMA AccountsAre ==
    ASSUME RowsOK
    PROVE  /\ Accounts \subseteq Users
           /\ \A u \in Users : u \in Accounts <=> users[u] \in Row
           /\ \A u \in Accounts : users[u] \in Row /\ Ready(users[u])
  BY RowFacts DEF RowsOK, Accounts

LEMMA DoneFits == ASSUME NEW r \in Requests PROVE Fits(r, Done)
  BY RowFacts DEF Fits, Done, Fresh, Signed, Aware

\* What the initial tables give.
LEMMA InitInv == Init => AccountsInv
<1> SUFFICES ASSUME Init PROVE AccountsInv
  OBVIOUS
<1> USE DEF Init
<1>1. RowsOK
  <2>1. users \in [Users -> Row \cup {Absent}]
    BY TablesLegal DEF TablesLegal
  <2>2. ASSUME NEW u \in Accounts PROVE Ready(users[u])
    <3>1. /\ u \in Users /\ users[u] \in Row
          /\ users[u].enabled \/ users[u].preferred # None =>
               DefaultMethod(users[u]) = "TOTP" \/ Usable(users[u], DefaultMethod(users[u]))
      BY <2>1, TablesLegal DEF TablesLegal, Accounts
    <3> QED
      BY <3>1, AccountsConstants DEF AccountsConstants, Ready, DefaultMethod, Usable,
         DestinationFor, Methods, Sent
  <2> QED
    BY <2>1, <2>2 DEF RowsOK
<1>2. CodesOK
  BY AccountsConstants, FS_CardinalityType
  DEF AccountsConstants, CodesOK, Store!Init, Store!TypeOK, Store!Stages
<1>3. RequestsFit
  <2>1. \A r \in Requests : Fits(r, Fresh)
    BY RowFacts DEF Fits, Fresh, Signed, Aware
  <2> QED
    BY <2>1 DEF RequestsFit
<1>4. EnteredRight
  BY DEF EnteredRight
<1>5. ContactsProven
  BY DEF ContactsProven, Accounts
<1> QED
  BY <1>1, <1>2, <1>3, <1>4, <1>5 DEF AccountsInv
-------------------------------------------------------------------------------
\* What no step undoes.

CodesGrow ==
    \A i \in Requests :
        /\ stage[i] # "new" => /\ stage'[i] # "new"
                              /\ carried'[i] = carried[i] /\ flow'[i] = flow[i]
        /\ stage[i] = "spent" => stage'[i] = "spent"
RowsGrow == \A u \in Accounts : Kept(users[u], users'[u])

\* Requests that do not move keep what they know.
LEMMA OthersFit ==
    ASSUME AccountsInv, RowsOK', RowsGrow, CodesGrow, NEW r \in Requests,
           requests'[r] = requests[r]
    PROVE  Fits(r, requests[r])'
<1>0. PICK q : q = requests[r]
  OBVIOUS
<1>1. Fits(r, q)
  BY <1>0 DEF AccountsInv, RequestsFit
<1>2. /\ Accounts \subseteq Users /\ \A u \in Accounts : users[u] \in Row
      /\ Accounts \subseteq Accounts'
      /\ \A u \in Accounts : Kept(users[u], users'[u])
  <2>1. \A u \in Accounts : u \in Users /\ users[u] \in Row /\ users'[u] \in Row
    BY AccountsAre DEF AccountsInv, RowsGrow, Kept
  <2> QED
    BY <2>1, RowFacts DEF RowsGrow, Accounts
<1>3. \A x \in Row, u \in Accounts : Kept(x, users[u]) => Kept(x, users'[u])
  BY <1>2 DEF Kept
<1>4. \A i \in Requests : stage[i] # "new" =>
        /\ stage'[i] # "new" /\ flow'[i] = flow[i] /\ carried'[i] = carried[i]
        /\ stage[i] = "spent" => stage'[i] = "spent"
  BY DEF CodesGrow
<1>5. Fits(r, q)'
  <2>1. /\ q \in Request
        /\ q.at \in Signed => q.user \in Accounts'
        /\ q.at \in Aware => q.seen \in Row /\ Kept(q.seen, users'[q.user])
        /\ q.at = "entering" => users'[q.user].sub = q.want.sub
    BY <1>1, <1>2, <1>3 DEF Fits, Aware, Signed, Kept
  <2>2. /\ q.at = "sending" => q.code = r /\ stage'[r] # "new" /\ flow'[r] = q.user
        /\ q.at \in {"checking", "confirming", "enabling"} =>
             /\ q.code \in Requests /\ stage'[q.code] # "new" /\ flow'[q.code] = q.user
             /\ carried'[q.code] = carried[q.code]
        /\ q.at \in {"confirming", "enabling"} => stage'[q.code] = "spent"
    BY <1>1, <1>4 DEF Fits
  <2>3. q.at = "confirming" /\ carried'[q.code].method = "TOTP" =>
          q.seen \in Row /\ Kept(q.seen, users'[q.user])
    BY <1>1, <1>2, <1>3, <2>2 DEF Fits, Signed
  <2> QED
    BY <1>1, <2>1, <2>2, <2>3 DEF Fits
<1> QED
  BY <1>0, <1>5

\* One request moves, and the rest is as it should be.
LEMMA OneMoves ==
    ASSUME AccountsInv, NEW r \in Requests, NEW q,
           requests' = [requests EXCEPT ![r] = q], Fits(r, q)',
           RowsOK', RowsGrow, CodesOK', CodesGrow
    PROVE  RequestsFit'
<1>1. requests' = [s \in Requests |-> requests'[s]]
  BY DEF AccountsInv, RequestsFit
<1>2. ASSUME NEW s \in Requests PROVE Fits(s, requests[s])'
  <2>1. CASE s = r
    <3>1. q = requests'[s]
      BY <2>1 DEF AccountsInv, RequestsFit
    <3> QED
      BY <2>1, <3>1
  <2>2. CASE s # r
    BY <2>2, OthersFit DEF AccountsInv, RequestsFit
  <2> QED
    BY <2>1, <2>2
<1> QED
  BY <1>1, <1>2 DEF RequestsFit

\* The rows stay.
LEMMA RowsSame ==
    ASSUME AccountsInv, UNCHANGED users PROVE RowsOK' /\ RowsGrow /\ Accounts' = Accounts
<1>1. RowsOK' /\ Accounts' = Accounts
  BY DEF AccountsInv, RowsOK, Accounts
<1>2. RowsGrow
  BY AccountsAre DEF AccountsInv, RowsGrow, Kept
<1> QED
  BY <1>1, <1>2

\* The codes stay; the history may be written.
LEMMA CodesSame ==
    ASSUME CodesOK, UNCHANGED codes, log' \in [Requests -> {"none", "unused", "used"}],
           Accounts \subseteq Accounts'
    PROVE  CodesOK' /\ CodesGrow
<1>1. stage' = stage /\ flow' = flow /\ carried' = carried /\ created' = created
  BY DEF codes
<1>2. CodesOK'
  BY <1>1 DEF CodesOK, Store!TypeOK
<1> QED
  BY <1>1, <1>2 DEF CodesGrow

\* What an account may be reached by stays proven.
LEMMA ProofsStay ==
    ASSUME AccountsInv, UNCHANGED <<users, start>>, CodesGrow PROVE ContactsProven'
<1>0. Accounts' = Accounts /\ users' = users /\ start' = start
  BY DEF Accounts
<1> SUFFICES ASSUME NEW u \in Accounts, NEW m \in Sent, NEW d, d = DestinationFor(users[u], m)
             PROVE  \/ d = None
                    \/ start[u] # Absent /\ DestinationFor(start[u], m) = d
                    \/ users[u].sub # None /\ d = EmailOf[users[u].sub]
                    \/ \E i \in Requests : stage'[i] = "spent" /\ flow'[i] = u
                         /\ carried'[i] = [method |-> m, address |-> d]
  BY <1>0 DEF ContactsProven
<1>1. \A i \in Requests : stage[i] = "spent" => /\ stage'[i] = "spent" /\ flow'[i] = flow[i]
                                               /\ carried'[i] = carried[i]
  BY DEF CodesGrow
<1> QED
  BY <1>1 DEF AccountsInv, ContactsProven

\* A step that writes no row.
Reading(r) ==
    /\ UNCHANGED <<users, start, entered>>
    /\ CodesOK' /\ CodesGrow
    /\ \E q : requests' = [requests EXCEPT ![r] = q] /\ Fits(r, q)'
LEMMA ReadingKeeps == ASSUME AccountsInv, NEW r \in Requests, Reading(r) PROVE AccountsInv'
<1>1. RowsOK' /\ RowsGrow /\ Accounts' = Accounts
  BY RowsSame DEF Reading
<1>2. RequestsFit'
  BY <1>1, OneMoves DEF Reading
<1>3. EnteredRight'
  BY <1>1 DEF AccountsInv, EnteredRight, Reading
<1>4. ContactsProven'
  BY ProofsStay DEF Reading
<1> QED
  BY <1>1, <1>2, <1>3, <1>4 DEF AccountsInv, Reading

\* A step that moves one request and does nothing else that matters here.
LEMMA Idles ==
    ASSUME AccountsInv, NEW r \in Requests, UNCHANGED <<users, start, entered, codes>>,
           log' \in [Requests -> {"none", "unused", "used"}],
           \E q : requests' = [requests EXCEPT ![r] = q] /\ Fits(r, q)
    PROVE  Reading(r)
<1>1. CodesOK' /\ CodesGrow
  BY RowsSame, CodesSame DEF AccountsInv
<1>2. PICK q : requests' = [requests EXCEPT ![r] = q] /\ Fits(r, q)
  OBVIOUS
<1>3. Fits(r, q)'
  BY <1>2 DEF Fits, Accounts, codes
<1> QED
  BY <1>1, <1>2, <1>3 DEF Reading

-------------------------------------------------------------------------------
\* The ways to an account, up to the insert.

LEMMA LogType == AccountsInv => log \in [Requests -> {"none", "unused", "used"}]
  BY DEF AccountsInv, CodesOK

LEMMA EndsIdle ==
    ASSUME AccountsInv, NEW r \in Requests, UNCHANGED <<users, start, entered, codes>>,
           log' \in [Requests -> {"none", "unused", "used"}],
           requests' = [requests EXCEPT ![r] = Done]
    PROVE  Reading(r)
  BY DoneFits, Idles

LEMMA EntrySteps ==
    ASSUME AccountsInv, NEW r \in Requests,
           \/ \E n \in Names : Register(r, n)
           \/ RefuseCredential(r)
           \/ \E g \in Identities : Identify(r, g)
           \/ CheckEmail(r) \/ NoPicture(r) \/ StorePicture(r) \/ Undo(r)
    PROVE  Reading(r)
<1>0. /\ Fits(r, requests[r]) /\ requests[r] \in Request
      /\ log \in [Requests -> {"none", "unused", "used"}]
      /\ RowsOK
  BY LogType DEF AccountsInv, RequestsFit, Fits
<1>1. CASE \E n \in Names : Register(r, n)
  <2>1. PICK n \in Names : Register(r, n)
    BY <1>1
  <2> DEFINE w == [NewRow EXCEPT !.name = n]
             q == [Fresh EXCEPT !.at = "creating", !.want = w]
  <2>2. /\ w \in Loose /\ w.name = n /\ FromGoogle(w)
    BY RowFacts, AccountsConstants DEF AccountsConstants, NewRow, Loose, FromGoogle
  <2> HIDE DEF w
  <2>3. q \in Request /\ q.at = "creating" /\ q.want = w
    BY <2>2, RowFacts DEF Request, Fresh, Steps
  <2> HIDE DEF q
  <2>4. Fits(r, q)
    BY <2>2, <2>3 DEF Fits, Signed, Aware
  <2> QED
    BY <2>1, <2>4, <1>0, Idles DEF Register, Enters, ghosts, w, q
<1>2. CASE RefuseCredential(r)
  BY <1>2, <1>0, EndsIdle DEF RefuseCredential, Enters, ghosts
<1>3. CASE \E g \in Identities : Identify(r, g)
  <2>1. PICK g \in Identities : Identify(r, g)
    BY <1>3
  <2> DEFINE w == [NewRow EXCEPT !.sub = g, !.email = EmailOf[g]]
  <2>2. w \in Loose /\ w.sub = g /\ FromGoogle(w)
    BY RowFacts, AccountsConstants DEF AccountsConstants, NewRow, Loose, FromGoogle
  <2> HIDE DEF w
  <2>3. CASE requests' = [requests EXCEPT ![r] = [Fresh EXCEPT !.at = "unknown", !.want = w]]
    <3> DEFINE q == [Fresh EXCEPT !.at = "unknown", !.want = w]
    <3>1. q \in Request /\ q.at = "unknown" /\ q.want = w /\ q.tried = 0
      BY <2>2, RowFacts DEF Request, Fresh, Steps
    <3> HIDE DEF q
    <3>2. 0 \in 0 .. Len(Candidates[g])
      BY AccountsConstants DEF AccountsConstants
    <3>3. Fits(r, q)
      BY <2>2, <3>1, <3>2 DEF Fits, Signed, Aware
    <3> QED
      BY <2>1, <2>3, <3>3, <1>0, Idles DEF Identify, ghosts, q
  <2>4. CASE \E u \in {v \in Accounts : users[v].sub = g} :
               requests' = [requests EXCEPT ![r] =
                  [Fresh EXCEPT !.at = "entering", !.user = u, !.seen = users[u], !.want = w]]
    <3>1. PICK u \in Accounts : /\ users[u].sub = g
            /\ requests' = [requests EXCEPT ![r] =
                  [Fresh EXCEPT !.at = "entering", !.user = u, !.seen = users[u], !.want = w]]
      BY <2>4
    <3> DEFINE q == [Fresh EXCEPT !.at = "entering", !.user = u, !.seen = users[u], !.want = w]
    <3>2. u \in Users /\ users[u] \in Row /\ users[u] \in Loose
      BY <1>0, AccountsAre, RowFacts
    <3>3. /\ q \in Request /\ q.at = "entering" /\ q.want = w /\ q.user = u
          /\ q.seen = users[u]
      BY <2>2, <3>2, RowFacts DEF Request, Fresh, Steps
    <3> HIDE DEF q
    <3>4. Fits(r, q)
      BY <2>2, <3>1, <3>2, <3>3 DEF Fits, Signed, Aware, Kept
    <3> QED
      BY <2>1, <3>1, <3>4, <1>0, Idles DEF Identify, ghosts, q
  <2> QED
    BY <2>1, <2>3, <2>4 DEF Identify, Enters, w
<1>4. CASE CheckEmail(r)
  <2> DEFINE q == [requests[r] EXCEPT !.at = "naming"]
  <2>1. CASE Resumes(r, "unknown", q)
    <3>1. /\ q \in Request /\ q.at = "naming" /\ q.want = requests[r].want
          /\ requests[r].at = "unknown" /\ q.tried = requests[r].tried
      BY <2>1, <1>0 DEF Request, Steps, Resumes
    <3> HIDE DEF q
    <3>2. Fits(r, q)
      BY <1>0, <3>1 DEF Fits, Signed, Aware
    <3> QED
      BY <2>1, <1>4, <3>2, <1>0, Idles DEF CheckEmail, Resumes, ghosts
  <2>2. CASE Ends(r, "unknown")
    BY <1>4, <2>2, <1>0, EndsIdle DEF CheckEmail, Ends, Resumes, ghosts
  <2> QED
    BY <1>4, <2>1, <2>2 DEF CheckEmail
<1>5. CASE NoPicture(r)
  <2> DEFINE q == [requests[r] EXCEPT !.at = "creating"]
  <2>1. CASE Resumes(r, "picturing", q)
    <3>1. /\ q \in Request /\ q.at = "creating" /\ q.want = requests[r].want
          /\ requests[r].at = "picturing"
      BY <2>1, <1>0 DEF Request, Steps, Resumes
    <3> HIDE DEF q
    <3>2. Fits(r, q)
      BY <1>0, <3>1 DEF Fits, Signed, Aware
    <3> QED
      BY <2>1, <1>5, <3>2, <1>0, Idles DEF NoPicture, Resumes, ghosts
  <2>2. CASE Ends(r, "picturing")
    BY <1>5, <2>2, <1>0, EndsIdle DEF NoPicture, Ends, Resumes, ghosts
  <2> QED
    BY <1>5, <2>1, <2>2 DEF NoPicture
<1>6. CASE StorePicture(r)
  <2> DEFINE w == [requests[r].want EXCEPT !.avatar = r]
             q == [requests[r] EXCEPT !.at = "creating", !.want.avatar = r]
  <2>0. requests[r].at = "picturing" /\ requests[r].want \in Loose
    BY <1>6, <1>0 DEF StorePicture, Resumes, Request
  <2>1. w \in Loose /\ w.name = requests[r].want.name /\ (FromGoogle(requests[r].want) => FromGoogle(w))
    BY <2>0 DEF Loose, FromGoogle
  <2> HIDE DEF w
  <2>2. q \in Request /\ q.at = "creating" /\ q.want = w
    BY <1>0, <2>1 DEF Request, Steps, w
  <2> HIDE DEF q
  <2>3. Fits(r, q)
    BY <1>0, <2>0, <2>1, <2>2 DEF Fits, Signed, Aware
  <2> QED
    BY <1>6, <2>3, <1>0, Idles DEF StorePicture, Resumes, ghosts, q
<1>7. CASE Undo(r)
  BY <1>7, <1>0, EndsIdle DEF Undo, Ends, Resumes
<1> QED
  BY <1>1, <1>2, <1>3, <1>4, <1>5, <1>6, <1>7

LEMMA NameSteps == ASSUME AccountsInv, NEW r \in Requests, TryName(r) PROVE Reading(r)
<1>0. /\ Fits(r, requests[r]) /\ requests[r] \in Request
      /\ log \in [Requests -> {"none", "unused", "used"}]
  BY LogType DEF AccountsInv, RequestsFit, Fits
<1>1. /\ requests[r].at = "naming"
      /\ requests[r].want \in Loose /\ requests[r].want.sub \in Identities
      /\ FromGoogle(requests[r].want)
      /\ Candidates[requests[r].want.sub] \in Seq(Names)
      /\ requests[r].tried \in 0 .. Len(Candidates[requests[r].want.sub])
  BY <1>0, AccountsConstants DEF AccountsConstants, TryName, Fits, Request
<1>2. ASSUME NEW n \in Names,
             requests' = [requests EXCEPT ![r] =
                            [requests[r] EXCEPT !.at = "picturing", !.want.name = n]]
      PROVE  Reading(r)
  <2> DEFINE w == [requests[r].want EXCEPT !.name = n]
             q == [requests[r] EXCEPT !.at = "picturing", !.want.name = n]
  <2>1. w \in Loose /\ w.name = n /\ w.sub = requests[r].want.sub /\ FromGoogle(w)
    BY <1>1 DEF Loose, FromGoogle
  <2> HIDE DEF w
  <2>2. q \in Request /\ q.at = "picturing" /\ q.want = w
    BY <1>0, <2>1 DEF Request, Steps, w
  <2> HIDE DEF q
  <2>3. Fits(r, q)
    BY <1>1, <2>1, <2>2 DEF Fits, Signed, Aware
  <2> QED
    BY <1>2, <2>3, <1>0, Idles DEF TryName, ghosts, q
<1>3. CASE Exhausted(requests[r])
  BY <1>2, <1>3 DEF TryName, Resumes
<1>4. CASE ~Exhausted(requests[r]) /\ NameTaken(Candidate(requests[r]), None)
  <2> DEFINE q == [requests[r] EXCEPT !.tried = @ + 1]
  <2>1. /\ q \in Request /\ q.at = "naming" /\ q.want = requests[r].want
        /\ q.tried \in 0 .. Len(Candidates[q.want.sub])
    BY <1>0, <1>1, <1>4 DEF Request, Exhausted
  <2> HIDE DEF q
  <2>2. Fits(r, q)
    BY <1>1, <2>1 DEF Fits, Signed, Aware
  <2> QED
    BY <1>4, <2>2, <1>0, Idles DEF TryName, Resumes, ghosts, q
<1>5. CASE ~Exhausted(requests[r]) /\ ~NameTaken(Candidate(requests[r]), None)
  <2>1. Candidate(requests[r]) \in Names
    BY <1>1, <1>5 DEF Candidate, Exhausted
  <2> QED
    BY <1>2, <1>5, <2>1 DEF TryName, Resumes
<1> QED
  BY <1>3, <1>4, <1>5

\* The row goes in: under a key nobody has, and with nothing but what Google vouched for.
LEMMA InsertKeeps ==
    ASSUME AccountsInv, NEW r \in Requests, Inserted(r, requests[r]) PROVE AccountsInv'
<1> DEFINE w == requests[r].want
           u == CHOOSE v \in Users \ Accounts : TRUE
           q == [requests[r] EXCEPT !.at = "entering", !.user = u, !.seen = w]
<1>0. /\ Fits(r, requests[r]) /\ requests[r] \in Request /\ RowsOK /\ CodesOK
      /\ requests[r].at = "creating" /\ requests[r].tried \in Nat
      /\ log \in [Requests -> {"none", "unused", "used"}]
  BY LogType DEF AccountsInv, RequestsFit, Fits, Inserted, Request
<1>1. /\ users' = [users EXCEPT ![u] = w] /\ UNCHANGED <<codes, log, ghosts>>
      /\ requests' = [requests EXCEPT ![r] = IF w.sub = None THEN Done ELSE q]
  BY DEF Inserted, Resumes
<1>2. u \in Users /\ u \notin Accounts
  BY <1>0, AccountsAre DEF Inserted
<1>3. w \in Row /\ FromGoogle(w)
  BY <1>0 DEF Fits, Request, Loose, Row
<1> HIDE DEF w, u
<1>4. /\ users' \in [Users -> Row \cup {Absent}]
      /\ users'[u] = w /\ \A v \in Users \ {u} : users'[v] = users[v]
      /\ Accounts' = Accounts \cup {u}
  BY <1>0, <1>1, <1>2, <1>3, RowFacts DEF RowsOK, Accounts
<1>5. RowsOK'
  <2>1. Ready(w)
    BY <1>3, AccountsConstants DEF AccountsConstants, Ready, FromGoogle, Methods, Sent
  <2>2. ASSUME NEW v \in Accounts' PROVE Ready(users'[v])
    BY <1>0, <1>2, <1>4, <2>1, AccountsAre
  <2> QED
    BY <1>4, <2>2 DEF RowsOK, Ready
<1>6. RowsGrow
  BY <1>0, <1>2, <1>4, AccountsAre DEF RowsGrow, Kept
<1>7. CodesOK' /\ CodesGrow
  BY <1>0, <1>1, <1>4, CodesSame
<1>8. RequestsFit'
  <2>1. CASE w.sub = None
    <3>1. Fits(r, Done)'
      BY <1>0, <1>7, RowFacts DEF Fits, Done, Fresh, Signed, Aware
    <3> QED
      BY <1>1, <1>5, <1>6, <1>7, <2>1, <3>1, OneMoves
  <2>2. CASE w.sub # None
    <3>1. PICK p : p = q
      OBVIOUS
    <3>2. /\ p \in Request /\ p.at = "entering" /\ p.user = u /\ p.seen = w /\ p.want = w
      BY <1>0, <1>2, <1>3, <3>1, RowFacts DEF Request, Steps, w
    <3>3. PICK x : x = w
      OBVIOUS
    <3>4. /\ p.seen = x /\ p.want = x /\ x \in Row /\ x.sub \in Identities
          /\ p.user \in Accounts' /\ users'[p.user] = x
      BY <1>3, <1>4, <2>2, <3>2, <3>3 DEF Row
    <3>5. Fits(r, p)'
      BY <3>2, <3>4 DEF Fits, Signed, Aware, Kept
    <3> QED
      BY <1>1, <1>5, <1>6, <1>7, <2>2, <3>1, <3>5, OneMoves
  <2> QED
    BY <2>1, <2>2
<1>9. EnteredRight'
  BY <1>1, <1>2, <1>4, <1>0, AccountsAre DEF AccountsInv, EnteredRight, ghosts
<1>10. ContactsProven'
  <2>1. start' = start /\ stage' = stage /\ flow' = flow /\ carried' = carried
    BY <1>1 DEF ghosts, codes
  <2>2. ASSUME NEW m \in Sent
        PROVE  \/ DestinationFor(w, m) = None
               \/ w.sub # None /\ DestinationFor(w, m) = EmailOf[w.sub]
    BY <1>3 DEF FromGoogle, Sent, DestinationFor
  <2> QED
    BY <1>2, <1>4, <2>1, <2>2, <1>0, AccountsAre DEF AccountsInv, ContactsProven
<1> QED
  BY <1>5, <1>7, <1>8, <1>9, <1>10 DEF AccountsInv

LEMMA CreateKeeps == ASSUME AccountsInv, NEW r \in Requests, Create(r) PROVE AccountsInv'
<1>0. /\ Fits(r, requests[r]) /\ requests[r] \in Request
      /\ log \in [Requests -> {"none", "unused", "used"}]
  BY LogType DEF AccountsInv, RequestsFit, Fits
<1>1. CASE Inserted(r, requests[r])
  BY <1>1, InsertKeeps
<1>2. CASE Resumes(r, "creating", Done) /\ UNCHANGED <<users, pictures, codes, log, ghosts>>
  BY <1>2, <1>0, EndsIdle, ReadingKeeps DEF Resumes, ghosts
<1>3. CASE /\ Resumes(r, "creating", [requests[r] EXCEPT !.at = "undoing"])
           /\ UNCHANGED <<users, pictures, codes, log, ghosts>>
  <2> DEFINE q == [requests[r] EXCEPT !.at = "undoing"]
  <2>1. q \in Request /\ q.at = "undoing"
    BY <1>0 DEF Request, Steps
  <2> HIDE DEF q
  <2>2. Fits(r, q)
    BY <2>1 DEF Fits, Signed, Aware
  <2> QED
    BY <1>3, <2>2, <1>0, Idles, ReadingKeeps DEF Resumes, ghosts, q
<1> QED
  BY <1>1, <1>2, <1>3 DEF Create

\* The session is for the account that was found by, or written with, the identity.
LEMMA EnterKeeps == ASSUME AccountsInv, NEW r \in Requests, Enter(r) PROVE AccountsInv'
<1> DEFINE q == requests[r]
<1>0. /\ Fits(r, q) /\ q.at = "entering" /\ log \in [Requests -> {"none", "unused", "used"}]
      /\ requests' = [requests EXCEPT ![r] = Done]
      /\ UNCHANGED <<users, codes, log, start>>
      /\ entered' \in {entered, entered \cup {[user |-> q.user, sub |-> q.want.sub]}}
  BY LogType DEF AccountsInv, RequestsFit, Enter, Ends, Resumes
<1>1. RowsOK' /\ RowsGrow /\ Accounts' = Accounts
  BY <1>0, RowsSame
<1>2. CodesOK' /\ CodesGrow
  BY <1>0, <1>1, CodesSame DEF AccountsInv
<1>3. RequestsFit'
  <2>1. Fits(r, Done)'
    BY <1>0, DoneFits DEF Fits, Done, Fresh, Signed, Aware
  <2> QED
    BY <1>0, <1>1, <1>2, <2>1, OneMoves
<1>4. EnteredRight'
  <2>1. q.user \in Accounts /\ users[q.user].sub = q.want.sub
    BY <1>0 DEF Fits, Signed
  <2> QED
    BY <1>0, <1>1, <2>1 DEF AccountsInv, EnteredRight
<1>5. ContactsProven'
  BY <1>0, <1>2, ProofsStay
<1> QED
  BY <1>1, <1>2, <1>3, <1>4, <1>5 DEF AccountsInv

-------------------------------------------------------------------------------
\* What becomes of codes.

LEMMA StagesMove ==
    ASSUME CodesOK, Accounts \subseteq Accounts',
           UNCHANGED <<flow, carried, log>>, stage' \in [Requests -> Store!Stages],
           \A i \in Requests : /\ stage[i] = "new" <=> stage'[i] = "new"
                               /\ stage[i] = "spent" => stage'[i] = "spent"
                               /\ stage'[i] = "sending" => stage[i] = "sending",
           created' \in [Requests -> 0 .. Cardinality(Requests)],
           \A i \in Requests : stage'[i] \in {"new", "sending"} => created'[i] = created[i]
    PROVE  CodesOK' /\ CodesGrow
<1>1. CodesGrow
  BY DEF CodesGrow
<1>2. CodesOK'
  BY DEF CodesOK, Store!TypeOK
<1> QED
  BY <1>1, <1>2

LEMMA Lapsing ==
    ASSUME CodesOK, NEW gone \in SUBSET Store!Held
    PROVE  /\ Store!Lapse(gone) \in [Requests -> Store!Stages]
           /\ \A i \in Requests : /\ stage[i] = "new" <=> Store!Lapse(gone)[i] = "new"
                                  /\ stage[i] = "spent" => Store!Lapse(gone)[i] = "spent"
                                  /\ Store!Lapse(gone)[i] = "sending" => stage[i] = "sending"
  BY DEF CodesOK, Store!TypeOK, Store!Lapse, Store!Held, Store!Stages

LEMMA Dropping ==
    ASSUME CodesOK, Accounts \subseteq Accounts', NEW gone \in SUBSET Store!Held,
           Store!Drop(gone), UNCHANGED <<carried, created, log>>
    PROVE  CodesOK' /\ CodesGrow
<1>1. stage' = Store!Lapse(gone) /\ flow' = flow
  BY DEF Store!Drop
<1>2. created' \in [Requests -> 0 .. Cardinality(Requests)]
  BY DEF CodesOK
<1> QED
  BY <1>1, <1>2, Lapsing, StagesMove

LEMMA Spending ==
    ASSUME CodesOK, Accounts \subseteq Accounts', NEW i \in Requests,
           Store!Spend(i, {}), UNCHANGED <<carried, created, log>>
    PROVE  CodesOK' /\ CodesGrow /\ stage'[i] = "spent"
<1>1. /\ stage[i] = "live" /\ flow' = flow
      /\ stage' = [Store!Lapse({}) EXCEPT ![i] = "spent"]
  BY DEF Store!Spend, Store!Move
<1>2. created' \in [Requests -> 0 .. Cardinality(Requests)]
  BY DEF CodesOK
<1>3. {} \in SUBSET Store!Held
  OBVIOUS
<1>4. /\ stage' \in [Requests -> Store!Stages] /\ stage'[i] = "spent"
      /\ \A j \in Requests : /\ stage[j] = "new" <=> stage'[j] = "new"
                             /\ stage[j] = "spent" => stage'[j] = "spent"
                             /\ stage'[j] = "sending" => stage[j] = "sending"
  BY <1>1, <1>3, Lapsing DEF Store!Stages
<1> QED
  BY <1>1, <1>2, <1>4, StagesMove

\* No more numbers are given than there are codes.
LEMMA Numbering ==
    ASSUME CodesOK, NEW c \in Requests, created[c] = 0
    PROVE  /\ NextCreated(c) \in [Requests -> 0 .. Cardinality(Requests)]
           /\ \A i \in Requests \ {c} : NextCreated(c)[i] = created[i]
<1> DEFINE S == {i \in Requests : created[i] > 0}
<1>1. IsFiniteSet(Requests) /\ IsFiniteSet(Requests \ {c})
      /\ Cardinality(Requests \ {c}) = Cardinality(Requests) - 1
  BY AccountsConstants, FS_RemoveElement DEF AccountsConstants
<1>2. S \subseteq Requests \ {c}
  BY DEF CodesOK
<1>3. Cardinality(S) \in Nat /\ Cardinality(S) <= Cardinality(Requests) - 1
      /\ Cardinality(Requests) \in Nat
  BY <1>1, <1>2, FS_Subset, FS_CardinalityType
<1> HIDE DEF S
<1>4. 1 + Cardinality(S) \in 0 .. Cardinality(Requests)
  BY <1>3
<1> QED
  BY <1>4 DEF NextCreated, S, CodesOK

LEMMA Installing ==
    ASSUME CodesOK, Accounts \subseteq Accounts', NEW i \in Requests, NEW u,
           Store!Install(i, Store!LiveIn(u)), created' = NextCreated(i),
           UNCHANGED <<carried, log>>
    PROVE  CodesOK' /\ CodesGrow
<1>1. /\ stage[i] = "sending" /\ flow' = flow /\ created[i] = 0
      /\ stage' = [Store!Lapse(Store!LiveIn(u)) EXCEPT ![i] = "live"]
  BY DEF Store!Install, Store!Move, CodesOK
<1>2. Store!LiveIn(u) \in SUBSET Store!Held
  BY DEF Store!LiveIn, Store!Held
<1>3. /\ stage' \in [Requests -> Store!Stages] /\ stage'[i] = "live"
      /\ \A j \in Requests : /\ stage[j] = "new" <=> stage'[j] = "new"
                             /\ stage[j] = "spent" => stage'[j] = "spent"
                             /\ stage'[j] = "sending" => stage[j] = "sending"
  BY <1>1, <1>2, Lapsing DEF Store!Stages
<1> QED
  BY <1>1, <1>3, Numbering, StagesMove

\* A code that is minted was nobody's before.
LEMMA Minting ==
    ASSUME CodesOK, Accounts \subseteq Accounts', NEW i \in Requests, NEW u \in Accounts,
           NEW c \in Carried, NEW gone \in SUBSET Store!Held, NEW to \in {"sending", "live"},
           Store!Mint(i, u), Store!Move(i, to, gone), carried' = [carried EXCEPT ![i] = c],
           log' = log,
           created' = IF to = "live" THEN NextCreated(i) ELSE created
    PROVE  CodesOK' /\ CodesGrow /\ stage'[i] = to /\ flow'[i] = u
<1>1. /\ stage[i] = "new" /\ created[i] = 0 /\ flow' = [flow EXCEPT ![i] = u]
      /\ stage' = [Store!Lapse(gone) EXCEPT ![i] = to]
  BY DEF Store!Mint, Store!Move, CodesOK
<1>2. /\ stage' \in [Requests -> Store!Stages] /\ stage'[i] = to
      /\ \A j \in Requests \ {i} :
           /\ stage[j] = "new" <=> stage'[j] = "new"
           /\ stage[j] = "spent" => stage'[j] = "spent"
           /\ stage'[j] = "sending" => stage[j] = "sending"
  BY <1>1, Lapsing DEF Store!Stages
<1>3. /\ flow'[i] = u /\ carried'[i] = c
      /\ \A j \in Requests \ {i} : flow'[j] = flow[j] /\ carried'[j] = carried[j]
      /\ flow' \in [Requests -> Accounts' \cup Users \cup {None}]
  BY <1>1 DEF CodesOK, Store!TypeOK
<1>4. /\ created' \in [Requests -> 0 .. Cardinality(Requests)]
      /\ \A j \in Requests \ {i} : created'[j] = created[j]
      /\ to = "sending" => created'[i] = 0
  BY <1>1, Numbering DEF CodesOK
<1>5. CodesGrow
  BY <1>1, <1>2, <1>3 DEF CodesGrow
<1>6. CodesOK'
  <2>1. Store!TypeOK'
    BY <1>1, <1>2 DEF CodesOK, Store!TypeOK, Accounts
  <2>2. DOMAIN carried' = Requests /\ carried' = [j \in Requests |-> carried'[j]]
    BY DEF CodesOK
  <2> QED
    BY <1>1, <1>2, <1>3, <1>4, <2>1, <2>2 DEF CodesOK
<1> QED
  BY <1>2, <1>3, <1>5, <1>6

-------------------------------------------------------------------------------
\* What becomes of rows.

Proven(u, m, d) ==
    \E i \in Requests : /\ stage[i] = "spent" /\ flow[i] = u
                        /\ carried[i] = [method |-> m, address |-> d]

\* An account's row is written: a contact it did not have comes from a code of its own.
Writing(u, row) ==
    /\ users' = [users EXCEPT ![u] = row]
    /\ Kept(users[u], row) /\ Ready(row)
    /\ \A m \in Sent : \/ DestinationFor(row, m) = DestinationFor(users[u], m)
                      \/ Proven(u, m, DestinationFor(row, m))

LEMMA WritingRows ==
    ASSUME RowsOK, NEW u \in Accounts, NEW row, Writing(u, row)
    PROVE  /\ RowsOK' /\ RowsGrow /\ Accounts' = Accounts
           /\ users'[u] = row /\ \A v \in Accounts \ {u} : users'[v] = users[v]
<1>1. /\ users' \in [Users -> Row \cup {Absent}] /\ row \in Row
      /\ users'[u] = row /\ \A v \in Users \ {u} : users'[v] = users[v]
  BY AccountsAre DEF RowsOK, Writing, Kept
<1>2. Accounts' = Accounts
  BY <1>1, AccountsAre, RowFacts DEF Accounts
<1>3. RowsGrow
  BY <1>1, AccountsAre DEF RowsGrow, Kept, Writing
<1>4. \A v \in Accounts : Ready(users'[v])
  BY <1>1, AccountsAre DEF Writing
<1>5. RowsOK'
  BY <1>1, <1>2, <1>4 DEF RowsOK, Ready
<1> QED
  BY <1>1, <1>2, <1>3, <1>5, AccountsAre

LEMMA WritingKeeps ==
    ASSUME AccountsInv, NEW r \in Requests, NEW u \in Accounts, NEW row, Writing(u, row),
           CodesOK', CodesGrow, UNCHANGED <<start, entered>>,
           \E q : requests' = [requests EXCEPT ![r] = q] /\ Fits(r, q)'
    PROVE  AccountsInv'
<1>1. /\ RowsOK' /\ RowsGrow /\ Accounts' = Accounts
      /\ users'[u] = row /\ \A v \in Accounts \ {u} : users'[v] = users[v]
  BY WritingRows DEF AccountsInv
<1>2. RequestsFit'
  BY <1>1, OneMoves
<1>3. EnteredRight'
  BY <1>1 DEF AccountsInv, EnteredRight, Writing, Kept
<1>4. ContactsProven'
  <2>1. \A i \in Requests : stage[i] = "spent" => /\ stage'[i] = "spent" /\ flow'[i] = flow[i]
                                                 /\ carried'[i] = carried[i]
    BY DEF CodesGrow
  <2>2. ASSUME NEW v \in Accounts, NEW m \in Sent, NEW d, d = DestinationFor(users'[v], m)
        PROVE  \/ d = None
               \/ start[v] # Absent /\ DestinationFor(start[v], m) = d
               \/ users'[v].sub # None /\ d = EmailOf[users'[v].sub]
               \/ \E i \in Requests : stage'[i] = "spent" /\ flow'[i] = v
                    /\ carried'[i] = [method |-> m, address |-> d]
    <3>1. users'[v].sub = users[v].sub
      BY <1>1 DEF Writing, Kept
    <3>2. CASE d = DestinationFor(users[v], m)
      BY <3>1, <3>2, <2>1 DEF AccountsInv, ContactsProven
    <3>3. CASE v = u /\ Proven(u, m, d)
      BY <3>3, <2>1 DEF Proven
    <3> QED
      BY <1>1, <2>2, <3>2, <3>3 DEF Writing
  <2> QED
    BY <1>1, <2>2 DEF ContactsProven
<1> QED
  BY <1>1, <1>2, <1>3, <1>4 DEF AccountsInv

\* A merged row, column by column.
LEMMA MergedIs ==
    ASSUME RowsOK, NEW q \in Request, q.user \in Accounts, q.seen \in Row, q.want \in Row
    PROVE  LET old == users[q.user]
               new == Merged(q)
           IN  /\ new \in Row
               /\ \A c \in Columns :
                    /\ q.want[c] = q.seen[c] => new[c] = old[c]
                    /\ q.want[c] # q.seen[c] => new[c] = q.want[c]
<1>1. users[q.user] \in Row
  BY AccountsAre
<1> QED
  BY <1>1 DEF Merged, Row, Columns

LEMMA MergedColumns ==
    ASSUME RowsOK, NEW q \in Request, q.user \in Accounts, q.seen \in Row, q.want \in Row
    PROVE  /\ Merged(q) \in Row
           /\ Merged(q).email = IF q.want.email = q.seen.email THEN users[q.user].email ELSE q.want.email
           /\ Merged(q).mobile = IF q.want.mobile = q.seen.mobile THEN users[q.user].mobile ELSE q.want.mobile
           /\ Merged(q).enabled = IF q.want.enabled = q.seen.enabled THEN users[q.user].enabled ELSE q.want.enabled
           /\ Merged(q).preferred = IF q.want.preferred = q.seen.preferred THEN users[q.user].preferred ELSE q.want.preferred
           /\ Merged(q).sub = IF q.want.sub = q.seen.sub THEN users[q.user].sub ELSE q.want.sub
           /\ Merged(q).avatar = IF q.want.avatar = q.seen.avatar THEN users[q.user].avatar ELSE q.want.avatar
  BY MergedIs DEF Columns

\* The profile's commit.
LEMMA SaveWrites ==
    ASSUME RowsOK, NEW r \in Requests, NEW q, Fits(r, q), q.at = "saving", Committed(q)
    PROVE  Writing(q.user, Merged(q))
<1> DEFINE old == users[q.user]
           new == Merged(q)
<1>1. /\ q \in Request /\ q.user \in Accounts /\ q.seen \in Row /\ q.want \in Row
      /\ Kept(q.seen, old) /\ old \in Row /\ Ready(old)
  BY AccountsAre DEF Fits, Signed, Aware
<1>2. /\ new \in Row
      /\ new.email = old.email /\ new.mobile = old.mobile /\ new.sub = old.sub
      /\ new.enabled = old.enabled
      /\ \/ new.preferred = old.preferred
         \/ new.preferred = q.want.preferred /\ Preferable(q.seen, q.want.preferred)
  BY <1>1, MergedColumns DEF Fits
<1> HIDE DEF old, new
<1>3. CASE new.preferred = old.preferred
  BY <1>1, <1>2, <1>3 DEF Kept, Ready, Writing, Committed, DestinationFor, Sent, old, new
<1>4. CASE /\ new.preferred # old.preferred /\ new.preferred = q.want.preferred
           /\ Preferable(q.seen, q.want.preferred)
  <2>1. new.preferred # None
    BY <1>1, <1>4, MergedColumns DEF Fits, Kept, new, old
  <2>2. /\ new.preferred = "EMAIL" => new.email # None
        /\ new.preferred = "SMS" => new.mobile # None
    BY <1>1, <1>2, <1>4 DEF Preferable, DestinationFor, Kept
  <2> QED
    BY <1>1, <1>2, <2>1, <2>2 DEF Kept, Ready, Writing, Committed, DestinationFor, Sent, old, new
<1> QED
  BY <1>2, <1>3, <1>4

\* A row with a contact, column by column.
LEMMA WithContactIs ==
    ASSUME NEW row \in Row, NEW c \in Carried
    PROVE  LET w == WithContact(row, c)
           IN  /\ w \in Row /\ w.enabled
               /\ w.email = IF c.method = "EMAIL" THEN c.address ELSE row.email
               /\ w.mobile = IF c.method = "SMS" THEN c.address ELSE row.mobile
               /\ w.preferred = IF row.enabled THEN row.preferred ELSE c.method
               /\ w.sub = row.sub /\ w.avatar = row.avatar
<1>1. /\ c.method \in Methods
      /\ c.method = "EMAIL" => c.address \in Emails
      /\ c.method = "SMS" => c.address \in Mobiles
  BY DEF Carried, Methods, Sent
<1> QED
  BY <1>1 DEF WithContact, Row

\* The commit of confirm_enable: the contact is the one its code was sent over, and the
\* preference is for it or for one there was.
LEMMA EnableWrites ==
    ASSUME RowsOK, CodesOK, NEW r \in Requests, NEW q, Fits(r, q), q.at = "enabling",
           Committed(q)
    PROVE  Writing(q.user, Merged(q)) /\ Merged(q).avatar = users[q.user].avatar
<1> DEFINE old == users[q.user]
           new == Merged(q)
           c == carried[q.code]
           seen == q.seen
<1>1. /\ q \in Request /\ q.user \in Accounts /\ seen \in Row /\ q.want = WithContact(seen, c)
      /\ Kept(seen, old) /\ old \in Row /\ Ready(old)
      /\ q.code \in Requests /\ stage[q.code] = "spent" /\ flow[q.code] = q.user
      /\ c \in Carried
  BY AccountsAre DEF Fits, Signed, Aware, CodesOK
<1>2. /\ c = [method |-> c.method, address |-> c.address]
      /\ c.method \in Methods
      /\ c.method = "EMAIL" => c.address \in Emails /\ c.address # None
      /\ c.method = "SMS" => c.address \in Mobiles /\ c.address # None
  BY <1>1, AccountsConstants DEF AccountsConstants, Carried, Methods, Sent
<1> HIDE DEF c
<1>3. /\ q.want \in Row /\ q.want.enabled
      /\ q.want.email = IF c.method = "EMAIL" THEN c.address ELSE seen.email
      /\ q.want.mobile = IF c.method = "SMS" THEN c.address ELSE seen.mobile
      /\ q.want.preferred = IF seen.enabled THEN seen.preferred ELSE c.method
      /\ q.want.sub = seen.sub /\ q.want.avatar = seen.avatar
  BY <1>1, WithContactIs DEF c
<1>4. /\ new \in Row /\ new.sub = old.sub /\ new.avatar = old.avatar
      /\ new.email = old.email \/ (c.method = "EMAIL" /\ new.email = c.address)
      /\ new.mobile = old.mobile \/ (c.method = "SMS" /\ new.mobile = c.address)
      /\ \/ new.preferred = old.preferred
         \/ new.preferred = c.method
      /\ seen.enabled => new.enabled = old.enabled /\ new.preferred = old.preferred
      /\ ~seen.enabled => /\ seen.preferred = c.method => new.preferred = old.preferred
                          /\ seen.preferred # c.method => new.preferred = c.method
  BY <1>1, <1>3, MergedColumns
<1>5. /\ c.method = "EMAIL" => new.email # None
      /\ c.method = "SMS" => new.mobile # None
  BY <1>1, <1>2, <1>3, MergedColumns DEF Kept
<1> HIDE DEF old, new
<1>6. Kept(old, new)
  BY <1>1, <1>2, <1>4, <1>5, AccountsConstants DEF AccountsConstants, Kept, Methods, Sent
<1>7. Ready(new)
  <2>1. new.preferred = "EMAIL" => new.email # None
    BY <1>1, <1>4, <1>5, <1>6 DEF Kept, Ready
  <2>2. new.preferred = "SMS" => new.mobile # None
    BY <1>1, <1>4, <1>5, <1>6 DEF Kept, Ready
  <2>3. new.enabled /\ new.preferred = None => new.mobile # None
    <3>1. SUFFICES ASSUME new.enabled, new.preferred = None PROVE new.mobile # None
      OBVIOUS
    <3>2. c.method # None
      BY <1>2, AccountsConstants DEF AccountsConstants
    <3>3. old.preferred = None /\ seen.preferred = None
      BY <3>1, <3>2, <1>1, <1>6, <1>4 DEF Kept
    <3>4. seen.enabled
      BY <3>1, <3>2, <3>3, <1>4
    <3> QED
      BY <3>1, <3>3, <3>4, <1>1, <1>4, <1>6 DEF Kept, Ready
  <2> QED
    BY <2>1, <2>2, <2>3 DEF Ready
<1>8. ASSUME NEW m \in Sent
      PROVE  \/ DestinationFor(new, m) = DestinationFor(old, m)
             \/ Proven(q.user, m, DestinationFor(new, m))
  BY <1>1, <1>2, <1>4 DEF Proven, DestinationFor, Sent, c
<1> QED
  BY <1>4, <1>6, <1>7, <1>8 DEF Writing, Committed, old, new

\* One column of the row as it is.
LEMMA SecretWrites ==
    ASSUME RowsOK, NEW u \in Accounts, users' = [users EXCEPT ![u].secret = TRUE]
    PROVE  Writing(u, [users[u] EXCEPT !.secret = TRUE])
<1> DEFINE old == users[u]
           new == [users[u] EXCEPT !.secret = TRUE]
<1>1. old \in Row /\ Ready(old)
  BY AccountsAre
<1>2. /\ new \in Row /\ new.email = old.email /\ new.mobile = old.mobile
      /\ new.preferred = old.preferred /\ new.enabled = old.enabled /\ new.sub = old.sub
  BY <1>1 DEF Row
<1> HIDE DEF old, new
<1>3. Kept(old, new) /\ Ready(new) /\ \A m \in Sent : DestinationFor(new, m) = DestinationFor(old, m)
  BY <1>1, <1>2 DEF Kept, Ready, DestinationFor, Sent
<1> QED
  BY <1>3 DEF Writing, old, new

LEMMA DisableWrites ==
    ASSUME RowsOK, NEW u \in Accounts, NEW seen \in Row,
           users' = [users EXCEPT ![u].enabled = @ /\ ~seen.enabled]
    PROVE  Writing(u, [users[u] EXCEPT !.enabled = @ /\ ~seen.enabled])
<1> DEFINE old == users[u]
           new == [users[u] EXCEPT !.enabled = @ /\ ~seen.enabled]
<1>1. old \in Row /\ Ready(old)
  BY AccountsAre
<1>2. /\ new \in Row /\ new.email = old.email /\ new.mobile = old.mobile
      /\ new.preferred = old.preferred /\ (new.enabled => old.enabled) /\ new.sub = old.sub
  <2>1. PICK b \in BOOLEAN : b = (old.enabled /\ ~seen.enabled)
    OBVIOUS
  <2>2. /\ new = [old EXCEPT !.enabled = b]
        /\ b => old.enabled
    BY <2>1
  <2> HIDE DEF new
  <2> QED
    BY <1>1, <2>2 DEF Row
<1>3. Kept(old, new) /\ Ready(new) /\ \A m \in Sent : DestinationFor(new, m) = DestinationFor(old, m)
  BY <1>1, <1>2 DEF Kept, Ready, DestinationFor, Sent
<1> QED
  BY <1>3 DEF Writing, old, new

-------------------------------------------------------------------------------
\* The requests of signed-in users that write no row.

LEMMA AtHand ==
    ASSUME AccountsInv, NEW r \in Requests
    PROVE  /\ Fits(r, requests[r]) /\ requests[r] \in Request /\ RowsOK /\ CodesOK
           /\ log \in [Requests -> {"none", "unused", "used"}]
           /\ requests[r].at \in Signed => requests[r].user \in Accounts
           /\ requests[r].at \in Aware => requests[r].seen \in Row
           /\ Accounts \subseteq Users
  BY LogType, AccountsAre DEF AccountsInv, RequestsFit, Fits

LEMMA ProfileSteps ==
    ASSUME AccountsInv, NEW r \in Requests,
           (\E u \in Users : Reads(r, u)) \/ Change(r) \/ LogIssued(r) \/ Record(r)
    PROVE  Reading(r)
<1>0. /\ Fits(r, requests[r]) /\ requests[r] \in Request /\ RowsOK /\ CodesOK
      /\ log \in [Requests -> {"none", "unused", "used"}]
  BY AtHand
<1>1. CASE \E u \in Users : Reads(r, u)
  <2>1. PICK u \in Users : Reads(r, u)
    BY <1>1
  <2> DEFINE q == [Fresh EXCEPT !.at = "deciding", !.user = u, !.seen = users[u]]
  <2>2. u \in Accounts /\ users[u] \in Row /\ users[u] \in Loose
    BY <2>1, <1>0, AccountsAre, RowFacts DEF Reads
  <2>3. q \in Request /\ q.at = "deciding" /\ q.user = u /\ q.seen = users[u]
    BY <2>2, RowFacts DEF Request, Fresh, Steps
  <2> HIDE DEF q
  <2>4. Fits(r, q)
    BY <2>2, <2>3 DEF Fits, Signed, Aware, Kept
  <2> QED
    BY <2>1, <2>4, <1>0, Idles DEF Reads, Enters, ghosts, q
<1>2. CASE Change(r)
  <2> DEFINE old == requests[r]
  <2>0. /\ old.at = "deciding" /\ old.user \in Accounts /\ old.seen \in Row
        /\ Kept(old.seen, users[old.user])
    BY <1>0, <1>2 DEF Change, Fits, Signed, Aware
  <2>1. PICK n \in Names, m \in Methods \cup {old.seen.preferred},
             a \in {old.seen.avatar, None} :
          /\ m = old.seen.preferred \/ Preferable(old.seen, m)
          /\ requests' = [requests EXCEPT ![r] = [old EXCEPT !.at = "saving",
                !.want = [old.seen EXCEPT !.name = n, !.preferred = m, !.avatar = a]]]
    BY <1>2 DEF Change, Resumes
  <2> DEFINE w == [old.seen EXCEPT !.name = n, !.preferred = m, !.avatar = a]
             q == [old EXCEPT !.at = "saving", !.want = w]
  <2>2. /\ w \in Row /\ w.email = old.seen.email /\ w.mobile = old.seen.mobile
        /\ w.secret = old.seen.secret /\ w.enabled = old.seen.enabled
        /\ w.sub = old.seen.sub /\ w.preferred = m /\ w.avatar = a
    BY <2>0 DEF Row
  <2>3. m = None => old.seen.preferred = None
    BY AccountsConstants DEF AccountsConstants
  <2> HIDE DEF w
  <2>4. /\ q \in Request /\ q.at = "saving" /\ q.want = w /\ q.seen = old.seen
        /\ q.user = old.user
    BY <1>0, <2>2, RowFacts DEF Request, Steps
  <2> HIDE DEF q, old
  <2>5. Fits(r, q)
    BY <2>0, <2>1, <2>2, <2>3, <2>4 DEF Fits, Signed, Aware
  <2> QED
    BY <1>2, <2>1, <2>5, <1>0, Idles DEF Change, ghosts, q, w, old
<1>3. CASE LogIssued(r)
  BY <1>3, <1>0, EndsIdle DEF LogIssued, Ends, Resumes, ghosts
<1>4. CASE Record(r)
  BY <1>4, <1>0, EndsIdle DEF Record, Ends, Resumes, ghosts
<1> QED
  BY <1>1, <1>2, <1>3, <1>4

\* A code that is asked for, on its way and arrived.
LEMMA CodeSteps ==
    ASSUME AccountsInv, NEW r \in Requests,
           \/ \E d \in Emails : Claim(r, "EMAIL", d)
           \/ \E d \in Mobiles : Claim(r, "SMS", d)
           \/ Committing(r) \/ NotSent(r) \/ Clear(r)
    PROVE  Reading(r)
<1> DEFINE old == requests[r]
<1>0. /\ Fits(r, old) /\ old \in Request /\ RowsOK /\ CodesOK
      /\ log \in [Requests -> {"none", "unused", "used"}]
      /\ old.at \in Signed => old.user \in Accounts
  BY AtHand
<1>1. ASSUME NEW m \in Sent, NEW d, Claim(r, m, d), [method |-> m, address |-> d] \in Carried
      PROVE  Reading(r)
  <2> DEFINE q == [old EXCEPT !.at = "sending", !.code = r, !.seen = Absent]
  <2>1. /\ old.at = "deciding" /\ requests' = [requests EXCEPT ![r] = q]
        /\ Store!StartSending(r, old.user, {})
        /\ carried' = [carried EXCEPT ![r] = [method |-> m, address |-> d]]
        /\ UNCHANGED <<users, pictures, created, log, ghosts>>
    BY <1>1 DEF Claim, Resumes
  <2>2. old.user \in Accounts /\ Accounts' = Accounts
    BY <1>0, <2>1 DEF Signed, Accounts
  <2>3. CodesOK' /\ CodesGrow /\ stage'[r] = "sending" /\ flow'[r] = old.user
    <3>1. {} \in SUBSET Store!Held
      OBVIOUS
    <3> QED
      BY <1>0, <1>1, <2>1, <2>2, <3>1, Minting DEF Store!StartSending
  <2>4. PICK p : p = q
    OBVIOUS
  <2>5. /\ p \in Request /\ p.at = "sending" /\ p.code = r /\ p.user = old.user
    BY <1>0, <2>4, RowFacts DEF Request, Steps
  <2>6. Fits(r, p)'
    BY <2>2, <2>3, <2>5 DEF Fits, Signed, Aware
  <2> QED
    BY <2>1, <2>3, <2>4, <2>6 DEF Reading, ghosts
<1>2. ASSUME NEW d \in Emails, Claim(r, "EMAIL", d) PROVE Reading(r)
  BY <1>1, <1>2 DEF Carried, Sent
<1>3. ASSUME NEW d \in Mobiles, Claim(r, "SMS", d) PROVE Reading(r)
  BY <1>1, <1>3 DEF Carried, Sent
<1>4. CASE Committing(r)
  <2> DEFINE q == [old EXCEPT !.at = "logging"]
  <2>1. CASE stage[r] = "sending"
    <3>1. /\ old.at = "sending" /\ requests' = [requests EXCEPT ![r] = q]
          /\ Store!Install(r, Store!LiveIn(old.user)) /\ created' = NextCreated(r)
          /\ UNCHANGED <<users, pictures, carried, log, ghosts>>
      BY <1>4, <2>1 DEF Committing, Resumes
    <3>2. old.user \in Accounts /\ Accounts' = Accounts
      BY <1>0, <3>1 DEF Signed, Accounts
    <3>3. CodesOK' /\ CodesGrow
      BY <1>0, <3>1, <3>2, Installing
    <3>4. PICK p : p = q
      OBVIOUS
    <3>5. p \in Request /\ p.at = "logging" /\ p.user = old.user
      BY <1>0, <3>4 DEF Request, Steps
    <3>6. Fits(r, p)'
      BY <3>2, <3>5 DEF Fits, Signed, Aware
    <3> QED
      BY <3>1, <3>3, <3>4, <3>6 DEF Reading, ghosts
  <2>2. CASE stage[r] # "sending"
    BY <1>4, <2>2, <1>0, EndsIdle DEF Committing, Ends, Resumes, ghosts, codes
  <2> QED
    BY <2>1, <2>2
<1>5. CASE NotSent(r) \/ Clear(r)
  <2>1. /\ requests' = [requests EXCEPT ![r] = Done] /\ Accounts' = Accounts
        /\ UNCHANGED <<users, carried, created, log, start, entered>>
    BY <1>5 DEF NotSent, Clear, Ends, Resumes, ghosts, Accounts
  <2>2. \E gone \in SUBSET Store!Held : Store!Drop(gone)
    <3>1. Store!LiveIn(old.user) \in SUBSET Store!Held /\ {r} \cap Store!Held \in SUBSET Store!Held
      BY DEF Store!LiveIn, Store!Held
    <3> QED
      BY <1>5, <3>1 DEF NotSent, Clear
  <2>3. CodesOK' /\ CodesGrow
    BY <1>0, <2>1, <2>2, Dropping
  <2>4. PICK p : p = Done
    OBVIOUS
  <2>5. Fits(r, p)'
    BY <2>4, RowFacts DEF Fits, Done, Fresh, Signed, Aware
  <2> QED
    BY <2>1, <2>3, <2>4, <2>5 DEF Reading
<1> QED
  BY <1>2, <1>3, <1>4, <1>5

\* A code that comes back.
LEMMA SubmitSteps ==
    ASSUME AccountsInv, NEW r \in Requests, NEW i \in Requests, NEW u \in Users,
           Submit(r, i, u)
    PROVE  Reading(r)
<1>0. /\ RowsOK /\ CodesOK /\ log \in [Requests -> {"none", "unused", "used"}]
      /\ stage[i] = "live" /\ flow[i] = u /\ u \in Accounts /\ users[u] \in Row
      /\ users[u] \in Loose
  BY AtHand, AccountsAre, RowFacts DEF Submit, CodesOK
<1>1. CASE carried[i].method = "TOTP"
  <2> DEFINE q == [Fresh EXCEPT !.user = u, !.code = i, !.at = "checking", !.seen = users[u]]
  <2>1. requests' = [requests EXCEPT ![r] = q]
    BY <1>1, RowFacts DEF Submit, Enters, Fresh
  <2>2. /\ q \in Request /\ q.at = "checking" /\ q.user = u /\ q.code = i
        /\ q.seen = users[u]
    BY <1>0, RowFacts DEF Request, Fresh, Steps
  <2> HIDE DEF q
  <2>3. Fits(r, q)
    BY <1>0, <1>1, <2>2 DEF Fits, Signed, Aware, Kept
  <2> QED
    BY <1>0, <1>1, <2>1, <2>3, Idles DEF Submit, ghosts, codes
<1>2. CASE carried[i].method # "TOTP"
  <2>1. PICK p : p = [Fresh EXCEPT !.user = u, !.code = i, !.at = "confirming"]
    OBVIOUS
  <2>2. /\ requests' = [requests EXCEPT ![r] = p]
        /\ Store!Spend(i, {}) /\ Accounts' = Accounts
        /\ UNCHANGED <<users, carried, created, log, start, entered>>
    BY <1>2, <2>1, RowFacts DEF Submit, Enters, Fresh, Accounts, ghosts
  <2>3. /\ CodesOK' /\ CodesGrow /\ stage'[i] = "spent" /\ flow'[i] = u
        /\ carried'[i] = carried[i]
    BY <1>0, <2>2, Spending DEF CodesGrow
  <2>4. p \in Request /\ p.at = "confirming" /\ p.user = u /\ p.code = i
    BY <1>0, <2>1, RowFacts DEF Request, Fresh, Steps
  <2>5. Fits(r, p)'
    BY <1>0, <1>2, <2>2, <2>3, <2>4 DEF Fits, Signed, Aware
  <2> QED
    BY <2>2, <2>3, <2>5 DEF Reading
<1> QED
  BY <1>1, <1>2

LEMMA ConfirmSteps ==
    ASSUME AccountsInv, NEW r \in Requests, Prove(r) \/ Fetch(r) PROVE Reading(r)
<1> DEFINE old == requests[r]
<1>0. /\ Fits(r, old) /\ old \in Request /\ RowsOK /\ CodesOK
      /\ log \in [Requests -> {"none", "unused", "used"}]
  BY AtHand
<1>1. CASE Prove(r)
  <2>1. PICK p : p = [old EXCEPT !.at = "confirming"]
    OBVIOUS
  <2>2. /\ requests' = [requests EXCEPT ![r] = p] /\ old.at = "checking"
        /\ Store!Spend(old.code, {}) /\ Accounts' = Accounts
        /\ UNCHANGED <<users, carried, created, log, start, entered>>
    BY <1>1, <2>1 DEF Prove, Resumes, Accounts, ghosts
  <2>3. /\ old.code \in Requests /\ flow[old.code] = old.user /\ stage[old.code] # "new"
        /\ old.user \in Accounts /\ old.seen \in Row /\ Kept(old.seen, users[old.user])
    BY <1>0, <2>2 DEF Fits, Signed, Aware
  <2>4. /\ CodesOK' /\ CodesGrow /\ stage'[old.code] = "spent"
        /\ flow'[old.code] = old.user /\ carried'[old.code] = carried[old.code]
    BY <1>0, <2>2, <2>3, Spending DEF CodesGrow
  <2>5. /\ p \in Request /\ p.at = "confirming" /\ p.user = old.user /\ p.code = old.code
        /\ p.seen = old.seen
    BY <1>0, <2>1 DEF Request, Steps
  <2>6. Kept(p.seen, users'[p.user])
    BY <2>2, <2>3, <2>5
  <2>7. Fits(r, p)'
    BY <2>2, <2>3, <2>4, <2>5, <2>6 DEF Fits, Signed, Aware
  <2> QED
    BY <2>2, <2>4, <2>7 DEF Reading
<1>2. CASE Fetch(r)
  <2> DEFINE row == IF carried[old.code].method = "TOTP" THEN old.seen ELSE users[old.user]
             w == WithContact(row, carried[old.code])
             q == [old EXCEPT !.at = "enabling", !.seen = row, !.want = w]
  <2>1. /\ requests' = [requests EXCEPT ![r] = q] /\ old.at = "confirming"
        /\ UNCHANGED <<users, pictures, codes, log, ghosts>>
    BY <1>2 DEF Fetch, Resumes
  <2>2. /\ old.code \in Requests /\ flow[old.code] = old.user /\ stage[old.code] = "spent"
        /\ carried[old.code] \in Carried /\ old.user \in Accounts
        /\ users[old.user] \in Row
    BY <1>0, <2>1, AccountsAre DEF Fits, Signed, CodesOK
  <2>3. row \in Row /\ Kept(row, users[old.user])
    BY <1>0, <2>1, <2>2 DEF Fits, Kept
  <2> HIDE DEF row
  <2>4. w \in Row
    BY <2>2, <2>3, WithContactIs
  <2> HIDE DEF w
  <2>5. /\ q \in Request /\ q.at = "enabling" /\ q.user = old.user /\ q.code = old.code
        /\ q.seen = row /\ q.want = w
    BY <1>0, <2>3, <2>4, RowFacts DEF Request, Steps
  <2> HIDE DEF q
  <2>6. Fits(r, q)
    BY <2>2, <2>3, <2>5 DEF Fits, Signed, Aware, w
  <2> QED
    BY <1>0, <2>1, <2>6, Idles DEF ghosts
<1> QED
  BY <1>1, <1>2

\* What ends early.
LEMMA FailSteps ==
    ASSUME AccountsInv, NEW r \in Requests, Fail(r) \/ Lapse(r) PROVE Reading(r)
<1>0. /\ Fits(r, requests[r]) /\ RowsOK /\ CodesOK
      /\ log \in [Requests -> {"none", "unused", "used"}]
  BY AtHand
<1>1. CASE Fail(r)
  BY <1>1, <1>0, EndsIdle DEF Fail
<1>2. CASE Lapse(r)
  <2>1. /\ Store!Drop({r}) /\ {r} \in SUBSET Store!Held /\ Accounts' = Accounts
        /\ UNCHANGED <<users, carried, created, log, start, entered>>
        /\ requests' = requests
    BY <1>2 DEF Lapse, ghosts, Accounts
  <2>2. CodesOK' /\ CodesGrow
    BY <1>0, <2>1, Dropping
  <2>3. PICK p : p = requests[r]
    OBVIOUS
  <2>4. requests' = [requests EXCEPT ![r] = p]
    BY <2>1, <2>3 DEF AccountsInv, RequestsFit
  <2>5. requests'[r] = requests[r]
    BY <2>1
  <2>6. Fits(r, requests[r])'
    BY <2>1, <2>2, <2>5, RowsSame, OthersFit
  <2>7. Fits(r, p)'
    BY <2>3, <2>5, <2>6
  <2> QED
    BY <2>1, <2>2, <2>4, <2>7 DEF Reading
<1> QED
  BY <1>1, <1>2

-------------------------------------------------------------------------------
\* The requests that write a row.

LEMMA SaveKeeps == ASSUME AccountsInv, NEW r \in Requests, Save(r) PROVE AccountsInv'
<1> DEFINE q == requests[r]
<1>0. /\ Fits(r, q) /\ RowsOK /\ CodesOK /\ q.user \in Accounts
      /\ log \in [Requests -> {"none", "unused", "used"}]
      /\ q.at = "saving" /\ requests' = [requests EXCEPT ![r] = Done]
      /\ UNCHANGED <<codes, log, start, entered>>
  BY AtHand DEF Save, Ends, Resumes, Signed
<1>1. CASE users' = users
  BY <1>0, <1>1, EndsIdle, ReadingKeeps
<1>2. CASE Committed(q)
  <2>1. Writing(q.user, Merged(q))
    BY <1>0, <1>2, SaveWrites
  <2>2. Accounts' = Accounts
    BY <1>0, <2>1, WritingRows
  <2>3. CodesOK' /\ CodesGrow
    BY <1>0, <2>2, CodesSame
  <2>4. PICK p : p = Done
    OBVIOUS
  <2>5. Fits(r, p)'
    BY <2>4, RowFacts DEF Fits, Done, Fresh, Signed, Aware
  <2> QED
    BY <1>0, <2>1, <2>3, <2>4, <2>5, WritingKeeps
<1> QED
  BY <1>1, <1>2 DEF Save

LEMMA EnableKeeps == ASSUME AccountsInv, NEW r \in Requests, Enable(r) PROVE AccountsInv'
<1> DEFINE q == requests[r]
<1>0. /\ Fits(r, q) /\ q \in Request /\ RowsOK /\ CodesOK /\ q.user \in Accounts
      /\ log \in [Requests -> {"none", "unused", "used"}]
      /\ q.at = "enabling" /\ UNCHANGED <<codes, log, start, entered>>
  BY AtHand DEF Enable, Signed, ghosts
<1>1. CASE Ends(r, "enabling") /\ UNCHANGED users
  BY <1>0, <1>1, EndsIdle, ReadingKeeps DEF Ends, Resumes
<1>2. CASE /\ Resumes(r, "enabling", [q EXCEPT !.at = "recording", !.seen = Absent,
                                               !.want = Absent])
           /\ Committed(q)
  <2>1. Writing(q.user, Merged(q))
    BY <1>0, <1>2, EnableWrites
  <2>2. Accounts' = Accounts
    BY <1>0, <2>1, WritingRows
  <2>3. CodesOK' /\ CodesGrow
    BY <1>0, <2>2, CodesSame
  <2>4. PICK p : p = [q EXCEPT !.at = "recording", !.seen = Absent, !.want = Absent]
    OBVIOUS
  <2>5. p \in Request /\ p.at = "recording" /\ p.user = q.user
    BY <1>0, <2>4, RowFacts DEF Request, Steps
  <2>6. Fits(r, p)'
    BY <1>0, <2>2, <2>5 DEF Fits, Signed, Aware
  <2> QED
    BY <1>0, <1>2, <2>1, <2>3, <2>4, <2>6, WritingKeeps DEF Resumes
<1> QED
  BY <1>1, <1>2 DEF Enable

LEMMA Enrolling ==
    ASSUME AccountsInv, NEW r \in Requests, Enroll(r)
    PROVE  /\ Writing(requests[r].user, [users[requests[r].user] EXCEPT !.secret = TRUE])
           /\ CodesOK' /\ CodesGrow
<1> DEFINE u == requests[r].user
           c == [method |-> "TOTP", address |-> None]
<1>0. /\ RowsOK /\ CodesOK /\ u \in Accounts
      /\ users' = [users EXCEPT ![u].secret = TRUE]
      /\ Store!Open(r, u, Store!LiveIn(u))
      /\ carried' = [carried EXCEPT ![r] = c] /\ created' = NextCreated(r)
      /\ UNCHANGED log
  BY AtHand DEF Enroll, Ends, Resumes, Signed
<1>1. Writing(u, [users[u] EXCEPT !.secret = TRUE])
  BY <1>0, SecretWrites
<1>2. Accounts' = Accounts
  BY <1>0, <1>1, WritingRows
<1>3. Store!LiveIn(u) \in SUBSET Store!Held /\ c \in Carried
  BY DEF Store!LiveIn, Store!Held, Carried
<1>4. CodesOK' /\ CodesGrow
  <2> HIDE DEF u, c
  <2> QED
    BY <1>0, <1>2, <1>3, Minting DEF Store!Open
<1> QED
  BY <1>1, <1>4

LEMMA EnrollKeeps == ASSUME AccountsInv, NEW r \in Requests, Enroll(r) PROVE AccountsInv'
<1> DEFINE u == requests[r].user
<1>0. /\ u \in Accounts /\ requests' = [requests EXCEPT ![r] = Done]
      /\ UNCHANGED <<start, entered>>
  BY AtHand DEF Enroll, Ends, Resumes, Signed, ghosts
<1>1. Writing(u, [users[u] EXCEPT !.secret = TRUE]) /\ CodesOK' /\ CodesGrow
  BY Enrolling
<1>2. PICK p : p = Done
  OBVIOUS
<1>3. Fits(r, p)'
  BY <1>2, RowFacts DEF Fits, Done, Fresh, Signed, Aware
<1> HIDE DEF u
<1> QED
  BY <1>0, <1>1, <1>2, <1>3, WritingKeeps

LEMMA DisableKeeps == ASSUME AccountsInv, NEW r \in Requests, Disable(r) PROVE AccountsInv'
<1> DEFINE q == requests[r]
           u == q.user
           row == [users[u] EXCEPT !.enabled = @ /\ ~q.seen.enabled]
<1>0. /\ RowsOK /\ CodesOK /\ q \in Request /\ u \in Accounts /\ q.seen \in Row
      /\ requests' = [requests EXCEPT ![r] = [q EXCEPT !.at = "clearing", !.seen = Absent]]
      /\ users' = [users EXCEPT ![u].enabled = @ /\ ~q.seen.enabled]
      /\ UNCHANGED <<codes, log, start, entered>>
      /\ log \in [Requests -> {"none", "unused", "used"}]
  BY AtHand DEF Disable, Resumes, Signed, Aware, ghosts
<1>1. Writing(u, row)
  BY <1>0, DisableWrites
<1>2. Accounts' = Accounts
  BY <1>0, <1>1, WritingRows
<1>3. CodesOK' /\ CodesGrow
  BY <1>0, <1>2, CodesSame
<1>4. PICK p : p = [q EXCEPT !.at = "clearing", !.seen = Absent]
  OBVIOUS
<1>5. p \in Request /\ p.at = "clearing" /\ p.user = u
  BY <1>0, <1>4, RowFacts DEF Request, Steps
<1>6. Fits(r, p)'
  BY <1>0, <1>2, <1>5 DEF Fits, Signed, Aware
<1> HIDE DEF row
<1> QED
  BY <1>0, <1>1, <1>3, <1>4, <1>6, WritingKeeps

-------------------------------------------------------------------------------
\* Every step keeps the invariant.
LEMMA StepInv == AccountsInv /\ [Next]_vars => AccountsInv'
<1> SUFFICES ASSUME AccountsInv, [Next]_vars PROVE AccountsInv'
  OBVIOUS
<1>1. CASE UNCHANGED vars
  <2>1. /\ users' = users /\ requests' = requests /\ log' = log /\ start' = start
        /\ entered' = entered /\ stage' = stage /\ flow' = flow /\ carried' = carried
        /\ created' = created
    BY <1>1 DEF vars, codes, ghosts
  <2>2. RowsOK' /\ EnteredRight' /\ ContactsProven' /\ Accounts' = Accounts
    BY <2>1 DEF AccountsInv, RowsOK, EnteredRight, ContactsProven, Accounts
  <2>3. CodesOK'
    BY <2>1, <2>2 DEF AccountsInv, CodesOK, Store!TypeOK
  <2>4. RequestsFit'
    <3>1. ASSUME NEW r \in Requests PROVE Fits(r, requests[r])'
      <4>1. RowsGrow /\ CodesGrow
        BY <2>1, RowsSame DEF CodesGrow
      <4> QED
        BY <2>1, <2>2, <4>1, OthersFit
    <3> QED
      BY <2>1, <3>1 DEF AccountsInv, RequestsFit
  <2> QED
    BY <2>2, <2>3, <2>4 DEF AccountsInv
<1>2. ASSUME NEW r \in Requests,
             \/ \E n \in Names : Register(r, n)
             \/ RefuseCredential(r)
             \/ \E g \in Identities : Identify(r, g)
             \/ CheckEmail(r) \/ TryName(r) \/ NoPicture(r) \/ StorePicture(r) \/ Undo(r)
      PROVE  AccountsInv'
  BY <1>2, EntrySteps, NameSteps, ReadingKeeps
<1>3. ASSUME NEW r \in Requests, Create(r) \/ Enter(r) PROVE AccountsInv'
  BY <1>3, CreateKeeps, EnterKeeps
<1>4. ASSUME NEW r \in Requests,
             \/ \E u \in Users : Reads(r, u)
             \/ Change(r) \/ LogIssued(r) \/ Record(r)
             \/ \E d \in Emails : Claim(r, "EMAIL", d)
             \/ \E d \in Mobiles : Claim(r, "SMS", d)
             \/ Committing(r) \/ NotSent(r) \/ Clear(r)
      PROVE  AccountsInv'
  BY <1>4, ProfileSteps, CodeSteps, ReadingKeeps
<1>5. ASSUME NEW r \in Requests,
             \/ \E i \in Requests, u \in Users : Submit(r, i, u)
             \/ Prove(r) \/ Fetch(r) \/ Fail(r) \/ Lapse(r)
      PROVE  AccountsInv'
  BY <1>5, SubmitSteps, ConfirmSteps, FailSteps, ReadingKeeps
<1>6. ASSUME NEW r \in Requests, Save(r) \/ Enable(r) \/ Enroll(r) \/ Disable(r)
      PROVE  AccountsInv'
  BY <1>6, SaveKeeps, EnableKeeps, EnrollKeeps, DisableKeeps
<1> QED
  BY <1>1, <1>2, <1>3, <1>4, <1>5, <1>6 DEF Next, Over

LEMMA Invariance == Spec => []AccountsInv
  BY InitInv, StepInv, PTL DEF Spec

\* google_auth_service.py: however requests overlap, a Google sign-in enters the account
\* that has its sub.
THEOREM IdentitiesStay == Spec => []IdentityIsAccount
<1>1. AccountsInv => IdentityIsAccount
  BY DEF AccountsInv, EnteredRight, IdentityIsAccount
<1> QED
  BY <1>1, Invariance, PTL

\* two_factor_service.py: no account ever has a contact that was not vouched for, or
\* proven by a code sent to it for that account.
THEOREM ContactsStayProven == Spec => []ContactsProven
<1>1. AccountsInv => ContactsProven
  BY DEF AccountsInv
<1> QED
  BY <1>1, Invariance, PTL

\* user_service.py and two_factor_service.py: their partial writes never leave an account
\* with the second step on and nowhere to send its codes.
THEOREM PreferencesExist == Spec => []SentPreferenceExists
<1>1. AccountsInv => SentPreferenceExists
  <2>1. SUFFICES ASSUME AccountsInv, NEW u \in Accounts, users[u].enabled,
                        DefaultMethod(users[u]) \in Sent
                 PROVE  Usable(users[u], DefaultMethod(users[u]))
    BY DEF SentPreferenceExists
  <2>2. Ready(users[u])
    BY <2>1, AccountsAre DEF AccountsInv
  <2> QED
    BY <2>1, <2>2 DEF Ready, Usable, DefaultMethod, DestinationFor, Sent
<1> QED
  BY <1>1, Invariance, PTL

-------------------------------------------------------------------------------
(* Pictures. *)

Uploading == {"creating", "undoing"}
Uploaded == Uploading \cup {"entering", "done"}

\* Where a picture can be on its way, a row has it or is about to; until a row is
\* inserted none has the picture of its request.
Pictured ==
    /\ pictures \subseteq Requests /\ left \subseteq Requests
    /\ \A p \in pictures : requests[p].at \in Uploaded
    /\ \A r \in Requests :
         /\ requests[r].at \in {"unknown", "naming", "picturing"} => requests[r].want.avatar = None
         /\ requests[r].at \in Uploading =>
              /\ requests[r].want.avatar \in {None} \cup ({r} \cap pictures)
              /\ \A u \in Accounts : users[u].avatar # r
    /\ \A u \in Accounts : users[u].avatar # None => users[u].avatar \in pictures
    /\ \A p \in pictures \ left :
         \/ \E u \in Accounts : users[u].avatar = p
         \/ requests[p].at \in Uploading /\ requests[p].want.avatar = p

\* The rows keep their pictures.
AvatarsStay ==
    Accounts' = Accounts /\ \A u \in Accounts : users'[u].avatar = users[u].avatar

\* A step that has nothing to do with pictures.
LEMMA ElsewhereKeeps ==
    ASSUME AccountsInv, Pictured, AvatarsStay, UNCHANGED <<pictures, left>>,
           NEW r \in Requests, NEW q, requests' = [requests EXCEPT ![r] = q],
           requests[r].at \notin Uploading, q.at \notin Uploading,
           requests[r].at \in {"entering", "done"} => q.at = "done",
           q.at \in {"unknown", "naming", "picturing"} => q.want.avatar = None
    PROVE  Pictured'
<1>1. /\ DOMAIN requests = Requests /\ requests'[r] = q
      /\ \A s \in Requests \ {r} : requests'[s] = requests[s]
  BY DEF AccountsInv, RequestsFit
<1>2. r \in pictures => q.at = "done"
  BY DEF Pictured, Uploaded
<1> QED
  BY <1>1, <1>2 DEF Pictured, AvatarsStay, Uploaded

\* A row is about to be created, with the picture of its request or without one.
LEMMA ToCreateKeeps ==
    ASSUME AccountsInv, Pictured, UNCHANGED <<users, left>>, NEW r \in Requests, NEW q,
           requests' = [requests EXCEPT ![r] = q], requests[r].at \in {"new", "picturing"},
           q.at = "creating",
           \/ q.want.avatar = None /\ pictures' = pictures
           \/ q.want.avatar = r /\ pictures' = pictures \cup {r}
    PROVE  Pictured'
<1>1. /\ DOMAIN requests = Requests /\ requests'[r] = q
      /\ \A s \in Requests \ {r} : requests'[s] = requests[s]
      /\ Accounts' = Accounts
  BY DEF AccountsInv, RequestsFit, Accounts
<1>2. r \notin pictures /\ \A u \in Accounts : users[u].avatar # r
  BY AccountsConstants DEF AccountsConstants, Pictured, Uploaded, Uploading
<1> QED
  BY <1>1, <1>2 DEF Pictured, Uploaded, Uploading

\* A row comes with the picture of its request.
LEMMA InsertedPictures ==
    ASSUME AccountsInv, Pictured, NEW r \in Requests, Inserted(r, requests[r])
    PROVE  Pictured'
<1> DEFINE w == requests[r].want
           u == CHOOSE v \in Users \ Accounts : TRUE
           q == [requests[r] EXCEPT !.at = "entering", !.user = u, !.seen = w]
<1>1. /\ Fits(r, requests[r]) /\ requests[r] \in Request /\ RowsOK
      /\ requests[r].at = "creating"
      /\ users' = [users EXCEPT ![u] = w] /\ UNCHANGED <<pictures, left>>
      /\ requests' = [requests EXCEPT ![r] = IF w.sub = None THEN Done ELSE q]
  BY AtHand DEF Inserted, Resumes, ghosts
<1>2. u \in Users /\ u \notin Accounts
  BY <1>1, AccountsAre DEF Inserted
<1>3. w \in Row
  BY <1>1 DEF Fits, Request, Loose, Row
<1>4. q.at = "entering" /\ q.want = w /\ Done.at = "done"
  BY <1>1, RowFacts DEF Request
<1> HIDE DEF u, w, q
<1>5. /\ users'[u] = w /\ \A v \in Users \ {u} : users'[v] = users[v]
      /\ Accounts' = Accounts \cup {u}
  BY <1>1, <1>2, <1>3, RowFacts DEF RowsOK, Accounts
<1>6. /\ requests'[r].at \in {"entering", "done"}
      /\ \A s \in Requests \ {r} : requests'[s] = requests[s]
  BY <1>1, <1>4 DEF AccountsInv, RequestsFit
<1>7. /\ w.avatar \in {None} \cup ({r} \cap pictures)
      /\ \A v \in Accounts : v # u /\ users'[v].avatar = users[v].avatar
  BY <1>1, <1>2, <1>5, AccountsAre DEF Pictured, Uploading, w
<1>8. \A p \in pictures \ left : p = r => \E v \in Accounts' : users'[v].avatar = p
  BY <1>5, <1>7, <1>1 DEF Pictured, Uploading, w
<1>9. \A s \in Requests : s # r /\ requests'[s].at \in Uploading =>
        \A v \in Accounts' : users'[v].avatar # s
  BY <1>5, <1>6, <1>7, AccountsConstants DEF AccountsConstants, Pictured
<1> QED
  BY <1>1, <1>5, <1>6, <1>7, <1>8, <1>9 DEF Pictured, Uploaded, Uploading

\* The profile's commit may let go of a picture.
LEMMA SavePictures ==
    ASSUME AccountsInv, Pictured, NEW r \in Requests, Save(r) PROVE Pictured'
<1> DEFINE q == requests[r]
           u == q.user
           new == Merged(q)
<1>0. /\ Fits(r, q) /\ q \in Request /\ RowsOK /\ u \in Accounts /\ q.at = "saving"
      /\ requests' = [requests EXCEPT ![r] = Done] /\ pictures' = pictures
  BY AtHand DEF Save, Ends, Resumes, Signed
<1>1. CASE UNCHANGED <<users, left>>
  <2>1. AvatarsStay
    BY <1>1 DEF AvatarsStay, Accounts
  <2> QED
    BY <1>0, <1>1, <2>1, RowFacts, ElsewhereKeeps DEF Uploading
<1>2. CASE /\ Committed(q)
           /\ left' = IF new.avatar = users[u].avatar THEN left
                      ELSE left \cup {users[u].avatar}
  <2>1. /\ Accounts' = Accounts /\ users'[u] = new
        /\ \A v \in Accounts \ {u} : users'[v] = users[v]
    BY <1>0, <1>2, SaveWrites, WritingRows
  <2>2. new.avatar \in {None, users[u].avatar}
    <3>1. q.seen \in Row /\ q.want \in Row /\ q.want.avatar \in {None, q.seen.avatar}
      BY <1>0 DEF Fits, Aware
    <3> QED
      BY <1>0, <3>1, MergedColumns
  <2> HIDE DEF new, u
  <2>3. /\ requests'[r].at = "done"
        /\ \A s \in Requests \ {r} : requests'[s] = requests[s]
        /\ requests[r].at \notin Uploading
    BY <1>0, RowFacts DEF AccountsInv, RequestsFit, Uploading
  <2>4. CASE new.avatar = users[u].avatar
    <3>1. AvatarsStay
      BY <2>1, <2>4 DEF AvatarsStay
    <3> QED
      BY <1>0, <1>2, <2>4, <3>1, RowFacts, ElsewhereKeeps DEF Uploading
  <2>5. CASE new.avatar = None /\ users[u].avatar # None
    <3>1. users[u].avatar \in pictures /\ left' = left \cup {users[u].avatar}
      BY <1>0, <1>2, <2>5 DEF Pictured
    <3>2. /\ pictures' \subseteq Requests /\ left' \subseteq Requests
          /\ \A p \in pictures' : requests'[p].at \in Uploaded
      BY <1>0, <2>3, <3>1 DEF Pictured, Uploaded
    <3>3. \A v \in Accounts' : users'[v].avatar \in {None, users[v].avatar}
      BY <2>1, <2>5
    <3>4. \A s \in Requests : s # None
      BY AccountsConstants DEF AccountsConstants
    <3>5. \A s \in Requests :
            /\ requests'[s].at \in {"unknown", "naming", "picturing"} => requests'[s].want.avatar = None
            /\ requests'[s].at \in Uploading =>
                 /\ requests'[s].want.avatar \in {None} \cup ({s} \cap pictures)
                 /\ \A v \in Accounts' : users'[v].avatar # s
      BY <2>1, <2>3, <3>3, <3>4 DEF Pictured, Uploading
    <3>6. \A p \in pictures \ left' :
            \/ \E v \in Accounts' : users'[v].avatar = p
            \/ requests'[p].at \in Uploading /\ requests'[p].want.avatar = p
      <4>1. ASSUME NEW p \in pictures, p \notin left', NEW v \in Accounts, users[v].avatar = p
            PROVE  users'[v].avatar = p
        BY <2>1, <3>1, <4>1
      <4>2. ASSUME NEW p \in pictures, requests[p].at \in Uploading
            PROVE  requests'[p] = requests[p]
        BY <2>3, <4>2 DEF Pictured
      <4> QED
        BY <2>1, <3>1, <4>1, <4>2 DEF Pictured
    <3> QED
      BY <1>0, <2>1, <3>2, <3>3, <3>5, <3>6 DEF Pictured
  <2> QED
    BY <2>2, <2>4, <2>5
<1> QED
  BY <1>1, <1>2 DEF Save

LEMMA RowsStay == UNCHANGED users => AvatarsStay
  BY DEF AvatarsStay, Accounts

\* Before the insert.
LEMMA EntryPictures ==
    ASSUME AccountsInv, Pictured, NEW r \in Requests,
           \/ \E n \in Names : Register(r, n)
           \/ RefuseCredential(r)
           \/ \E g \in Identities : Identify(r, g)
           \/ CheckEmail(r) \/ TryName(r) \/ NoPicture(r) \/ StorePicture(r)
    PROVE  Pictured'
<1> DEFINE old == requests[r]
<1>0. /\ old \in Request /\ AvatarsStay /\ users' = users /\ left' = left
      /\ old.want \in Loose
      /\ old.at \in {"unknown", "naming", "picturing"} => old.want.avatar = None
      /\ Fresh.want.avatar = None /\ NewRow \in Loose /\ NewRow.avatar = None
  BY AtHand, RowsStay, RowFacts
  DEF Register, RefuseCredential, Identify, CheckEmail, TryName, NoPicture, StorePicture,
      ghosts, Pictured, Request, Fresh, Absent, NewRow
<1>1. CASE \E n \in Names : Register(r, n)
  <2>1. PICK n \in Names : Register(r, n)
    BY <1>1
  <2>2. PICK q : q = [Fresh EXCEPT !.at = "creating", !.want = [NewRow EXCEPT !.name = n]]
    OBVIOUS
  <2>3. q.at = "creating" /\ q.want.avatar = None
    BY <2>2 DEF Fresh, NewRow
  <2> QED
    BY <1>0, <2>1, <2>2, <2>3, RowFacts, ToCreateKeeps DEF Register, Enters
<1>2. CASE RefuseCredential(r)
  BY <1>0, <1>2, RowFacts, ElsewhereKeeps DEF RefuseCredential, Enters, Uploading
<1>3. CASE \E g \in Identities : Identify(r, g)
  <2>1. PICK g \in Identities : Identify(r, g)
    BY <1>3
  <2> DEFINE w == [NewRow EXCEPT !.sub = g, !.email = EmailOf[g]]
  <2>2. w.avatar = None
    BY DEF NewRow
  <2> HIDE DEF w
  <2>3. PICK q : /\ requests' = [requests EXCEPT ![r] = q] /\ old.at = "new"
                 /\ q.at \in {"unknown", "entering"} /\ q.want = w
    <3>1. /\ old = Fresh /\ old.at = "new"
          /\ \/ requests' = [requests EXCEPT ![r] = [Fresh EXCEPT !.at = "unknown", !.want = w]]
             \/ \E u \in Accounts : requests' = [requests EXCEPT ![r] =
                  [Fresh EXCEPT !.at = "entering", !.user = u, !.seen = users[u], !.want = w]]
      BY <2>1, RowFacts DEF Identify, Enters, w
    <3>2. CASE requests' = [requests EXCEPT ![r] = [Fresh EXCEPT !.at = "unknown", !.want = w]]
      <4>1. PICK q : q = [Fresh EXCEPT !.at = "unknown", !.want = w]
        OBVIOUS
      <4>2. q.at = "unknown" /\ q.want = w
        BY <4>1 DEF Fresh
      <4> QED
        BY <3>1, <3>2, <4>1, <4>2
    <3>3. ASSUME NEW u \in Accounts, requests' = [requests EXCEPT ![r] =
                  [Fresh EXCEPT !.at = "entering", !.user = u, !.seen = users[u], !.want = w]]
          PROVE  \E q : /\ requests' = [requests EXCEPT ![r] = q] /\ old.at = "new"
                        /\ q.at \in {"unknown", "entering"} /\ q.want = w
      <4>1. PICK q : q = [Fresh EXCEPT !.at = "entering", !.user = u, !.seen = users[u], !.want = w]
        OBVIOUS
      <4>2. q.at = "entering" /\ q.want = w
        BY <4>1 DEF Fresh
      <4> QED
        BY <3>1, <3>3, <4>1, <4>2
    <3> QED
      BY <3>1, <3>2, <3>3
  <2>4. UNCHANGED <<pictures, left>>
    BY <2>1 DEF Identify, ghosts
  <2> QED
    BY <1>0, <2>2, <2>3, <2>4, ElsewhereKeeps DEF Uploading
<1>4. CASE CheckEmail(r)
  <2>1. CASE Ends(r, "unknown")
    BY <1>0, <1>4, <2>1, RowFacts, ElsewhereKeeps DEF CheckEmail, Ends, Resumes, Uploading
  <2>2. CASE Resumes(r, "unknown", [old EXCEPT !.at = "naming"])
    <3>1. PICK q : q = [old EXCEPT !.at = "naming"]
      OBVIOUS
    <3>2. q.at = "naming" /\ q.want = old.want
      BY <1>0, <3>1 DEF Request
    <3> QED
      BY <1>0, <1>4, <2>2, <3>1, <3>2, ElsewhereKeeps DEF CheckEmail, Resumes, Uploading
  <2> QED
    BY <1>4, <2>1, <2>2 DEF CheckEmail
<1>5. CASE TryName(r)
  <2>1. PICK q : /\ requests' = [requests EXCEPT ![r] = q] /\ old.at = "naming"
                 /\ q.at \in {"naming", "picturing"} /\ q.want.avatar = old.want.avatar
    <3>1. /\ old.at = "naming"
          /\ \/ requests' = [requests EXCEPT ![r] = [old EXCEPT !.tried = @ + 1]]
             \/ \E n : requests' = [requests EXCEPT ![r] =
                                      [old EXCEPT !.at = "picturing", !.want.name = n]]
      BY <1>5 DEF TryName, Resumes
    <3>2. CASE requests' = [requests EXCEPT ![r] = [old EXCEPT !.tried = @ + 1]]
      <4>1. PICK q : q = [old EXCEPT !.tried = @ + 1]
        OBVIOUS
      <4>2. q.at = "naming" /\ q.want.avatar = old.want.avatar
        BY <1>0, <3>1, <4>1 DEF Request
      <4> QED
        BY <3>1, <3>2, <4>1, <4>2
    <3>3. ASSUME NEW n, requests' = [requests EXCEPT ![r] =
                                      [old EXCEPT !.at = "picturing", !.want.name = n]]
          PROVE  \E q : /\ requests' = [requests EXCEPT ![r] = q] /\ old.at = "naming"
                        /\ q.at \in {"naming", "picturing"} /\ q.want.avatar = old.want.avatar
      <4>1. PICK q : q = [old EXCEPT !.at = "picturing", !.want.name = n]
        OBVIOUS
      <4>2. q.at = "picturing" /\ q.want.avatar = old.want.avatar
        BY <1>0, <4>1 DEF Request, Loose
      <4> QED
        BY <3>1, <3>3, <4>1, <4>2
    <3> QED
      BY <3>1, <3>2, <3>3
  <2> QED
    BY <1>0, <1>5, <2>1, ElsewhereKeeps DEF TryName, Uploading
<1>6. CASE NoPicture(r)
  <2>1. CASE Ends(r, "picturing")
    BY <1>0, <1>6, <2>1, RowFacts, ElsewhereKeeps DEF NoPicture, Ends, Resumes, Uploading
  <2>2. CASE Resumes(r, "picturing", [old EXCEPT !.at = "creating"])
    <3>1. PICK q : q = [old EXCEPT !.at = "creating"]
      OBVIOUS
    <3>2. q.at = "creating" /\ q.want = old.want
      BY <1>0, <3>1 DEF Request
    <3> QED
      BY <1>0, <1>6, <2>2, <3>1, <3>2, ToCreateKeeps DEF NoPicture, Resumes
  <2> QED
    BY <1>6, <2>1, <2>2 DEF NoPicture
<1>7. CASE StorePicture(r)
  <2>1. PICK q : q = [old EXCEPT !.at = "creating", !.want.avatar = r]
    OBVIOUS
  <2>2. q.at = "creating" /\ q.want.avatar = r
    BY <1>0, <2>1 DEF Request, Loose
  <2> QED
    BY <1>0, <1>7, <2>1, <2>2, ToCreateKeeps DEF StorePicture, Resumes
<1> QED
  BY <1>1, <1>2, <1>3, <1>4, <1>5, <1>6, <1>7

\* The insert and what follows when it fails.
LEMMA CreatePictures ==
    ASSUME AccountsInv, Pictured, NEW r \in Requests, Create(r) \/ Undo(r) \/ Fail(r)
    PROVE  Pictured'
<1> DEFINE old == requests[r]
<1>0. /\ old \in Request /\ DOMAIN requests = Requests
  BY AtHand DEF AccountsInv, RequestsFit
<1>1. CASE Inserted(r, old)
  BY <1>1, InsertedPictures
<1>2. ASSUME users' = users, requests' = [requests EXCEPT ![r] = Done],
             old.at \in Uploading, pictures' \in {pictures, pictures \ {r}},
             left' \in {left, left \cup {r}},
             r \in pictures' => r \in left' \/ old.want.avatar = None
      PROVE  Pictured'
  <2>1. /\ Accounts' = Accounts /\ requests'[r].at = "done"
        /\ \A s \in Requests \ {r} : requests'[s] = requests[s]
    BY <1>0, <1>2, RowFacts DEF Accounts
  <2> QED
    BY <1>2, <2>1, AccountsConstants
    DEF AccountsConstants, Pictured, Uploaded, Uploading
<1>3. CASE Create(r) /\ ~Inserted(r, old)
  <2>1. CASE old.want.avatar = None
    BY <1>2, <1>3, <2>1 DEF Create, Resumes, ghosts, Uploading
  <2>2. CASE old.want.avatar # None
    <3>1. PICK q : q = [old EXCEPT !.at = "undoing"]
      OBVIOUS
    <3>2. q.at = "undoing" /\ q.want = old.want
      BY <1>0, <3>1 DEF Request
    <3>3. /\ UNCHANGED <<users, pictures, left>> /\ Accounts' = Accounts
          /\ old.at = "creating" /\ requests' = [requests EXCEPT ![r] = q]
      BY <1>3, <2>2, <3>1 DEF Create, Resumes, ghosts, Accounts
    <3> QED
      BY <1>0, <3>2, <3>3 DEF Pictured, Uploaded, Uploading
  <2> QED
    BY <2>1, <2>2
<1>4. CASE Undo(r)
  BY <1>2, <1>4 DEF Undo, Ends, Resumes, Uploading
<1>5. CASE Fail(r)
  <2>1. CASE old.at = "creating"
    <3>1. left' = left \cup ({r} \cap pictures) /\ left' \in {left, left \cup {r}}
      BY <1>5, <2>1 DEF Fail
    <3> QED
      BY <1>2, <1>5, <2>1, <3>1 DEF Fail, Uploading
  <2>2. CASE old.at # "creating"
    <3>1. left' = left /\ old.at \notin Uploading
      BY <1>5, <2>2 DEF Fail, Uploading
    <3> QED
      BY <1>5, <3>1, RowsStay, RowFacts, ElsewhereKeeps DEF Fail, Uploading
  <2> QED
    BY <2>1, <2>2
<1> QED
  BY <1>1, <1>3, <1>4, <1>5

\* A signed-in user's request goes on to its next await, or ends.
Inside == {"new", "deciding", "saving", "sending", "logging", "clearing", "checking",
           "confirming", "enabling", "recording"}
GoesOn(r, x, q) ==
    /\ requests' = [requests EXCEPT ![r] = q]
    /\ \/ x \in Inside /\ q.at \in Inside
       \/ x \notin Uploading /\ q.at = "done"
LEMMA GoesOnKeeps ==
    ASSUME AccountsInv, Pictured, AvatarsStay, UNCHANGED <<pictures, left>>,
           NEW r \in Requests, \E q : GoesOn(r, requests[r].at, q)
    PROVE  Pictured'
<1>1. PICK q : GoesOn(r, requests[r].at, q)
  OBVIOUS
<1> QED
  BY <1>1, ElsewhereKeeps DEF GoesOn, Inside, Uploading

LEMMA UserPictures ==
    ASSUME AccountsInv, Pictured, NEW r \in Requests,
           \/ Enter(r) \/ \E u \in Users : Reads(r, u)
           \/ Change(r)
           \/ \E d \in Emails : Claim(r, "EMAIL", d)
           \/ \E d \in Mobiles : Claim(r, "SMS", d)
           \/ Committing(r) \/ NotSent(r) \/ LogIssued(r) \/ Clear(r)
           \/ \E i \in Requests, u \in Users : Submit(r, i, u)
           \/ Prove(r) \/ Fetch(r) \/ Record(r) \/ Lapse(r)
    PROVE  Pictured'
<1> DEFINE old == requests[r]
<1>0. /\ old \in Request /\ AvatarsStay /\ UNCHANGED <<users, pictures, left>>
      /\ requests = [s \in Requests |-> requests[s]]
  BY AtHand, RowsStay
  DEF Enter, Reads, Change, Claim, Committing, NotSent, LogIssued, Clear, Submit, Prove,
      Fetch, Record, Lapse, ghosts, AccountsInv, RequestsFit
<1>1. CASE Enter(r) \/ NotSent(r) \/ LogIssued(r) \/ Clear(r) \/ Record(r)
  <2>1. GoesOn(r, old.at, Done)
    BY <1>1, RowFacts
    DEF Enter, NotSent, LogIssued, Clear, Record, Ends, Resumes, GoesOn, Uploading
  <2> QED
    BY <1>0, <2>1, GoesOnKeeps
<1>2. CASE \E u \in Users : Reads(r, u)
  <2>1. PICK u \in Users : Reads(r, u)
    BY <1>2
  <2> DEFINE q == [Fresh EXCEPT !.at = "deciding", !.user = u, !.seen = users[u]]
  <2>2. q.at = "deciding"
    BY DEF Fresh
  <2> HIDE DEF q
  <2>3. GoesOn(r, old.at, q)
    BY <2>1, <2>2, RowFacts DEF Reads, Enters, GoesOn, Inside, q
  <2> QED
    BY <1>0, <2>3, GoesOnKeeps
<1>3. CASE Change(r)
  <2>1. PICK w : /\ old.at = "deciding"
                 /\ requests' = [requests EXCEPT ![r] = [old EXCEPT !.at = "saving", !.want = w]]
    BY <1>3 DEF Change, Resumes
  <2> DEFINE q == [old EXCEPT !.at = "saving", !.want = w]
  <2>2. q.at = "saving"
    BY <1>0 DEF Request
  <2> HIDE DEF q
  <2>3. GoesOn(r, old.at, q)
    BY <2>1, <2>2 DEF GoesOn, Inside, q
  <2> QED
    BY <1>0, <2>3, GoesOnKeeps
<1>4. CASE (\E d \in Emails : Claim(r, "EMAIL", d)) \/ (\E d \in Mobiles : Claim(r, "SMS", d))
  <2> DEFINE q == [old EXCEPT !.at = "sending", !.code = r, !.seen = Absent]
  <2>1. q.at = "sending"
    BY <1>0 DEF Request
  <2> HIDE DEF q
  <2>2. GoesOn(r, old.at, q)
    BY <1>4, <2>1 DEF Claim, Resumes, GoesOn, Inside, q
  <2> QED
    BY <1>0, <2>2, GoesOnKeeps
<1>5. CASE Committing(r)
  <2> DEFINE q == [old EXCEPT !.at = "logging"]
  <2>1. q.at = "logging"
    BY <1>0 DEF Request
  <2> HIDE DEF q
  <2>2. GoesOn(r, old.at, q) \/ GoesOn(r, old.at, Done)
    BY <1>5, <2>1, RowFacts DEF Committing, Resumes, Ends, GoesOn, Inside, Uploading, q
  <2> QED
    BY <1>0, <2>2, GoesOnKeeps
<1>6. CASE \E i \in Requests, u \in Users : Submit(r, i, u)
  <2>1. PICK i \in Requests, u \in Users : Submit(r, i, u)
    BY <1>6
  <2> DEFINE p == [[Fresh EXCEPT !.user = u, !.code = i] EXCEPT !.at = "checking", !.seen = users[u]]
             q == [[Fresh EXCEPT !.user = u, !.code = i] EXCEPT !.at = "confirming"]
  <2>2. p.at = "checking" /\ q.at = "confirming"
    BY DEF Fresh
  <2>3. \/ requests' = [requests EXCEPT ![r] = p]
        \/ requests' = [requests EXCEPT ![r] = q]
    BY <2>1 DEF Submit, Enters
  <2> HIDE DEF p, q
  <2>4. GoesOn(r, old.at, p) \/ GoesOn(r, old.at, q)
    BY <2>1, <2>2, <2>3, RowFacts DEF Submit, Enters, GoesOn, Inside
  <2> QED
    BY <1>0, <2>4, GoesOnKeeps
<1>7. CASE Prove(r)
  <2> DEFINE q == [old EXCEPT !.at = "confirming"]
  <2>1. q.at = "confirming"
    BY <1>0 DEF Request
  <2> HIDE DEF q
  <2>2. GoesOn(r, old.at, q)
    BY <1>7, <2>1 DEF Prove, Resumes, GoesOn, Inside, q
  <2> QED
    BY <1>0, <2>2, GoesOnKeeps
<1>8. CASE Fetch(r)
  <2>1. PICK row, w : /\ old.at = "confirming"
                      /\ requests' = [requests EXCEPT ![r] =
                            [old EXCEPT !.at = "enabling", !.seen = row, !.want = w]]
    BY <1>8 DEF Fetch, Resumes
  <2> DEFINE q == [old EXCEPT !.at = "enabling", !.seen = row, !.want = w]
  <2>2. q.at = "enabling"
    BY <1>0 DEF Request
  <2> HIDE DEF q
  <2>3. GoesOn(r, old.at, q)
    BY <2>1, <2>2 DEF GoesOn, Inside, q
  <2> QED
    BY <1>0, <2>3, GoesOnKeeps
<1>9. CASE Lapse(r)
  BY <1>0, <1>9 DEF Lapse, Pictured, Accounts
<1> QED
  BY <1>1, <1>2, <1>3, <1>4, <1>5, <1>6, <1>7, <1>8, <1>9

\* Two-step verification writes rows, and no pictures.
LEMMA SettingsPictures ==
    ASSUME AccountsInv, Pictured, NEW r \in Requests, Enroll(r) \/ Disable(r) \/ Enable(r)
    PROVE  Pictured'
<1> DEFINE old == requests[r]
           u == old.user
<1>0. /\ Fits(r, old) /\ old \in Request /\ RowsOK /\ CodesOK /\ u \in Accounts
      /\ users[u] \in Row /\ old.at \in {"deciding", "enabling"}
      /\ UNCHANGED <<pictures, left>>
  BY AtHand, AccountsAre DEF Enroll, Disable, Enable, Ends, Resumes, Signed, ghosts
<1>1. ASSUME NEW row, Writing(u, row), row.avatar = users[u].avatar PROVE AvatarsStay
  BY <1>0, <1>1, WritingRows DEF AvatarsStay
<1>2. CASE Enroll(r)
  <2>1. Writing(u, [users[u] EXCEPT !.secret = TRUE])
    BY <1>0, <1>2, SecretWrites DEF Enroll
  <2>2. [users[u] EXCEPT !.secret = TRUE].avatar = users[u].avatar
    BY <1>0 DEF Row
  <2>3. GoesOn(r, old.at, Done)
    BY <1>2, <1>0, RowFacts DEF Enroll, Ends, Resumes, GoesOn, Uploading
  <2> HIDE DEF u
  <2>4. AvatarsStay
    BY <1>1, <2>1, <2>2
  <2> QED
    BY <1>0, <2>3, <2>4, GoesOnKeeps
<1>3. CASE Disable(r)
  <2> DEFINE row == [users[u] EXCEPT !.enabled = @ /\ ~old.seen.enabled]
             q == [old EXCEPT !.at = "clearing", !.seen = Absent]
  <2>0. old.seen \in Row
    BY <1>3, AtHand DEF Disable, Resumes, Aware
  <2>1. Writing(u, row)
    BY <1>0, <1>3, <2>0, DisableWrites DEF Disable
  <2>2. row.avatar = users[u].avatar
    BY <1>0 DEF Row
  <2>3. q.at = "clearing"
    BY <1>0 DEF Request
  <2> HIDE DEF row, q
  <2>4. GoesOn(r, old.at, q)
    BY <1>3, <2>3 DEF Disable, Resumes, GoesOn, Inside, q
  <2>5. AvatarsStay
    BY <1>1, <2>1, <2>2
  <2> QED
    BY <1>0, <2>4, <2>5, GoesOnKeeps
<1>4. CASE Enable(r)
  <2> DEFINE q == [old EXCEPT !.at = "recording", !.seen = Absent, !.want = Absent]
  <2>1. q.at = "recording"
    BY <1>0 DEF Request
  <2> HIDE DEF q
  <2>2. GoesOn(r, old.at, q) \/ GoesOn(r, old.at, Done)
    BY <1>4, <2>1, RowFacts DEF Enable, Resumes, Ends, GoesOn, Inside, Uploading, q
  <2>3. AvatarsStay
    <3>1. CASE users' = users
      BY <3>1, RowsStay
    <3>2. CASE Committed(old) /\ old.at = "enabling"
      BY <1>0, <1>1, <3>2, EnableWrites
    <3> QED
      BY <1>4, <3>1, <3>2 DEF Enable
  <2> QED
    BY <1>0, <2>2, <2>3, GoesOnKeeps
<1> QED
  BY <1>2, <1>3, <1>4

LEMMA InitPictured == Init => Pictured
<1> SUFFICES ASSUME Init PROVE Pictured
  OBVIOUS
<1>1. /\ \A r \in Requests : requests[r].at = "new" /\ r # None
      /\ \A u \in Users : users[u].avatar = None
      /\ pictures = {} /\ left = {}
  BY RowFacts, TablesLegal, AccountsConstants DEF AccountsConstants, TablesLegal, Init
<1> QED
  BY <1>1 DEF Pictured, Uploading, Accounts

LEMMA StepPictured == AccountsInv /\ Pictured /\ [Next]_vars => Pictured'
<1> SUFFICES ASSUME AccountsInv, Pictured, [Next]_vars PROVE Pictured'
  OBVIOUS
<1>1. CASE UNCHANGED vars
  BY <1>1 DEF vars, ghosts, Pictured, Accounts
<1>2. ASSUME NEW r \in Requests,
             \/ \E n \in Names : Register(r, n)
             \/ RefuseCredential(r)
             \/ \E g \in Identities : Identify(r, g)
             \/ CheckEmail(r) \/ TryName(r) \/ NoPicture(r) \/ StorePicture(r)
      PROVE  Pictured'
  BY <1>2, EntryPictures
<1>3. ASSUME NEW r \in Requests, Create(r) \/ Undo(r) \/ Fail(r) PROVE Pictured'
  BY <1>3, CreatePictures
<1>4. ASSUME NEW r \in Requests,
             \/ Enter(r) \/ \E u \in Users : Reads(r, u)
             \/ Change(r)
             \/ \E d \in Emails : Claim(r, "EMAIL", d)
             \/ \E d \in Mobiles : Claim(r, "SMS", d)
             \/ Committing(r) \/ NotSent(r) \/ LogIssued(r) \/ Clear(r)
             \/ \E i \in Requests, u \in Users : Submit(r, i, u)
             \/ Prove(r) \/ Fetch(r) \/ Record(r) \/ Lapse(r)
      PROVE  Pictured'
  BY <1>4, UserPictures
<1>5. ASSUME NEW r \in Requests, Save(r) \/ Enable(r) \/ Enroll(r) \/ Disable(r)
      PROVE  Pictured'
  BY <1>5, SavePictures, SettingsPictures
<1> QED
  BY <1>1, <1>2, <1>3, <1>4, <1>5 DEF Next, Over

\* _create_user, delete_asset: whoever loses a race, no row is without its picture and no
\* picture is left that an error or its owner did not let go of.
THEOREM PicturesStay == Spec => []PicturesMatchRows
<1>1. AccountsInv /\ Pictured => PicturesMatchRows
  BY DEF Pictured, PicturesMatchRows
<1> QED
  BY <1>1, Invariance, InitPictured, StepPictured, PTL DEF Spec

\* Columns and variables hold what the code's annotations say.
THEOREM TypeCorrect == Spec => []TypeOK
<1>1. AccountsInv /\ Pictured => TypeOK
  BY AtHand DEF AccountsInv, RowsOK, CodesOK, Pictured, TypeOK, Request, Signed
<1> QED
  BY <1>1, Invariance, InitPictured, StepPictured, PTL DEF Spec

-------------------------------------------------------------------------------
\* The history of codes: every row marked as used is paid for by a code that was.

\* A code was used and its use is not on record yet.
InFlight == {"confirming", "enabling", "recording"}
OnRecord(u) == {i \in Requests : log[i] = "used" /\ flow[i] = u}
Used(u) == {i \in Requests : stage[i] = "spent" /\ flow[i] = u}
Unrecorded(u) == {r \in Requests : requests[r].at \in InFlight /\ requests[r].user = u}
Created == {i \in Requests : created[i] > 0}

\* Codes that became live are numbered apart, and only they have rows.
Numbered ==
    /\ \A i \in Requests : created[i] <= Cardinality(Created)
    /\ \A i, j \in Created : created[i] = created[j] => i = j
    /\ \A i \in Requests : log[i] # "none" => i \in Created
    /\ \A r \in Requests : requests[r].at = "logging" => r \in Created
\* Every row marked, and every mark still to be made, is paid for by a code used.
Counted == \A u \in Users :
    Cardinality(OnRecord(u)) + Cardinality(Unrecorded(u)) <= Cardinality(Used(u))

LEMMA Finite ==
    ASSUME NEW S \in SUBSET Requests
    PROVE  IsFiniteSet(S) /\ Cardinality(S) \in Nat
  BY AccountsConstants, FS_Subset, FS_CardinalityType DEF AccountsConstants

\* The next number is new.
LEMMA NumbersApart ==
    ASSUME CodesOK, Numbered, NEW c \in Requests, created[c] = 0, created' = NextCreated(c)
    PROVE  /\ Created' = Created \cup {c}
           /\ \A i \in Requests : created'[i] <= Cardinality(Created')
           /\ \A i, j \in Created' : created'[i] = created'[j] => i = j
<1> DEFINE n == Cardinality(Created)
<1>1. Created \in SUBSET Requests /\ IsFiniteSet(Created) /\ n \in Nat
      /\ c \notin Created
  BY Finite DEF Created
<1>2. created' = [created EXCEPT ![c] = 1 + n]
  BY DEF NextCreated, Created
<1>3. /\ created'[c] = 1 + n /\ \A i \in Requests \ {c} : created'[i] = created[i]
      /\ \A i \in Requests : created[i] \in Nat
  BY <1>2 DEF CodesOK
<1> HIDE DEF n
<1>4. Created' = Created \cup {c}
  BY <1>1, <1>3 DEF Created
<1>5. Cardinality(Created') = n + 1
  BY <1>1, <1>4, FS_AddElement DEF n
<1>6. \A i \in Requests : created[i] <= n
  BY DEF Numbered, n
<1>7. \A i \in Requests : created'[i] <= Cardinality(Created')
  BY <1>1, <1>3, <1>5, <1>6
<1>8. \A i, j \in Created' : created'[i] = created'[j] => i = j
  BY <1>1, <1>3, <1>4, <1>6 DEF Numbered
<1> QED
  BY <1>4, <1>7, <1>8

\* A step that marks no row as used and uses no code, or forgets to say so.
LEMMA QuietCount ==
    ASSUME AccountsInv, Numbered, Counted, CodesGrow,
           \A i \in Requests : log'[i] = "used" => log[i] = "used",
           \A r \in Requests : requests'[r].at \in InFlight =>
             requests[r].at \in InFlight /\ requests'[r].user = requests[r].user
    PROVE  Counted'
<1> SUFFICES ASSUME NEW u \in Users
             PROVE  Cardinality(OnRecord(u)') + Cardinality(Unrecorded(u)') <= Cardinality(Used(u)')
  BY DEF Counted
<1>1. \A i \in Requests : log[i] = "used" => stage[i] # "new"
  BY DEF AccountsInv, CodesOK, Numbered, Created
<1>2. /\ OnRecord(u)' \subseteq OnRecord(u) /\ Unrecorded(u)' \subseteq Unrecorded(u)
      /\ Used(u) \subseteq Used(u)'
  BY <1>1 DEF OnRecord, Unrecorded, Used, CodesGrow
<1>3. /\ OnRecord(u) \in SUBSET Requests /\ Unrecorded(u) \in SUBSET Requests
      /\ Used(u)' \in SUBSET Requests /\ Used(u) \in SUBSET Requests
      /\ OnRecord(u)' \in SUBSET Requests /\ Unrecorded(u)' \in SUBSET Requests
  BY DEF OnRecord, Unrecorded, Used
<1>4. /\ Cardinality(OnRecord(u)') <= Cardinality(OnRecord(u))
      /\ Cardinality(Unrecorded(u)') <= Cardinality(Unrecorded(u))
      /\ Cardinality(Used(u)) <= Cardinality(Used(u)')
  BY <1>2, <1>3, Finite, FS_Subset
<1>5. Cardinality(OnRecord(u)) + Cardinality(Unrecorded(u)) <= Cardinality(Used(u))
  BY DEF Counted
<1>6. /\ Cardinality(OnRecord(u)) \in Nat /\ Cardinality(Unrecorded(u)) \in Nat
      /\ Cardinality(Used(u)) \in Nat /\ Cardinality(Used(u)') \in Nat
      /\ Cardinality(OnRecord(u)') \in Nat /\ Cardinality(Unrecorded(u)') \in Nat
  BY <1>3, Finite
<1> QED
  BY <1>4, <1>5, <1>6

\* A request moves and neither codes nor their rows do, but that some may have lapsed.
Apart(r) ==
    /\ UNCHANGED <<created, log>> /\ CodesGrow
    /\ \E q : /\ requests' = [requests EXCEPT ![r] = q]
              /\ q.at \notin InFlight \cup {"logging"}

LEMMA NumbersStay ==
    ASSUME AccountsInv, Numbered, UNCHANGED created,
           \A i \in Requests : log'[i] # "none" => log[i] # "none" \/ i \in Created,
           \A r \in Requests : requests'[r].at = "logging" => requests[r].at = "logging"
    PROVE  Numbered'
<1>1. Created' = Created
  BY DEF Created
<1> QED
  BY <1>1 DEF Numbered

LEMMA ApartKeeps ==
    ASSUME AccountsInv, Numbered, Counted, NEW r \in Requests, Apart(r)
    PROVE  Numbered' /\ Counted'
<1>1. PICK q : /\ requests' = [requests EXCEPT ![r] = q]
               /\ q.at \notin InFlight \cup {"logging"}
  BY DEF Apart
<1>2. \A s \in Requests : \/ requests'[s] = requests[s]
                          \/ requests'[s].at \notin InFlight \cup {"logging"}
  BY <1>1 DEF AccountsInv, RequestsFit
<1>3. created' = created /\ log' = log /\ CodesGrow
  BY DEF Apart
<1>4. Numbered'
  BY <1>2, <1>3, NumbersStay
<1>5. \A s \in Requests : requests'[s].at \in InFlight =>
        requests[s].at \in InFlight /\ requests'[s].user = requests[s].user
  BY <1>2
<1>6. Counted'
  BY <1>3, <1>5, QuietCount
<1> QED
  BY <1>4, <1>6

\* A request that only reads, or writes rows of users.
LEMMA MovesApart ==
    ASSUME AccountsInv, NEW r \in Requests, UNCHANGED <<codes, log>>,
           \E q : /\ requests' = [requests EXCEPT ![r] = q]
                 /\ q.at \notin InFlight \cup {"logging"}
    PROVE  Apart(r)
<1>1. CodesGrow
  BY DEF codes, CodesGrow
<1> QED
  BY <1>1 DEF Apart, codes

LEMMA EndsApart ==
    ASSUME AccountsInv, NEW r \in Requests, UNCHANGED <<codes, log>>,
           requests' = [requests EXCEPT ![r] = Done]
    PROVE  Apart(r)
<1>1. Done.at \notin InFlight \cup {"logging"}
  BY RowFacts DEF InFlight
<1> QED
  BY <1>1, MovesApart

LEMMA EntryApart ==
    ASSUME AccountsInv, NEW r \in Requests,
           \/ \E n \in Names : Register(r, n)
           \/ RefuseCredential(r)
           \/ \E g \in Identities : Identify(r, g)
           \/ CheckEmail(r) \/ TryName(r) \/ NoPicture(r) \/ StorePicture(r) \/ Undo(r)
    PROVE  Apart(r)
<1>0. requests[r] \in Request /\ Fresh \in Request
  BY AtHand, RowFacts
<1>1. CASE \/ RefuseCredential(r) \/ Undo(r)
  BY <1>1, EndsApart DEF RefuseCredential, Undo, Enters, Ends, Resumes
<1>2. CASE \E n \in Names : Register(r, n)
  <2>1. PICK n \in Names : Register(r, n)
    BY <1>2
  <2>2. PICK q : q = [Fresh EXCEPT !.at = "creating", !.want = [NewRow EXCEPT !.name = n]]
    OBVIOUS
  <2>3. q.at = "creating"
    BY <2>2 DEF Fresh
  <2> QED
    BY <2>1, <2>2, <2>3, MovesApart DEF Register, Enters, InFlight
<1>3. CASE \E g \in Identities : Identify(r, g)
  <2>1. PICK g \in Identities : Identify(r, g)
    BY <1>3
  <2>2. PICK w : w = [NewRow EXCEPT !.sub = g, !.email = EmailOf[g]]
    OBVIOUS
  <2>3. \A u : /\ [Fresh EXCEPT !.at = "unknown", !.want = w].at = "unknown"
              /\ [Fresh EXCEPT !.at = "entering", !.user = u, !.seen = users[u],
                                !.want = w].at = "entering"
    BY DEF Fresh
  <2> QED
    BY <2>1, <2>2, <2>3, MovesApart DEF Identify, Enters, InFlight
<1>4. CASE CheckEmail(r)
  <2>1. [requests[r] EXCEPT !.at = "naming"].at = "naming"
    BY <1>0 DEF Request
  <2> QED
    BY <1>4, <2>1, MovesApart, EndsApart DEF CheckEmail, Ends, Resumes, InFlight
<1>5. CASE TryName(r)
  <2>1. /\ \A n : [requests[r] EXCEPT !.at = "picturing", !.want.name = n].at = "picturing"
        /\ [requests[r] EXCEPT !.tried = @ + 1].at = requests[r].at
    BY <1>0 DEF Request
  <2>2. requests[r].at = "naming"
    BY <1>5 DEF TryName
  <2> QED
    BY <1>5, <2>1, <2>2, MovesApart DEF TryName, Resumes, InFlight
<1>6. CASE NoPicture(r) \/ StorePicture(r)
  <2>1. /\ [requests[r] EXCEPT !.at = "creating"].at = "creating"
        /\ [requests[r] EXCEPT !.at = "creating", !.want.avatar = r].at = "creating"
    BY <1>0 DEF Request
  <2> QED
    BY <1>6, <2>1, MovesApart, EndsApart DEF NoPicture, StorePicture, Ends, Resumes, InFlight
<1> QED
  BY <1>1, <1>2, <1>3, <1>4, <1>5, <1>6

LEMMA RowsApart ==
    ASSUME AccountsInv, NEW r \in Requests,
           \/ Create(r) \/ Enter(r)
           \/ \E u \in Users : Reads(r, u)
           \/ Change(r) \/ Save(r) \/ Disable(r) \/ Fail(r)
    PROVE  Apart(r)
<1>0. requests[r] \in Request /\ Fresh \in Request
  BY AtHand, RowFacts
<1>1. CASE Enter(r) \/ Save(r) \/ Fail(r)
  BY <1>1, EndsApart DEF Enter, Save, Fail, Ends, Resumes
<1>2. CASE Create(r)
  <2>1. /\ [requests[r] EXCEPT !.at = "undoing"].at = "undoing"
        /\ \A u : [requests[r] EXCEPT !.at = "entering", !.user = u,
                                       !.seen = requests[r].want].at = "entering"
        /\ Done.at = "done"
    BY <1>0, RowFacts DEF Request
  <2> QED
    BY <1>2, <2>1, MovesApart DEF Create, Inserted, Resumes, InFlight
<1>3. CASE \E u \in Users : Reads(r, u)
  <2>1. PICK u \in Users : Reads(r, u)
    BY <1>3
  <2>2. [Fresh EXCEPT !.at = "deciding", !.user = u, !.seen = users[u]].at = "deciding"
    BY DEF Fresh
  <2> QED
    BY <2>1, <2>2, MovesApart DEF Reads, Enters, InFlight
<1>4. CASE Change(r)
  <2>1. \A w : [requests[r] EXCEPT !.at = "saving", !.want = w].at = "saving"
    BY <1>0 DEF Request
  <2> QED
    BY <1>4, <2>1, MovesApart DEF Change, Resumes, InFlight
<1>5. CASE Disable(r)
  <2>1. [requests[r] EXCEPT !.at = "clearing", !.seen = Absent].at = "clearing"
    BY <1>0 DEF Request
  <2> QED
    BY <1>5, <2>1, MovesApart DEF Disable, Resumes, InFlight
<1> QED
  BY <1>1, <1>2, <1>3, <1>4, <1>5

LEMMA CodesApart ==
    ASSUME AccountsInv, NEW r \in Requests,
           \/ \E d \in Emails : Claim(r, "EMAIL", d)
           \/ \E d \in Mobiles : Claim(r, "SMS", d)
           \/ NotSent(r) \/ Clear(r)
    PROVE  Apart(r)
<1>0. requests[r] \in Request /\ CodesGrow
  BY AtHand, CodeSteps DEF Reading
<1>1. ASSUME NEW m \in Sent, NEW d, Claim(r, m, d) PROVE Apart(r)
  <2>1. [requests[r] EXCEPT !.at = "sending", !.code = r, !.seen = Absent].at = "sending"
    BY <1>0 DEF Request
  <2> QED
    BY <1>0, <1>1, <2>1 DEF Claim, Resumes, InFlight, Apart
<1>2. CASE NotSent(r) \/ Clear(r)
  BY <1>0, <1>2, RowFacts DEF NotSent, Clear, Ends, Resumes, Apart, InFlight
<1> QED
  BY <1>1, <1>2 DEF Sent

\* Codes that become live get a number, and a row only then.
LEMMA IssuesKeep ==
    ASSUME AccountsInv, Numbered, Counted, NEW r \in Requests,
           Committing(r) \/ Enroll(r) \/ LogIssued(r)
    PROVE  Numbered' /\ Counted'
<1>0. /\ requests[r] \in Request /\ Done.at = "done"
      /\ requests = [s \in Requests |-> requests[s]]
  BY AtHand, RowFacts DEF AccountsInv, RequestsFit
<1>1. CodesOK /\ CodesGrow
  BY AtHand, CodeSteps, ProfileSteps, Enrolling DEF Reading
<1>2. PICK q : /\ requests' = [requests EXCEPT ![r] = q]
               /\ q.at \in {"logging", "done"}
               /\ q.at = "logging" => Committing(r) /\ created' = NextCreated(r)
                                     /\ created[r] = 0
  <2>1. [requests[r] EXCEPT !.at = "logging"].at = "logging"
    BY <1>0 DEF Request
  <2>2. CASE Committing(r) /\ stage[r] = "sending"
    BY <1>1, <2>1, <2>2 DEF Committing, Resumes, CodesOK
  <2>3. CASE ~(Committing(r) /\ stage[r] = "sending")
    BY <1>0, <2>3 DEF Committing, Enroll, LogIssued, Ends, Resumes
  <2> QED
    BY <2>2, <2>3
<1>3. \A s \in Requests : \/ requests'[s] = requests[s]
                          \/ s = r /\ requests'[s].at \in {"logging", "done"}
  BY <1>0, <1>2
<1>4. \A s \in Requests : requests'[s].at = "logging" =>
        requests[s].at = "logging" \/ (s = r /\ q.at = "logging")
  BY <1>0, <1>2
<1>5. \A i \in Requests : log'[i] # "none" => log[i] # "none" \/ i \in Created
  BY <1>1 DEF Committing, Enroll, LogIssued, Ends, Resumes, CodesOK, Numbered
<1>6. \A i \in Requests : log'[i] = "used" => log[i] = "used"
  BY <1>1 DEF Committing, Enroll, LogIssued, CodesOK
<1>7. Counted'
  <2>1. \A s \in Requests : requests'[s].at \in InFlight =>
          requests[s].at \in InFlight /\ requests'[s].user = requests[s].user
    BY <1>3 DEF InFlight
  <2> QED
    BY <1>1, <1>6, <2>1, QuietCount
<1>8. CASE created' = created /\ q.at # "logging"
  BY <1>4, <1>5, <1>7, <1>8, NumbersStay
<1>9. CASE created' = NextCreated(r) /\ created[r] = 0
  <2>1. /\ Created' = Created \cup {r}
        /\ \A i \in Requests : created'[i] <= Cardinality(Created')
        /\ \A i, j \in Created' : created'[i] = created'[j] => i = j
    BY <1>1, <1>9, NumbersApart
  <2> QED
    BY <1>4, <1>5, <1>7, <2>1 DEF Numbered
<1>10. created' = created \/ (created' = NextCreated(r) /\ created[r] = 0)
  <2>1. CASE Committing(r)
    BY <1>1, <2>1 DEF Committing, CodesOK
  <2>2. CASE Enroll(r)
    BY <1>1, <2>2 DEF Enroll, CodesOK, Store!Open, Store!Mint
  <2>3. CASE LogIssued(r)
    BY <2>3 DEF LogIssued, codes
  <2> QED
    BY <2>1, <2>2, <2>3
<1> QED
  BY <1>2, <1>7, <1>8, <1>9, <1>10

\* A request that goes on with a code it used, and a code that lapses.
LEMMA GoesOnCounted ==
    ASSUME AccountsInv, Numbered, Counted, NEW r \in Requests,
           Fetch(r) \/ Enable(r) \/ Lapse(r)
    PROVE  Numbered' /\ Counted'
<1>0. /\ requests[r] \in Request /\ Done.at = "done"
      /\ requests = [s \in Requests |-> requests[s]]
  BY AtHand, RowFacts DEF AccountsInv, RequestsFit
<1>1. CodesGrow /\ UNCHANGED <<created, log>>
  <2>1. CASE Fetch(r) \/ Enable(r)
    BY <2>1 DEF Fetch, Enable, codes, CodesGrow
  <2>2. CASE Lapse(r)
    BY <2>2, FailSteps DEF Reading, Lapse
  <2> QED
    BY <2>1, <2>2
<1>2. \A s \in Requests :
        \/ requests'[s] = requests[s]
        \/ requests'[s].at = "done"
        \/ /\ requests'[s].at \in {"enabling", "recording"}
           /\ requests[s].at \in InFlight /\ requests'[s].user = requests[s].user
  <2>1. CASE Fetch(r)
    <3> DEFINE old == requests[r]
               row == IF carried[old.code].method = "TOTP" THEN old.seen
                      ELSE users[old.user]
               w == WithContact(row, carried[old.code])
               p == [old EXCEPT !.at = "enabling", !.seen = row, !.want = w]
    <3>0. requests' = [requests EXCEPT ![r] = p]
      BY <2>1 DEF Fetch, Resumes
    <3> HIDE DEF w, row
    <3>1. p.at = "enabling" /\ p.user = requests[r].user
      BY <1>0 DEF Request
    <3> HIDE DEF p
    <3> QED
      BY <1>0, <2>1, <3>0, <3>1 DEF Fetch, Resumes, InFlight
  <2>2. CASE Enable(r)
    <3>1. PICK q : /\ requests' = [requests EXCEPT ![r] = q]
                   /\ q = Done \/ (q.at = "recording" /\ q.user = requests[r].user)
      BY <1>0, <2>2 DEF Enable, Ends, Resumes, Request
    <3> QED
      BY <1>0, <2>2, <3>1 DEF Enable, InFlight
  <2>3. CASE Lapse(r)
    BY <2>3 DEF Lapse
  <2> QED
    BY <2>1, <2>2, <2>3
<1>3. Numbered'
  BY <1>1, <1>2, NumbersStay
<1>4. \A s \in Requests : requests'[s].at \in InFlight =>
        requests[s].at \in InFlight /\ requests'[s].user = requests[s].user
  BY <1>2 DEF InFlight
<1>5. Counted'
  BY <1>1, <1>4, QuietCount
<1> QED
  BY <1>3, <1>5

\* A code is used: one more may come to be on record, and one more was.
LEMMA UseCounted ==
    ASSUME AccountsInv, Counted, CodesGrow, UNCHANGED <<flow, log>>,
           NEW r \in Requests, NEW q, requests' = [requests EXCEPT ![r] = q],
           NEW c \in Requests, stage[c] = "live", stage'[c] = "spent",
           requests[r].at \notin InFlight, q.user = flow[c]
    PROVE  Counted'
<1> SUFFICES ASSUME NEW u \in Users
             PROVE  Cardinality(OnRecord(u)') + Cardinality(Unrecorded(u)') <= Cardinality(Used(u)')
  BY DEF Counted
<1>0. requests = [s \in Requests |-> requests[s]]
  BY DEF AccountsInv, RequestsFit
<1>1. Cardinality(OnRecord(u)) + Cardinality(Unrecorded(u)) <= Cardinality(Used(u))
  BY DEF Counted
<1>2. /\ OnRecord(u)' = OnRecord(u) /\ Used(u) \subseteq Used(u)'
      /\ c \notin Used(u) /\ r \notin Unrecorded(u)
      /\ flow[c] = u => c \in Used(u)'
  BY DEF OnRecord, Used, Unrecorded, CodesGrow
<1>3. /\ Unrecorded(u)' \subseteq Unrecorded(u) \cup {r}
      /\ flow[c] # u => Unrecorded(u)' \subseteq Unrecorded(u)
  BY <1>0 DEF Unrecorded
<1>4. /\ OnRecord(u) \in SUBSET Requests /\ Unrecorded(u) \in SUBSET Requests
      /\ Used(u)' \in SUBSET Requests /\ Used(u) \in SUBSET Requests
      /\ Unrecorded(u)' \in SUBSET Requests
      /\ Used(u) \cup {c} \in SUBSET Requests /\ Unrecorded(u) \cup {r} \in SUBSET Requests
  BY DEF OnRecord, Unrecorded, Used
<1>5. /\ Cardinality(OnRecord(u)) \in Nat /\ Cardinality(Unrecorded(u)) \in Nat
      /\ Cardinality(Used(u)) \in Nat /\ Cardinality(Used(u)') \in Nat
      /\ Cardinality(Unrecorded(u)') \in Nat
  BY <1>4, Finite
<1>6. CASE flow[c] = u
  <2>1. /\ Cardinality(Used(u) \cup {c}) = Cardinality(Used(u)) + 1
        /\ Cardinality(Unrecorded(u) \cup {r}) = Cardinality(Unrecorded(u)) + 1
    BY <1>2, <1>4, Finite, FS_AddElement
  <2>2. /\ Cardinality(Used(u) \cup {c}) <= Cardinality(Used(u)')
        /\ Cardinality(Unrecorded(u)') <= Cardinality(Unrecorded(u) \cup {r})
    <3>1. Used(u) \cup {c} \subseteq Used(u)'
      BY <1>2, <1>6
    <3> QED
      BY <1>3, <1>4, <3>1, Finite, FS_Subset
  <2> QED
    BY <1>1, <1>2, <1>5, <2>1, <2>2
<1>7. CASE flow[c] # u
  <2>1. /\ Cardinality(Used(u)) <= Cardinality(Used(u)')
        /\ Cardinality(Unrecorded(u)') <= Cardinality(Unrecorded(u))
    BY <1>2, <1>3, <1>4, <1>7, Finite, FS_Subset
  <2> QED
    BY <1>1, <1>2, <1>5, <2>1
<1> QED
  BY <1>6, <1>7

LEMMA UsesKeep ==
    ASSUME AccountsInv, Numbered, Counted, NEW r \in Requests,
           (\E i \in Requests, u \in Users : Submit(r, i, u)) \/ Prove(r)
    PROVE  Numbered' /\ Counted'
<1>0. /\ requests[r] \in Request /\ Fresh \in Request /\ Fresh.at = "new" /\ CodesOK
      /\ requests = [s \in Requests |-> requests[s]] /\ Fits(r, requests[r])
  BY AtHand, RowFacts DEF AccountsInv, RequestsFit
<1>1. ASSUME NEW c \in Requests, NEW q, Store!Spend(c, {}), CodesGrow,
             requests' = [requests EXCEPT ![r] = q], q.at = "confirming",
             q.user = flow[c], requests[r].at \notin InFlight,
             UNCHANGED <<created, log>>
      PROVE  Numbered' /\ Counted'
  <2>1. stage[c] = "live" /\ stage'[c] = "spent" /\ UNCHANGED flow
    BY <1>0, <1>1 DEF Store!Spend, Store!Move, Store!Lapse, CodesOK, Store!TypeOK
  <2>2. \A s \in Requests : requests'[s].at = "logging" => requests[s].at = "logging"
    BY <1>0, <1>1
  <2> QED
    BY <1>1, <2>1, <2>2, NumbersStay, UseCounted
<1>2. ASSUME NEW i \in Requests, NEW u \in Users, Submit(r, i, u)
      PROVE  Numbered' /\ Counted'
  <2>0. CodesGrow
    BY <1>2, SubmitSteps DEF Reading
  <2>1. CASE carried[i].method = "TOTP"
    <3>1. PICK q : q = [Fresh EXCEPT !.user = u, !.code = i, !.at = "checking",
                                     !.seen = users[u]]
      OBVIOUS
    <3>2. q.at = "checking" /\ requests' = [requests EXCEPT ![r] = q]
      BY <1>2, <2>1, <3>1 DEF Submit, Enters, Fresh
    <3>3. Apart(r)
      BY <1>2, <2>0, <2>1, <3>2 DEF Submit, Apart, InFlight
    <3> QED
      BY <3>3, ApartKeeps
  <2>2. CASE carried[i].method # "TOTP"
    <3>1. PICK q : q = [Fresh EXCEPT !.user = u, !.code = i, !.at = "confirming"]
      OBVIOUS
    <3>2. q.at = "confirming" /\ q.user = u /\ requests' = [requests EXCEPT ![r] = q]
      BY <1>2, <2>2, <3>1 DEF Submit, Enters, Fresh
    <3>3. /\ Store!Spend(i, {}) /\ flow[i] = u /\ UNCHANGED <<created, log>>
          /\ requests[r].at \notin InFlight
      BY <1>0, <1>2, <2>2 DEF Submit, Enters, InFlight
    <3> QED
      BY <1>1, <2>0, <3>2, <3>3
  <2> QED
    BY <2>1, <2>2
<1>3. CASE Prove(r)
  <2>1. PICK q : q = [requests[r] EXCEPT !.at = "confirming"]
    OBVIOUS
  <2>2. /\ q.at = "confirming" /\ q.user = requests[r].user
        /\ requests[r].at = "checking" /\ requests' = [requests EXCEPT ![r] = q]
        /\ Store!Spend(requests[r].code, {}) /\ UNCHANGED <<created, log>>
    BY <1>0, <1>3, <2>1 DEF Prove, Resumes, Request
  <2>3. /\ requests[r].code \in Requests /\ flow[requests[r].code] = requests[r].user
        /\ CodesGrow /\ requests[r].at \notin InFlight
    BY <1>0, <1>3, <2>2, ConfirmSteps DEF Fits, Reading, InFlight
  <2> QED
    BY <1>1, <2>2, <2>3
<1> QED
  BY <1>2, <1>3

\* audit.consumed marks one row of the user whose code was used, or none.
LEMMA RecordKeeps ==
    ASSUME AccountsInv, Numbered, Counted, NEW r \in Requests, Record(r)
    PROVE  Numbered' /\ Counted'
<1> DEFINE w == requests[r].user
           N == Newest(Unused(w))
<1>0. /\ requests[r].at = "recording" /\ Done.at = "done" /\ CodesOK /\ CodesGrow
      /\ requests = [s \in Requests |-> requests[s]]
      /\ requests' = [requests EXCEPT ![r] = Done]
      /\ UNCHANGED <<stage, flow, created>>
      /\ log' \in {log, [i \in Requests |-> IF i \in N THEN "used" ELSE log[i]]}
  BY AtHand, RowFacts, ProfileSteps
  DEF AccountsInv, RequestsFit, Record, Ends, Resumes, codes, Reading
<1> HIDE DEF w
<1>1. /\ N \subseteq {i \in Requests : log[i] = "unused" /\ flow[i] = w}
      /\ N \subseteq Created
      /\ \A i, j \in N : i = j
  <2>1. \A i \in N : /\ i \in Requests /\ log[i] = "unused" /\ flow[i] = w
                     /\ \A j \in N : created[j] <= created[i]
    BY DEF Newest, Unused
  <2>2. N \subseteq Created
    BY <2>1 DEF Numbered
  <2>3. \A i \in Created : created[i] \in Nat
    BY <1>0 DEF CodesOK, Created
  <2> HIDE DEF N
  <2>4. ASSUME NEW i \in N, NEW j \in N PROVE i = j
    <3>1. created[i] = created[j]
      BY <2>1, <2>2, <2>3
    <3> QED
      BY <2>2, <3>1 DEF Numbered
  <2> QED
    BY <2>1, <2>2, <2>4
<1> HIDE DEF N
<1>2. \A s \in Requests : requests'[s] = requests[s] \/ (s = r /\ requests'[s].at = "done")
  BY <1>0
<1>3. Numbered'
  <2>1. \A i \in Requests : log'[i] # "none" => log[i] # "none" \/ i \in Created
    BY <1>0, <1>1
  <2> QED
    BY <1>0, <1>2, <2>1, NumbersStay
<1>4. CASE log' = log
  <2>1. \A s \in Requests : requests'[s].at \in InFlight =>
          requests[s].at \in InFlight /\ requests'[s].user = requests[s].user
    BY <1>2 DEF InFlight
  <2> QED
    BY <1>0, <1>3, <1>4, <2>1, QuietCount
<1>5. CASE log' = [i \in Requests |-> IF i \in N THEN "used" ELSE log[i]]
  <2> SUFFICES ASSUME NEW u \in Users
               PROVE  Cardinality(OnRecord(u)') + Cardinality(Unrecorded(u)')
                        <= Cardinality(Used(u)')
    BY <1>3 DEF Counted
  <2>1. /\ Cardinality(OnRecord(u)) + Cardinality(Unrecorded(u)) <= Cardinality(Used(u))
        /\ Used(u)' = Used(u)
    BY <1>0 DEF Counted, Used
  <2>2. /\ OnRecord(u) \in SUBSET Requests /\ Unrecorded(u) \in SUBSET Requests
        /\ OnRecord(u)' \in SUBSET Requests /\ Unrecorded(u)' \in SUBSET Requests
        /\ Used(u) \in SUBSET Requests
    BY DEF OnRecord, Unrecorded, Used
  <2>3. /\ Cardinality(OnRecord(u)) \in Nat /\ Cardinality(Unrecorded(u)) \in Nat
        /\ Cardinality(OnRecord(u)') \in Nat /\ Cardinality(Unrecorded(u)') \in Nat
        /\ Cardinality(Used(u)) \in Nat
        /\ IsFiniteSet(OnRecord(u)) /\ IsFiniteSet(Unrecorded(u))
    BY <2>2, Finite
  <2>4. CASE u # w
    <3>1. OnRecord(u)' = OnRecord(u) /\ Unrecorded(u)' \subseteq Unrecorded(u)
      BY <1>0, <1>1, <1>2, <1>5, <2>4 DEF OnRecord, Unrecorded, InFlight
    <3>2. Cardinality(Unrecorded(u)') <= Cardinality(Unrecorded(u))
      BY <2>3, <3>1, FS_Subset
    <3> QED
      BY <2>1, <2>3, <3>1, <3>2
  <2>5. CASE u = w
    <3>1. /\ OnRecord(u)' = OnRecord(u) \cup N
          /\ Unrecorded(u)' = Unrecorded(u) \ {r} /\ r \in Unrecorded(u)
      BY <1>0, <1>1, <1>2, <1>5, <2>5 DEF OnRecord, Unrecorded, InFlight, w
    <3>2. Cardinality(Unrecorded(u)') = Cardinality(Unrecorded(u)) - 1
      BY <2>3, <3>1, FS_RemoveElement
    <3>3. Cardinality(OnRecord(u)') <= Cardinality(OnRecord(u)) + 1
      <4>1. CASE N = {}
        BY <2>3, <3>1, <4>1
      <4>2. CASE N # {}
        <5>0. PICK n \in N : TRUE
          BY <4>2
        <5>1. N = {n}
          BY <1>1, <5>0
        <5>2. n \notin OnRecord(u)
          BY <1>1, <5>1 DEF OnRecord
        <5>3. OnRecord(u)' = OnRecord(u) \cup {n}
          BY <3>1, <5>1
        <5>4. Cardinality(OnRecord(u) \cup {n}) = Cardinality(OnRecord(u)) + 1
          BY <2>3, <5>2, FS_AddElement
        <5> QED
          BY <2>3, <5>3, <5>4
      <4> QED
        BY <4>1, <4>2
    <3> QED
      BY <2>1, <2>3, <3>2, <3>3
  <2> QED
    BY <2>4, <2>5
<1> QED
  BY <1>0, <1>4, <1>5

LEMMA InitCounted == Init => Numbered /\ Counted
<1> SUFFICES ASSUME Init PROVE Numbered /\ Counted
  OBVIOUS
<1>1. /\ created = [i \in Requests |-> 0] /\ log = [i \in Requests |-> "none"]
      /\ stage = [i \in Requests |-> "new"] /\ requests = [r \in Requests |-> Fresh]
      /\ Fresh.at = "new"
  BY RowFacts DEF Init, Store!Init
<1>2. Created = {} /\ Cardinality(Created) = 0
  BY <1>1, FS_EmptySet DEF Created
<1>3. \A u \in Users : OnRecord(u) = {} /\ Unrecorded(u) = {} /\ Used(u) = {}
  BY <1>1 DEF OnRecord, Unrecorded, Used, InFlight
<1>4. Numbered
  BY <1>1, <1>2 DEF Numbered
<1>5. Counted
  BY <1>3, FS_EmptySet DEF Counted
<1> QED
  BY <1>4, <1>5

LEMMA StepCounted == AccountsInv /\ Numbered /\ Counted /\ [Next]_vars => Numbered' /\ Counted'
<1> SUFFICES ASSUME AccountsInv, Numbered, Counted, [Next]_vars PROVE Numbered' /\ Counted'
  OBVIOUS
<1>1. CASE UNCHANGED vars
  <2>1. /\ requests' = requests /\ log' = log /\ stage' = stage /\ flow' = flow
        /\ carried' = carried /\ created' = created
    BY <1>1 DEF vars, codes
  <2>2. CodesGrow
    BY <2>1 DEF CodesGrow
  <2> QED
    BY <2>1, <2>2, NumbersStay, QuietCount
<1>2. ASSUME NEW r \in Requests,
             \/ \E n \in Names : Register(r, n)
             \/ RefuseCredential(r)
             \/ \E g \in Identities : Identify(r, g)
             \/ CheckEmail(r) \/ TryName(r) \/ NoPicture(r) \/ StorePicture(r) \/ Undo(r)
      PROVE  Numbered' /\ Counted'
  BY <1>2, EntryApart, ApartKeeps
<1>3. ASSUME NEW r \in Requests,
             \/ Create(r) \/ Enter(r)
             \/ \E u \in Users : Reads(r, u)
             \/ Change(r) \/ Save(r) \/ Disable(r) \/ Fail(r)
      PROVE  Numbered' /\ Counted'
  BY <1>3, RowsApart, ApartKeeps
<1>4. ASSUME NEW r \in Requests,
             \/ \E d \in Emails : Claim(r, "EMAIL", d)
             \/ \E d \in Mobiles : Claim(r, "SMS", d)
             \/ NotSent(r) \/ Clear(r)
      PROVE  Numbered' /\ Counted'
  BY <1>4, CodesApart, ApartKeeps
<1>5. ASSUME NEW r \in Requests,
             \/ Committing(r) \/ Enroll(r) \/ LogIssued(r)
             \/ Fetch(r) \/ Enable(r) \/ Lapse(r) \/ Record(r)
      PROVE  Numbered' /\ Counted'
  BY <1>5, IssuesKeep, GoesOnCounted, RecordKeeps
<1>6. ASSUME NEW r \in Requests,
             (\E i \in Requests, u \in Users : Submit(r, i, u)) \/ Prove(r)
      PROVE  Numbered' /\ Counted'
  BY <1>6, UsesKeep
<1> QED
  BY <1>1, <1>2, <1>3, <1>4, <1>5, <1>6 DEF Next, Over

\* OTP_LOG, whose writes may fail and come in any order, shows no more of an account's
\* codes as used than the account has used.
THEOREM UsesAreRecorded == Spec => []UsesAreReal
<1>1. AccountsInv /\ Counted => UsesAreReal
  <2> SUFFICES ASSUME AccountsInv, Counted, NEW u \in Users
               PROVE  Cardinality(OnRecord(u)) <= Cardinality(Used(u))
    BY DEF UsesAreReal, OnRecord, Used
  <2>1. /\ OnRecord(u) \in SUBSET Requests /\ Unrecorded(u) \in SUBSET Requests
        /\ Used(u) \in SUBSET Requests
    BY DEF OnRecord, Unrecorded, Used
  <2>2. /\ Cardinality(OnRecord(u)) \in Nat /\ Cardinality(Unrecorded(u)) \in Nat
        /\ Cardinality(Used(u)) \in Nat
    BY <2>1, Finite
  <2> QED
    BY <2>2 DEF Counted
<1> QED
  BY <1>1, Invariance, InitCounted, StepCounted, PTL DEF Spec

-------------------------------------------------------------------------------
\* The store of codes, as all of this uses it.

\* A step that the store of codes takes, or one it does not notice.
StoreMoves == [Store!Next]_(Store!vars)

LEMMA StoreDrops ==
    ASSUME NEW gone \in SUBSET Store!Held, Store!Drop(gone) PROVE StoreMoves
  BY DEF StoreMoves, Store!Next

LEMMA StoreSpends ==
    ASSUME NEW i \in Requests, Store!Spend(i, {}) PROVE StoreMoves
<1>1. {} \in SUBSET Store!Held
  OBVIOUS
<1> QED
  BY <1>1 DEF StoreMoves, Store!Next

\* A code is minted for the user whose request it is.
LEMMA StoreMints ==
    ASSUME AccountsInv, NEW r \in Requests,
           \/ \E d \in Emails : Claim(r, "EMAIL", d)
           \/ \E d \in Mobiles : Claim(r, "SMS", d)
           \/ Enroll(r)
    PROVE  StoreMoves
<1> DEFINE u == requests[r].user
<1>1. /\ requests[r].at = "deciding"
      /\ \/ Store!StartSending(r, u, {})
         \/ Store!Open(r, u, Store!LiveIn(u))
  BY DEF Claim, Enroll, Ends, Resumes
<1>2. u \in Users
  BY <1>1, AtHand DEF Signed
<1>3. {} \in SUBSET Store!Held /\ Store!LiveIn(u) \in SUBSET Store!Held
  BY DEF Store!LiveIn, Store!Held
<1> QED
  BY <1>1, <1>2, <1>3 DEF StoreMoves, Store!Next

\* The message is on its way, or not.
LEMMA StoreAnswers ==
    ASSUME NEW r \in Requests, Committing(r) \/ NotSent(r) PROVE StoreMoves
<1>1. \/ Store!Install(r, Store!LiveIn(requests[r].user)) /\ stage[r] = "sending"
      \/ Store!Drop({r} \cap Store!Held)
      \/ UNCHANGED <<stage, flow>>
  BY DEF Committing, NotSent
<1>2. \A u : Store!LiveIn(u) \in SUBSET Store!Held
  BY DEF Store!LiveIn, Store!Held
<1> QED
  BY <1>1, <1>2, StoreDrops DEF StoreMoves, Store!Next, Store!vars

\* A code is entered, or its user is done with it.
LEMMA StoreUses ==
    ASSUME AccountsInv, NEW r \in Requests,
           \/ \E i \in Requests, u \in Users : Submit(r, i, u)
           \/ Prove(r) \/ Clear(r) \/ Lapse(r)
    PROVE  StoreMoves
<1>1. ASSUME NEW i \in Requests, NEW u \in Users, Submit(r, i, u) PROVE StoreMoves
  <2>1. Store!Spend(i, {}) \/ UNCHANGED <<stage, flow>>
    BY <1>1 DEF Submit
  <2> QED
    BY <2>1, StoreSpends DEF StoreMoves, Store!vars
<1>2. CASE Prove(r)
  <2>1. requests[r].at = "checking" /\ Store!Spend(requests[r].code, {})
    BY <1>2 DEF Prove, Resumes
  <2>2. requests[r].code \in Requests
    BY <2>1, AtHand DEF Fits
  <2> QED
    BY <2>1, <2>2, StoreSpends
<1>3. CASE Clear(r) \/ Lapse(r)
  <2>1. \A u : Store!LiveIn(u) \in SUBSET Store!Held
    BY DEF Store!LiveIn, Store!Held
  <2>2. \E gone \in SUBSET Store!Held : Store!Drop(gone)
    BY <1>3, <2>1 DEF Clear, Lapse
  <2> QED
    BY <2>2, StoreDrops
<1> QED
  BY <1>1, <1>2, <1>3

LEMMA EveryStepMoves ==
    ASSUME AccountsInv, [Next]_vars PROVE StoreMoves
<1>1. CASE UNCHANGED codes
  BY <1>1 DEF StoreMoves, Store!vars, codes
<1>2. CASE UNCHANGED vars
  BY <1>1, <1>2 DEF vars
<1>3. ASSUME NEW r \in Requests,
             \/ \E n \in Names : Register(r, n)
             \/ RefuseCredential(r)
             \/ \E g \in Identities : Identify(r, g)
             \/ CheckEmail(r) \/ TryName(r) \/ NoPicture(r) \/ StorePicture(r)
             \/ Create(r) \/ Undo(r) \/ Enter(r)
      PROVE  UNCHANGED codes
  BY <1>3 DEF Register, RefuseCredential, Identify, CheckEmail, TryName, NoPicture,
     StorePicture, Create, Inserted, Undo, Enter
<1>4. ASSUME NEW r \in Requests,
             \/ \E u \in Users : Reads(r, u)
             \/ Change(r) \/ Save(r) \/ LogIssued(r) \/ Disable(r)
             \/ Fetch(r) \/ Enable(r) \/ Record(r) \/ Fail(r)
      PROVE  UNCHANGED codes
  BY <1>4 DEF Reads, Change, Save, LogIssued, Disable, Fetch, Enable, Record, Fail
<1>5. ASSUME NEW r \in Requests,
             \/ \E d \in Emails : Claim(r, "EMAIL", d)
             \/ \E d \in Mobiles : Claim(r, "SMS", d)
             \/ Enroll(r)
      PROVE  StoreMoves
  BY <1>5, StoreMints
<1>6. ASSUME NEW r \in Requests, Committing(r) \/ NotSent(r) PROVE StoreMoves
  BY <1>6, StoreAnswers
<1>7. ASSUME NEW r \in Requests,
             \/ \E i \in Requests, u \in Users : Submit(r, i, u)
             \/ Prove(r) \/ Clear(r) \/ Lapse(r)
      PROVE  StoreMoves
  BY <1>7, StoreUses
<1> QED
  BY <1>1, <1>2, <1>3, <1>4, <1>5, <1>6, <1>7 DEF Next, Over

\* Every request of this module moves codes the way CodeLifecycle allows, and so what
\* OtpService is proved to promise is all that contacts and settings rely on.
THEOREM AccountsKeepThePromise == Spec => Store!Spec
<1>1. Init => Store!Init
  BY DEF Init
<1>2. AccountsInv /\ [Next]_vars => [Store!Next]_(Store!vars)
  BY EveryStepMoves DEF StoreMoves
<1> QED
  BY <1>1, <1>2, Invariance, PTL DEF Spec, Store!Spec

\* A user never has two live contact codes, and a code that was spent or has died stays
\* so: what CodeLifecycle is proved to promise holds of these requests too.
COROLLARY ContactCodesAreSingleUse == Spec => []Store!OneLivePerFlow /\ Store!NoReturn
  BY AccountsKeepThePromise, Store!LiveCodesAreUnique, Store!CodesNeverReturn
===============================================================================

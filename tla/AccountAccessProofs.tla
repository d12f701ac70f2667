-------------------------- MODULE AccountAccessProofs --------------------------
(***************************************************************************)
(* What the overlapping requests of AccountAccess cannot do, for any       *)
(* number of codes, accounts and requests: use a code twice, go on with    *)
(* one that was replaced, or survive the end of a reset.                   *)
(***************************************************************************)
EXTENDS AccountAccess, FiniteSetTheorems, TLAPS

\* A code that a switch starts at is a sign-in code of the same user.
From(q) ==
    q.from # None => /\ q.purpose = "login" /\ stage[q.from] # "new"
                     /\ flow[q.from] = <<q.user, "login">>
\* The code a request is about was minted for its user and purpose.
About(q) ==
    /\ q.code \in Ids /\ q.purpose \in Purposes
    /\ stage[q.code] # "new" /\ flow[q.code] = <<q.user, q.purpose>>

\* What a request is about, at each await.
Knows(q) ==
    /\ q \in Request /\ Shaped(q)
    /\ q.at = "deciding" => q.purpose = "login" /\ From(q)
    /\ q.at = "sending" => About(q) /\ From(q) /\ supersedes[q.code] = q.from
    /\ q.at \in {"reading", "checking", "signing"} => About(q)
    /\ q.at \in {"checking", "signing"} => stage[q.code] = "spent"
    /\ q.at = "signing" => q.purpose = "login"

Known ==
    /\ requests \in [Requests -> Request]
    /\ \A r \in Requests : Knows(requests[r])
Minted ==
    /\ Store!TypeOK
    /\ \A i \in Ids : stage[i] # "new" => flow[i] \in Flows
Tables ==
    /\ account \in [Users -> Row]
    /\ authorizations \subseteq Authorization
    /\ proof \in [Ids -> Nat] /\ opened \in [Ids -> Nat] /\ sessions \in [Ids -> Nat]
    /\ supersedes \in [Ids -> Ids \cup {None}]
    /\ finished \in [Users -> Nat]
Basic == Minted /\ Tables /\ Known

\* Codes are minted once, and what is over is over.
Grows ==
    /\ Minted'
    /\ \A i \in Ids :
         /\ stage[i] # "new" => /\ stage'[i] # "new" /\ flow'[i] = flow[i]
                               /\ supersedes'[i] = supersedes[i]
         /\ stage[i] \in {"spent", "dead"} => stage'[i] = stage[i]

LEMMA IdleKnows == Knows(Idle)
  BY DEF Knows, Shaped, Idle, Request, Steps

\* Requests that do not move still know what they knew.
LEMMA StillKnows ==
    ASSUME Basic, Grows, NEW q, Knows(q) PROVE Knows(q)'
<1>1. q.from # None => q.from \in Ids
  BY DEF Knows, Request
<1>2. From(q) => From(q)'
  BY <1>1 DEF From, Grows
<1>3. About(q) => About(q)' /\ supersedes'[q.code] = supersedes[q.code]
                 /\ (stage[q.code] = "spent" => stage'[q.code] = "spent")
  BY DEF About, Grows
<1> QED
  BY <1>2, <1>3 DEF Knows

LEMMA MovesKnown ==
    ASSUME Basic, Grows, NEW r \in Requests, NEW q, Knows(q)',
           requests' = [requests EXCEPT ![r] = q]
    PROVE  Known'
<1>0. q \in Request
  BY DEF Knows
<1>1. requests' \in [Requests -> Request]
  BY <1>0 DEF Basic, Known
<1>2. ASSUME NEW s \in Requests PROVE Knows(requests[s])'
  <2>1. CASE s = r
    <3>1. requests'[s] = q
      BY <2>1 DEF Basic, Known
    <3> QED
      BY <3>1
  <2>2. CASE s # r
    <3>1. PICK p : p = requests[s]
      OBVIOUS
    <3>2. Knows(p) /\ requests'[s] = p
      BY <2>2, <3>1 DEF Basic, Known
    <3>3. Knows(p)'
      BY <3>2, StillKnows
    <3> QED
      BY <3>2, <3>3
  <2> QED
    BY <2>1, <2>2
<1> QED
  BY <1>1, <1>2 DEF Known

-------------------------------------------------------------------------------
\* What becomes of codes.

LEMMA CodesStay ==
    ASSUME Minted, UNCHANGED <<codes, supersedes>> PROVE Grows
  BY DEF Minted, Grows, codes, Store!TypeOK

LEMMA Dropping ==
    ASSUME Minted, NEW gone \in SUBSET Store!Held, Store!Drop(gone), UNCHANGED supersedes
    PROVE  Grows /\ \A i \in Ids : stage'[i] \in {stage[i], "dead"}
  BY DEF Minted, Grows, Store!TypeOK, Store!Drop, Store!Lapse, Store!Held, Store!Stages

LEMMA Spending ==
    ASSUME Minted, NEW c \in Ids, Store!Spend(c, {}), UNCHANGED supersedes
    PROVE  /\ Grows /\ stage[c] = "live" /\ stage'[c] = "spent" /\ UNCHANGED flow
           /\ \A i \in Ids \ {c} : stage'[i] = stage[i]
  BY DEF Minted, Grows, Store!TypeOK, Store!Spend, Store!Move, Store!Lapse, Store!Stages

LEMMA Minting ==
    ASSUME Minted, NEW i \in Ids, NEW f \in Flows, NEW gone \in SUBSET Store!Held,
           NEW to \in {"sending", "live", "dead"}, Store!Mint(i, f), Store!Move(i, to, gone),
           \A j \in Ids \ {i} : supersedes'[j] = supersedes[j]
    PROVE  /\ Grows /\ stage[i] = "new" /\ stage'[i] = to /\ flow'[i] = f
           /\ \A j \in Ids \ {i} : /\ stage'[j] = IF j \in gone THEN "dead" ELSE stage[j]
                                  /\ flow'[j] = flow[j]
<1>1. /\ stage[i] = "new" /\ flow' = [flow EXCEPT ![i] = f]
      /\ stage' = [Store!Lapse(gone) EXCEPT ![i] = to]
  BY DEF Store!Mint, Store!Move
<1>2. /\ stage' \in [Ids -> Store!Stages] /\ stage'[i] = to
      /\ \A j \in Ids \ {i} : stage'[j] = IF j \in gone THEN "dead" ELSE stage[j]
      /\ \A j \in gone : stage[j] \in {"sending", "live"}
  BY <1>1 DEF Minted, Store!TypeOK, Store!Lapse, Store!Stages, Store!Held
<1>3. /\ flow' \in [Ids -> Flows \cup {None}] /\ flow'[i] = f
      /\ \A j \in Ids \ {i} : flow'[j] = flow[j]
  BY <1>1 DEF Minted, Store!TypeOK
<1> QED
  BY <1>1, <1>2, <1>3 DEF Minted, Grows, Store!TypeOK

LEMMA Installing ==
    ASSUME Minted, NEW c \in Ids, Store!Install(c, Store!LiveIn(flow[c])), UNCHANGED supersedes
    PROVE  /\ Grows /\ stage[c] = "sending" /\ stage'[c] = "live" /\ UNCHANGED flow
           /\ \A j \in Ids \ {c} :
                stage'[j] = IF stage[j] = "live" /\ flow[j] = flow[c] THEN "dead" ELSE stage[j]
  BY DEF Minted, Grows, Store!TypeOK, Store!Install, Store!Move, Store!Lapse, Store!LiveIn,
     Store!Stages

-------------------------------------------------------------------------------
\* The kinds of steps there are, for what is said of codes and passwords.

\* A request has used a code, and not yet said what for; it may replace a password.
Using == {"checking", "signing"}

\* No code opens and none is used, and nothing is written that counts.
Calm ==
    /\ Grows /\ UNCHANGED <<opened, sessions, finished>>
    /\ authorizations' \subseteq authorizations
    /\ \A u \in Users : account'[u].password = account[u].password
    /\ \A i \in Ids : stage'[i] \in {"live", "spent"} => stage'[i] = stage[i]
    /\ \A r \in Requests : requests'[r].at \in Using \cup {"replacing"} =>
         \/ requests'[r] = requests[r]
         \/ /\ requests'[r].at = "signing" /\ requests[r].at = "checking"
            /\ requests'[r].code = requests[r].code

\* A code becomes live in place of the one of its flow.
Opens(i) ==
    /\ Grows /\ stage[i] \in {"new", "sending"} /\ stage'[i] = "live" /\ flow'[i] \in Flows
    /\ supersedes'[i] # None =>
         /\ supersedes'[i] \in Ids /\ stage[supersedes'[i]] = "live"
         /\ flow[supersedes'[i]] = flow'[i]
    /\ \A j \in Ids \ {i} :
         stage'[j] = IF stage[j] = "live" /\ flow[j] = flow'[i] THEN "dead" ELSE stage[j]
    /\ opened' = [opened EXCEPT ![i] = finished[flow'[i][1]]]
    /\ UNCHANGED <<account, authorizations, sessions, finished>>
    /\ \E r \in Requests : requests' = [requests EXCEPT ![r] = Idle]

\* A code is used.
Uses(r, c) ==
    /\ Grows /\ stage[c] = "live" /\ stage'[c] = "spent" /\ UNCHANGED flow
    /\ \A i \in Ids \ {c} : stage'[i] = stage[i]
    /\ UNCHANGED <<account, authorizations, opened, sessions, finished>>
    /\ requests[r].at \notin Using \cup {"replacing"}
    /\ \E q : /\ requests' = [requests EXCEPT ![r] = q]
              /\ q.at = "checking" /\ q.code = c /\ Knows(q)'

Kinds == Calm \/ (\E i \in Ids : Opens(i)) \/ (\E r \in Requests, c \in Ids : Uses(r, c))

\* A request moves on without a code becoming live or used.
LEMMA MovesCalm ==
    ASSUME Basic, Grows, Tables', NEW r \in Requests, NEW q, Knows(q)',
           requests' = [requests EXCEPT ![r] = q],
           \/ q.at \notin Using \cup {"replacing"}
           \/ q.at = "signing" /\ requests[r].at = "checking" /\ q.code = requests[r].code,
           UNCHANGED <<opened, sessions, finished>>, authorizations' \subseteq authorizations,
           \A u \in Users : account'[u].password = account[u].password,
           \A i \in Ids : stage'[i] \in {"live", "spent"} => stage'[i] = stage[i]
    PROVE  Basic' /\ Calm
<1>1. Known'
  BY MovesKnown
<1>2. \A s \in Requests : requests'[s] = IF s = r THEN q ELSE requests[s]
  BY DEF Basic, Known
<1>3. Basic'
  BY <1>1 DEF Basic, Grows
<1>4. Calm
  BY <1>2 DEF Calm
<1> QED
  BY <1>3, <1>4

\* The same, when rows and codes stay.
LEMMA MovesOnly ==
    ASSUME Basic, UNCHANGED <<codes, account, authorizations, ghosts>>,
           NEW r \in Requests, NEW q, Knows(q),
           requests' = [requests EXCEPT ![r] = q],
           \/ q.at \notin Using \cup {"replacing"}
           \/ q.at = "signing" /\ requests[r].at = "checking" /\ q.code = requests[r].code
    PROVE  Basic' /\ Calm
<1>1. Grows
  BY CodesStay DEF Basic, ghosts
<1>2. Knows(q)'
  BY <1>1, StillKnows
<1>3. Tables' /\ UNCHANGED <<opened, sessions, finished, stage>>
  BY DEF Basic, Tables, ghosts, codes
<1> QED
  BY <1>1, <1>2, <1>3, MovesCalm

LEMMA AtHand ==
    ASSUME Basic, NEW r \in Requests
    PROVE  /\ requests[r] \in Request /\ Knows(requests[r]) /\ Shaped(requests[r])
           /\ requests[r].at # "idle" => requests[r].user \in Users
           /\ Minted /\ Tables
  BY DEF Basic, Known, Knows, Shaped

\* A request whose handler is done, or never got anywhere.
LEMMA EndsOnly ==
    ASSUME Basic, UNCHANGED <<codes, account, authorizations, ghosts>>,
           NEW r \in Requests, requests' = [requests EXCEPT ![r] = Idle]
    PROVE  Basic' /\ Calm
<1>1. Idle.at \notin Using \cup {"replacing"}
  BY DEF Idle, Using
<1> QED
  BY <1>1, IdleKnows, MovesOnly

-------------------------------------------------------------------------------
\* Codes that are asked for.

\* What a handler has when it asks for a code.
Asks(q) ==
    /\ q \in Request /\ q.user \in Users /\ q.purpose \in Purposes /\ From(q)
    /\ q.purpose = "login" => q.seen \in Row

LEMMA Issuing ==
    ASSUME Basic, NEW q, Asks(q), NEW i \in Ids, Issue(q, i)
    PROVE  /\ proof' \in [Ids -> Nat] /\ supersedes' \in [Ids -> Ids \cup {None}]
           /\ supersedes'[i] = q.from
           /\ \A j \in Ids \ {i} : supersedes'[j] = supersedes[j]
<1>1. q.from \in Ids \cup {None} /\ (q.purpose = "login" => q.seen.password \in Nat)
  BY DEF Asks, Request, Row
<1>2. proof \in [Ids -> Nat] /\ supersedes \in [Ids -> Ids \cup {None}]
  BY DEF Basic, Tables
<1> QED
  BY <1>1, <1>2 DEF Issue

LEMMA SendCodeKeeps ==
    ASSUME Basic, NEW r \in Requests, NEW q, Asks(q), NEW i \in Ids, SendCode(r, q, i)
    PROVE  Basic' /\ Calm
<1>1. /\ Store!Mint(i, <<q.user, q.purpose>>) /\ Store!Move(i, "sending", {})
      /\ Issue(q, i) /\ <<q.user, q.purpose>> \in Flows
      /\ UNCHANGED <<account, authorizations, opened, sessions, finished>>
  BY DEF SendCode, Store!StartSending, Asks, Flows
<1>2. /\ proof' \in [Ids -> Nat] /\ supersedes' \in [Ids -> Ids \cup {None}]
      /\ supersedes'[i] = q.from
      /\ \A j \in Ids \ {i} : supersedes'[j] = supersedes[j]
  BY <1>1, Issuing
<1>3. /\ Grows /\ stage[i] = "new" /\ stage'[i] = "sending"
      /\ flow'[i] = <<q.user, q.purpose>>
      /\ \A j \in Ids \ {i} : stage'[j] = stage[j]
  BY <1>1, <1>2, Minting DEF Basic
<1>4. PICK p : p = [q EXCEPT !.at = "sending", !.code = i, !.seen = None]
  OBVIOUS
<1>5. /\ p \in Request /\ p.at = "sending" /\ p.code = i /\ p.user = q.user
      /\ p.purpose = q.purpose /\ p.from = q.from /\ requests' = [requests EXCEPT ![r] = p]
  BY <1>4 DEF Asks, Request, Steps, SendCode
<1>6. q.from \in Ids \cup {None}
  BY DEF Asks, Request
<1>7. From(p)' /\ About(p)' /\ supersedes'[p.code] = p.from
  BY <1>2, <1>3, <1>5, <1>6 DEF Asks, From, About, Grows
<1>8. Knows(p)'
  BY <1>5, <1>7 DEF Knows, Shaped, Asks
<1>9. Tables'
  BY <1>1, <1>2 DEF Basic, Tables
<1> QED
  BY <1>1, <1>3, <1>5, <1>8, <1>9, MovesCalm DEF Using

LEMMA OpenAppKeeps ==
    ASSUME Basic, NEW r \in Requests, NEW q, Asks(q), NEW i \in Ids, OpenApp(r, q, i)
    PROVE  Basic' /\ Kinds
<1> DEFINE f == <<q.user, q.purpose>>
<1>1. /\ Issue(q, i) /\ f \in Flows
      /\ requests' = [requests EXCEPT ![r] = Idle]
      /\ UNCHANGED <<account, authorizations, sessions, finished>>
  BY DEF OpenApp, Asks, Flows
<1>2. /\ proof' \in [Ids -> Nat] /\ supersedes' \in [Ids -> Ids \cup {None}]
      /\ supersedes'[i] = q.from
      /\ \A j \in Ids \ {i} : supersedes'[j] = supersedes[j]
  BY <1>1, Issuing
<1>3. {} \in SUBSET Store!Held /\ Store!LiveIn(f) \in SUBSET Store!Held
  BY DEF Store!LiveIn, Store!Held
<1>4. CASE Replaceable(q)
  <2>1. /\ Store!Mint(i, f) /\ Store!Move(i, "live", Store!LiveIn(f))
        /\ opened' = [opened EXCEPT ![i] = finished[q.user]]
    BY <1>4 DEF OpenApp, Store!Open
  <2>2. /\ Grows /\ stage[i] = "new" /\ stage'[i] = "live" /\ flow'[i] = f
        /\ \A j \in Ids \ {i} :
             stage'[j] = IF j \in Store!LiveIn(f) THEN "dead" ELSE stage[j]
    BY <1>1, <1>2, <1>3, <2>1, Minting DEF Basic
  <2>3. Tables'
    BY <1>1, <1>2, <2>1 DEF Basic, Tables, Asks
  <2>4. Known'
    BY <1>1, <2>2, IdleKnows, MovesKnown DEF Knows, Shaped, Idle
  <2>5. supersedes'[i] # None =>
          /\ supersedes'[i] \in Ids /\ stage[supersedes'[i]] = "live"
          /\ flow[supersedes'[i]] = flow'[i]
    BY <1>2, <1>4, <2>2 DEF Replaceable, Asks, From
  <2>6. flow'[i] \in Flows /\ flow'[i][1] = q.user
    BY <1>1, <2>2
  <2>7. Opens(i)
    BY <1>1, <2>1, <2>2, <2>5, <2>6 DEF Opens, Store!LiveIn
  <2> QED
    BY <2>2, <2>3, <2>4, <2>7 DEF Kinds, Basic, Grows
<1>5. CASE ~Replaceable(q)
  <2>1. Store!Mint(i, f) /\ Store!Move(i, "dead", {}) /\ UNCHANGED opened
    BY <1>5 DEF OpenApp, Store!Refuse
  <2>2. /\ Grows /\ stage'[i] = "dead"
        /\ \A j \in Ids \ {i} : stage'[j] = stage[j]
    BY <1>1, <1>2, <1>3, <2>1, Minting DEF Basic
  <2>3. Tables'
    BY <1>1, <1>2, <2>1 DEF Basic, Tables
  <2>4. PICK p : p = Idle
    OBVIOUS
  <2>5. Knows(p)' /\ p.at \notin Using \cup {"replacing"}
    BY <2>4, IdleKnows DEF Knows, Shaped, Idle, Using
  <2> QED
    BY <1>1, <2>1, <2>2, <2>3, <2>4, <2>5, MovesCalm DEF Kinds
<1> QED
  BY <1>4, <1>5

\* Both ways to a sign-in code, up to the read.
LEMMA ReadsCalm ==
    ASSUME Basic, NEW r \in Requests, NEW u \in Users, NEW from \in Ids \cup {None},
           ReadsRow(r, u, from),
           from # None => stage[from] # "new" /\ flow[from] = <<u, "login">>
    PROVE  Basic' /\ Calm
<1>1. PICK q : q = [Idle EXCEPT !.at = "deciding", !.user = u, !.purpose = "login",
                                !.from = from, !.seen = account[u]]
  OBVIOUS
<1>2. /\ q.at = "deciding" /\ q.user = u /\ q.purpose = "login" /\ q.from = from
      /\ q.seen = account[u] /\ q.seen \in Row /\ q \in Request
  BY <1>1 DEF Idle, Request, Steps, Purposes, Basic, Tables
<1>3. Knows(q) /\ q.at \notin Using \cup {"replacing"}
  BY <1>2 DEF Knows, Shaped, From, Using
<1>4. /\ requests' = [requests EXCEPT ![r] = q]
      /\ UNCHANGED <<codes, account, authorizations, ghosts>>
  BY <1>1 DEF ReadsRow, Enters
<1> QED
  BY <1>3, <1>4, MovesOnly

LEMMA LoginSteps ==
    ASSUME Basic, NEW r \in Requests,
           \/ \E u \in Users : Login(r, u)
           \/ \E i \in Ids : SwitchMethod(r, i) \/ StartOtpLogin(r, i)
    PROVE  Basic' /\ Kinds
<1>1. ASSUME NEW u \in Users, Login(r, u) PROVE Basic' /\ Kinds
  BY <1>1, ReadsCalm DEF Login, Kinds
<1>2. ASSUME NEW i \in Ids, SwitchMethod(r, i) PROVE Basic' /\ Kinds
  <2>1. stage[i] = "live" /\ flow[i] \in Flows /\ flow[i][2] = "login"
    BY <1>2 DEF SwitchMethod, PurposeOf, Basic, Minted
  <2>2. flow[i][1] \in Users /\ flow[i] = <<flow[i][1], "login">>
    BY <2>1 DEF Flows
  <2> QED
    BY <1>2, <2>1, <2>2, ReadsCalm DEF SwitchMethod, UserOf, Kinds
<1>3. ASSUME NEW i \in Ids, StartOtpLogin(r, i) PROVE Basic' /\ Kinds
  <2>1. requests[r].at = "deciding" /\ Issues(r, requests[r], i)
    BY <1>3 DEF StartOtpLogin
  <2>2. Asks(requests[r])
    BY <2>1, AtHand DEF Knows, Shaped, Asks, Purposes
  <2> QED
    BY <2>1, <2>2, SendCodeKeeps, OpenAppKeeps DEF Issues, Kinds
<1> QED
  BY <1>1, <1>2, <1>3

LEMMA AskSteps ==
    ASSUME Basic, NEW r \in Requests, NEW i \in Ids, NEW u \in Users,
           StartEnable(r, u, i) \/ StartTotpEnroll(r, u, i) \/ RequestRecovery(r, u, i)
    PROVE  Basic' /\ Kinds
<1>1. ASSUME NEW p \in {"verify_contact", "password_reset"}, NEW q,
             q = [Idle EXCEPT !.user = u, !.purpose = p],
             SendCode(r, q, i) \/ OpenApp(r, q, i)
      PROVE  Basic' /\ Kinds
  <2>1. q \in Request /\ q.user = u /\ q.purpose = p /\ q.from = None
    BY <1>1 DEF Idle, Request, Steps, Purposes
  <2>2. Asks(q)
    BY <2>1 DEF Asks, From, Purposes
  <2> QED
    BY <1>1, <2>2, SendCodeKeeps, OpenAppKeeps DEF Kinds
<1> QED
  BY <1>1 DEF StartEnable, StartTotpEnroll, RequestRecovery, Issues

\* A step that drops codes and ends its request.
LEMMA DropsCalm ==
    ASSUME Basic, NEW r \in Requests, NEW gone \in SUBSET Store!Held, Store!Drop(gone),
           requests' = [requests EXCEPT ![r] = Idle],
           UNCHANGED <<account, authorizations, ghosts>>
    PROVE  Basic' /\ Calm
<1>1. Grows /\ \A i \in Ids : stage'[i] \in {stage[i], "dead"}
  BY Dropping DEF Basic, ghosts
<1>2. PICK p : p = Idle
  OBVIOUS
<1>3. Knows(p)' /\ p.at \notin Using \cup {"replacing"}
  BY <1>2, IdleKnows DEF Knows, Shaped, Idle, Using
<1>4. Tables' /\ UNCHANGED <<opened, sessions, finished>>
  BY DEF Basic, Tables, ghosts
<1> QED
  BY <1>1, <1>2, <1>3, <1>4, MovesCalm

LEMMA SentSteps ==
    ASSUME Basic, NEW r \in Requests, Sent(r) \/ NotSent(r)
    PROVE  Basic' /\ Kinds
<1> DEFINE q == requests[r]
           c == q.code
<1>1. /\ q.at = "sending" /\ requests' = [requests EXCEPT ![r] = Idle]
      /\ UNCHANGED <<account, authorizations, proof, supersedes, sessions, finished>>
  BY DEF Sent, NotSent, Ends, ghosts
<1>2. /\ c \in Ids /\ About(q) /\ From(q) /\ supersedes[c] = q.from
      /\ q.user \in Users /\ q.from \in Ids \cup {None} /\ Minted /\ Tables
  BY <1>1, AtHand DEF Knows, About, Request
<1>3. CASE Sent(r) /\ stage[c] = "sending" /\ Replaceable(q)
  <2>1. /\ Store!Install(c, Store!LiveIn(flow[c]))
        /\ opened' = [opened EXCEPT ![c] = finished[q.user]]
    BY <1>3 DEF Sent
  <2>2. /\ Grows /\ stage[c] = "sending" /\ stage'[c] = "live" /\ UNCHANGED flow
        /\ \A j \in Ids \ {c} :
             stage'[j] = IF stage[j] = "live" /\ flow[j] = flow[c] THEN "dead" ELSE stage[j]
    <3> HIDE DEF c
    <3> QED
      BY <1>1, <1>2, <2>1, Installing
  <2>3. Tables'
    BY <1>1, <1>2, <2>1 DEF Tables
  <2>4. Known'
    BY <1>1, <2>2, IdleKnows, MovesKnown DEF Knows, Shaped, Idle
  <2>5. flow'[c] = <<q.user, q.purpose>> /\ flow'[c] \in Flows /\ flow'[c][1] = q.user
    <3>1. flow'[c] = <<q.user, q.purpose>> /\ q.purpose \in Purposes /\ q.user \in Users
      BY <1>2, <2>2 DEF About
    <3> HIDE DEF q, c
    <3> QED
      BY <3>1 DEF Flows
  <2>6. supersedes'[c] # None =>
          /\ supersedes'[c] \in Ids /\ stage[supersedes'[c]] = "live"
          /\ flow[supersedes'[c]] = flow'[c]
    BY <1>1, <1>2, <1>3, <2>5 DEF Replaceable, From
  <2>7. Opens(c)
    BY <1>1, <2>1, <2>2, <2>5, <2>6 DEF Opens
  <2> QED
    BY <1>2, <2>2, <2>3, <2>4, <2>7 DEF Kinds, Basic, Grows
<1>4. CASE ~(Sent(r) /\ stage[c] = "sending" /\ Replaceable(q))
  <2>1. /\ Store!Drop(Held({c})) /\ UNCHANGED ghosts
        /\ Held({c}) \in SUBSET Store!Held
    BY <1>4 DEF Sent, NotSent, ghosts, Held
  <2> QED
    BY <1>1, <2>1, DropsCalm DEF Kinds
<1> QED
  BY <1>3, <1>4

-------------------------------------------------------------------------------
\* Codes that come back.

LEMMA UsesBasic ==
    ASSUME Basic, NEW r \in Requests, NEW c \in Ids, Store!Spend(c, {}),
           NEW q, requests' = [requests EXCEPT ![r] = q],
           q \in Request, Shaped(q), q.at = "checking", q.code = c, About(q),
           requests[r].at \notin Using \cup {"replacing"},
           UNCHANGED <<account, authorizations, ghosts>>
    PROVE  Basic' /\ Uses(r, c)
<1>1. /\ Grows /\ stage[c] = "live" /\ stage'[c] = "spent" /\ UNCHANGED flow
      /\ \A i \in Ids \ {c} : stage'[i] = stage[i]
  BY Spending DEF Basic, ghosts
<1>2. Knows(q)'
  BY <1>1 DEF Knows, Shaped, About
<1>3. Known'
  BY <1>1, <1>2, MovesKnown
<1>4. Tables' /\ UNCHANGED <<opened, sessions, finished>>
  BY DEF Basic, Tables, ghosts
<1> QED
  BY <1>1, <1>2, <1>3, <1>4 DEF Uses, Basic, Grows

LEMMA AnswerSteps ==
    ASSUME Basic, NEW r \in Requests, (\E i \in Ids : Submit(r, i)) \/ VerifyApp(r)
    PROVE  Basic' /\ Kinds
<1>1. ASSUME NEW i \in Ids, Submit(r, i) PROVE Basic' /\ Kinds
  <2>1. stage[i] = "live" /\ flow[i] \in Flows
    BY <1>1 DEF Submit, Basic, Minted
  <2>2. /\ flow[i][1] \in Users /\ flow[i][2] \in Purposes
        /\ flow[i] = <<flow[i][1], flow[i][2]>> /\ account[flow[i][1]] \in Row
    BY <2>1 DEF Flows, Basic, Tables
  <2>3. requests[r].at \notin Using \cup {"replacing"}
    <3>1. requests[r] = Idle
      BY <1>1 DEF Submit, Enters
    <3> QED
      BY <3>1 DEF Idle, Using
  <2>4. CASE i \in Apps
    <3>1. PICK q : q = [Idle EXCEPT !.user = UserOf(i), !.purpose = PurposeOf(i),
                                    !.code = i, !.at = "reading",
                                    !.seen = account[UserOf(i)]]
      OBVIOUS
    <3>2. /\ q \in Request /\ q.at = "reading" /\ q.user = flow[i][1]
          /\ q.purpose = flow[i][2] /\ q.code = i /\ q.seen \in Row
      BY <2>2, <3>1 DEF UserOf, PurposeOf, Idle, Request, Steps
    <3>3. Knows(q) /\ q.at \notin Using \cup {"replacing"}
      BY <2>1, <2>2, <3>2 DEF Knows, Shaped, About, Using
    <3>4. /\ requests' = [requests EXCEPT ![r] = q]
          /\ UNCHANGED <<codes, account, authorizations, ghosts>>
      BY <1>1, <2>4, <3>1 DEF Submit, Enters, Idle
    <3> QED
      BY <3>3, <3>4, MovesOnly DEF Kinds
  <2>5. CASE i \notin Apps
    <3>1. PICK q : q = [Idle EXCEPT !.user = UserOf(i), !.purpose = PurposeOf(i),
                                    !.code = i, !.at = "checking"]
      OBVIOUS
    <3>2. /\ q \in Request /\ q.at = "checking" /\ q.user = flow[i][1]
          /\ q.purpose = flow[i][2] /\ q.code = i
      BY <2>2, <3>1 DEF UserOf, PurposeOf, Idle, Request, Steps
    <3>3. Shaped(q) /\ About(q)
      BY <2>1, <2>2, <2>5, <3>2 DEF Shaped, About
    <3>4. /\ requests' = [requests EXCEPT ![r] = q] /\ Store!Spend(i, {})
          /\ UNCHANGED <<account, authorizations, ghosts>>
      BY <1>1, <2>5, <3>1 DEF Submit, Enters, Idle
    <3> QED
      BY <2>3, <3>2, <3>3, <3>4, UsesBasic DEF Kinds
  <2> QED
    BY <2>4, <2>5
<1>2. CASE VerifyApp(r)
  <2>1. PICK q : q = [requests[r] EXCEPT !.at = "checking"]
    OBVIOUS
  <2>2. /\ requests[r].at = "reading" /\ requests' = [requests EXCEPT ![r] = q]
        /\ Store!Spend(requests[r].code, {}) /\ UNCHANGED <<account, authorizations, ghosts>>
    BY <1>2, <2>1 DEF VerifyApp, Resumes
  <2>3. /\ q \in Request /\ q.at = "checking" /\ q.user = requests[r].user
        /\ q.purpose = requests[r].purpose /\ q.code = requests[r].code
        /\ q.seen = requests[r].seen
    BY <2>1, AtHand DEF Request, Steps
  <2>4. Shaped(q) /\ About(q) /\ q.code \in Ids
    BY <2>2, <2>3, AtHand DEF Knows, Shaped, About
  <2>5. requests[r].at \notin Using \cup {"replacing"}
    BY <2>2 DEF Using
  <2> QED
    BY <2>2, <2>3, <2>4, <2>5, UsesBasic DEF Kinds
<1> QED
  BY <1>1, <1>2

-------------------------------------------------------------------------------
\* What is done with a used code, and with rows.

LEMMA RowOfIs ==
    ASSUME Basic, NEW q, Knows(q), q.at = "checking"
    PROVE  RowOf(q) \in Row
  BY DEF Knows, Shaped, RowOf, Basic, Tables

LEMMA CalmSteps ==
    ASSUME Basic, NEW r \in Requests,
           \/ Check(r) \/ Confirm(r) \/ Enable(r) \/ Disable(r) \/ Clear(r) \/ Fail(r)
           \/ \E u \in Users : TurnOff(r, u)
    PROVE  Basic' /\ Calm
<1> DEFINE old == requests[r]
<1>0. /\ old \in Request /\ Knows(old) /\ Shaped(old) /\ Minted /\ Tables
      /\ old.at # "idle" => old.user \in Users
  BY AtHand
<1>1. CASE Check(r)
  <2>1. PICK q : q = [old EXCEPT !.at = "signing"]
    OBVIOUS
  <2>2. /\ old.at = "checking" /\ old.purpose = "login"
        /\ requests' = [requests EXCEPT ![r] = q]
        /\ UNCHANGED <<codes, account, authorizations, ghosts>>
    BY <1>1, <2>1 DEF Check, Resumes
  <2>3. /\ q \in Request /\ q.at = "signing" /\ q.user = old.user
        /\ q.purpose = old.purpose /\ q.code = old.code
    BY <1>0, <2>1 DEF Request, Steps
  <2>4. Knows(q)
    BY <1>0, <2>2, <2>3 DEF Knows, Shaped, About
  <2> QED
    BY <2>2, <2>3, <2>4, MovesOnly
<1>2. CASE Confirm(r)
  <2>1. PICK q : q = [old EXCEPT !.at = "enabling", !.seen = RowOf(old)]
    OBVIOUS
  <2>2. /\ old.at = "checking" /\ requests' = [requests EXCEPT ![r] = q]
        /\ UNCHANGED <<codes, account, authorizations, ghosts>>
    BY <1>2, <2>1 DEF Confirm
  <2>3. /\ q \in Request /\ q.at = "enabling" /\ q.user = old.user /\ q.seen \in Row
    BY <1>0, <2>1, <2>2, RowOfIs DEF Request, Steps
  <2>4. Knows(q) /\ q.at \notin Using \cup {"replacing"}
    BY <1>0, <2>2, <2>3 DEF Knows, Shaped, Using
  <2> QED
    BY <2>2, <2>4, MovesOnly
<1>3. CASE Enable(r) \/ Disable(r)
  <2>1. PICK u \in Users : /\ u = old.user
                           /\ \/ account' = [account EXCEPT ![u].otp = @ \/ ~old.seen.otp]
                              \/ account' = [account EXCEPT ![u].otp = @ /\ ~old.seen.otp]
    BY <1>0, <1>3 DEF Enable, Disable, Ends, Resumes
  <2>2. /\ account' \in [Users -> Row]
        /\ \A v \in Users : account'[v].password = account[v].password
    <3>1. PICK b \in BOOLEAN : account' = [account EXCEPT ![u].otp = b]
      BY <2>1
    <3> QED
      BY <1>0, <3>1 DEF Tables, Row
  <2>3. Grows /\ Tables' /\ UNCHANGED <<stage, opened, sessions, finished, authorizations>>
    BY <1>0, <1>3, <2>2, CodesStay DEF Enable, Disable, ghosts, codes, Tables
  <2>4. PICK q : q = IF Enable(r) THEN Idle ELSE [old EXCEPT !.at = "clearing"]
    OBVIOUS
  <2>5. /\ requests' = [requests EXCEPT ![r] = q]
        /\ q.at \notin Using \cup {"replacing"} /\ Knows(q)
    <3>1. CASE Enable(r)
      BY <2>4, <3>1, IdleKnows DEF Enable, Ends, Idle, Using
    <3>2. CASE Disable(r) /\ ~Enable(r)
      <4>1. q = [old EXCEPT !.at = "clearing"] /\ q \in Request
            /\ q.at = "clearing" /\ q.user = old.user
        BY <1>0, <2>4, <3>2 DEF Request, Steps
      <4> QED
        BY <1>0, <3>2, <4>1 DEF Disable, Resumes, Knows, Shaped, Using
    <3> QED
      BY <1>3, <3>1, <3>2
  <2>6. Knows(q)'
    BY <2>3, <2>5, StillKnows
  <2> QED
    BY <2>2, <2>3, <2>5, <2>6, MovesCalm
<1>4. CASE Clear(r)
  <2>1. LiveOf(old.user) \in SUBSET Store!Held
    BY DEF LiveOf, Store!Held
  <2> QED
    BY <1>4, <2>1, DropsCalm DEF Clear, Ends
<1>5. CASE Fail(r)
  BY <1>5, EndsOnly DEF Fail
<1>6. ASSUME NEW u \in Users, TurnOff(r, u) PROVE Basic' /\ Calm
  <2>1. PICK q : q = [Idle EXCEPT !.at = "disabling", !.user = u, !.seen = account[u]]
    OBVIOUS
  <2>2. /\ q \in Request /\ q.at = "disabling" /\ q.user = u /\ q.seen \in Row
    BY <1>0, <2>1 DEF Idle, Request, Steps, Tables
  <2>3. Knows(q) /\ q.at \notin Using \cup {"replacing"}
    BY <2>2 DEF Knows, Shaped, Using
  <2>4. /\ requests' = [requests EXCEPT ![r] = q]
        /\ UNCHANGED <<codes, account, authorizations, ghosts>>
    BY <1>6, <2>1 DEF TurnOff, Enters
  <2> QED
    BY <2>3, <2>4, MovesOnly
<1> QED
  BY <1>1, <1>2, <1>3, <1>4, <1>5, <1>6

\* What happens to all requests alike.
LEMMA LossesCalm == ASSUME Basic, Lapse \/ Restart PROVE Basic' /\ Calm
<1>1. CASE Restart
  <2>1. Grows /\ \A i \in Ids : stage'[i] \in {stage[i], "dead"}
    BY <1>1, Dropping DEF Restart, Basic, ghosts
  <2>2. /\ requests' = [r \in Requests |-> Idle] /\ Idle \in Request
        /\ Idle.at \notin Using \cup {"replacing"}
    BY <1>1, IdleKnows DEF Restart, Knows, Idle, Using
  <2>3. PICK p : p = Idle
    OBVIOUS
  <2>4. Knows(p)'
    BY <2>1, <2>3, IdleKnows, StillKnows
  <2>5. \A r \in Requests : requests'[r] = p
    BY <2>2, <2>3
  <2>6. ASSUME NEW r \in Requests PROVE Knows(requests[r])'
    <3>1. requests'[r] = p
      BY <2>5
    <3> QED
      BY <2>4, <3>1
  <2>7. Known'
    BY <2>2, <2>6 DEF Known
  <2>8. Tables' /\ UNCHANGED <<opened, sessions, finished, account>> /\ authorizations' = {}
    BY <1>1 DEF Restart, Basic, Tables, ghosts
  <2> QED
    BY <2>1, <2>2, <2>7, <2>8 DEF Basic, Grows, Calm
<1>2. CASE Lapse
  <2>1. /\ Grows /\ \A i \in Ids : stage'[i] \in {stage[i], "dead"}
        /\ authorizations' \subseteq authorizations
    <3>1. CASE \E i \in Store!Held : Store!Drop({i}) /\ UNCHANGED authorizations
      BY <1>2, <3>1, Dropping DEF Lapse, Basic, ghosts
    <3>2. CASE UNCHANGED codes /\ authorizations' \subseteq authorizations
      BY <1>2, <3>2, CodesStay DEF Lapse, Basic, ghosts, codes
    <3> QED
      BY <1>2, <3>1, <3>2 DEF Lapse
  <2>2. /\ requests' = requests /\ UNCHANGED <<opened, sessions, finished, account>>
        /\ Tables'
    BY <1>2, <2>1 DEF Lapse, Basic, Tables, ghosts
  <2>3. ASSUME NEW r \in Requests PROVE Knows(requests[r])'
    <3>1. PICK p : p = requests[r]
      OBVIOUS
    <3>2. Knows(p)'
      BY <2>1, <3>1, AtHand, StillKnows
    <3> QED
      BY <2>2, <3>1, <3>2
  <2> QED
    BY <2>1, <2>2, <2>3 DEF Basic, Known, Grows, Calm
<1> QED
  BY <1>1, <1>2

\* The steps that count: an authorization or a session is issued, a reset runs.
LEMMA CountedSteps ==
    ASSUME Basic, NEW r \in Requests,
           \/ Authorize(r) \/ SignIn(r) \/ Replace(r) \/ Wipe(r)
           \/ \E a \in authorizations : Complete(r, a)
    PROVE  Basic' /\ Grows
<1> DEFINE old == requests[r]
<1>0. /\ old \in Request /\ Knows(old) /\ Shaped(old) /\ Minted /\ Tables
      /\ old.at # "idle" => old.user \in Users
  BY AtHand
<1>1. Grows
  <2>1. CASE Wipe(r)
    <3>1. LiveOf(old.user) \in SUBSET Store!Held
      BY DEF LiveOf, Store!Held
    <3> QED
      BY <1>0, <2>1, <3>1, Dropping DEF Wipe
  <2>2. CASE ~Wipe(r)
    BY <1>0, <2>2, CodesStay DEF Authorize, SignIn, Replace, Complete, ghosts
  <2> QED
    BY <2>1, <2>2
<1>2. CASE Authorize(r) \/ SignIn(r) \/ Wipe(r)
  <2>1. Tables'
    <3>1. CASE Authorize(r)
      <4>1. [code |-> old.code, user |-> old.user, since |-> finished[old.user]]
              \in Authorization
        BY <1>0, <3>1 DEF Authorize, Ends, Knows, Shaped, Authorization, Tables
      <4> HIDE DEF old
      <4> QED
        BY <1>0, <3>1, <4>1 DEF Authorize, Tables, ghosts, old
    <3>2. CASE SignIn(r)
      BY <1>0, <3>2 DEF SignIn, Tables
    <3>3. CASE Wipe(r)
      <4>1. old.user \in Users /\ old.seen.password \in Nat
        BY <1>0, <3>3 DEF Wipe, Ends, Shaped, Row
      <4> QED
        BY <1>0, <3>3, <4>1 DEF Wipe, Tables
    <3> QED
      BY <1>2, <3>1, <3>2, <3>3
  <2>2. PICK p : p = Idle
    OBVIOUS
  <2>3. Knows(p)' /\ requests' = [requests EXCEPT ![r] = p]
    BY <1>1, <1>2, <2>2, IdleKnows, StillKnows DEF Authorize, SignIn, Wipe, Ends
  <2>4. Known'
    BY <1>1, <2>3, MovesKnown
  <2> QED
    BY <1>1, <2>1, <2>4 DEF Basic, Grows
<1>3. ASSUME NEW a \in authorizations, Complete(r, a) PROVE Basic'
  <2>1. PICK q : q = [Idle EXCEPT !.at = "replacing", !.user = a.user]
    OBVIOUS
  <2>2. q \in Request /\ q.at = "replacing" /\ q.user = a.user /\ a.user \in Users
    BY <1>0, <2>1 DEF Idle, Request, Steps, Tables, Authorization
  <2>3. Knows(q) /\ requests' = [requests EXCEPT ![r] = q]
    BY <1>3, <2>1, <2>2 DEF Knows, Shaped, Complete, Enters
  <2>4. Known'
    BY <1>1, <2>3, StillKnows, MovesKnown
  <2>5. Tables'
    BY <1>0, <1>3 DEF Complete, Tables, ghosts
  <2> QED
    BY <1>1, <2>4, <2>5 DEF Basic, Grows
<1>4. CASE Replace(r)
  <2>1. PICK row : row = [account[old.user] EXCEPT !.password = @ + 1]
    OBVIOUS
  <2>2. row \in Row /\ old.at = "replacing" /\ old.user \in Users
    BY <1>0, <1>4, <2>1 DEF Replace, Tables, Row
  <2>3. PICK q : q = [old EXCEPT !.at = "wiping", !.seen = row]
    OBVIOUS
  <2>4. /\ q \in Request /\ q.at = "wiping" /\ q.user = old.user /\ q.seen = row
        /\ requests' = [requests EXCEPT ![r] = q]
    BY <1>0, <1>4, <2>1, <2>2, <2>3 DEF Request, Steps, Replace
  <2>5. Knows(q)
    BY <1>0, <2>2, <2>4 DEF Knows, Shaped
  <2>6. Known'
    BY <1>1, <2>4, <2>5, StillKnows, MovesKnown
  <2>7. Tables'
    BY <1>0, <1>4, <2>1, <2>2 DEF Replace, Tables, ghosts
  <2> QED
    BY <1>1, <2>6, <2>7 DEF Basic, Grows
<1> QED
  BY <1>1, <1>2, <1>3, <1>4

\* Every step is of one of these kinds.
Counts(r) ==
    \/ Authorize(r) \/ SignIn(r) \/ Replace(r) \/ Wipe(r)
    \/ \E a \in authorizations : Complete(r, a)
LEMMA NextKinds ==
    ASSUME Basic, [Next]_vars
    PROVE  Basic' /\ Grows /\ (Kinds \/ \E r \in Requests : Counts(r))
<1>1. CASE UNCHANGED vars
  <2>1. /\ UNCHANGED <<codes, supersedes, opened, sessions, finished, stage>>
        /\ UNCHANGED <<authorizations, requests, account, proof>>
    BY <1>1 DEF vars, codes, ghosts
  <2>2. Grows
    BY <2>1, CodesStay DEF Basic
  <2>3. ASSUME NEW r \in Requests PROVE Knows(requests[r])'
    <3>1. PICK p : p = requests[r]
      OBVIOUS
    <3>2. Knows(p)'
      BY <2>2, <3>1, AtHand, StillKnows
    <3> QED
      BY <2>1, <3>1, <3>2
  <2>4. Basic'
    BY <2>1, <2>2, <2>3 DEF Basic, Tables, Known, Grows
  <2>5. Calm
    BY <2>1, <2>2 DEF Calm
  <2> QED
    BY <2>2, <2>4, <2>5 DEF Kinds
<1>2. CASE Lapse \/ Restart
  BY <1>2, LossesCalm DEF Kinds, Calm
<1>3. ASSUME NEW r \in Requests,
             \/ \E u \in Users : Login(r, u)
             \/ \E i \in Ids : SwitchMethod(r, i) \/ StartOtpLogin(r, i)
             \/ \E u \in Users, i \in Ids :
                  StartEnable(r, u, i) \/ StartTotpEnroll(r, u, i) \/ RequestRecovery(r, u, i)
      PROVE  Basic' /\ Kinds
  BY <1>3, LoginSteps, AskSteps
<1>4. ASSUME NEW r \in Requests,
             Sent(r) \/ NotSent(r) \/ (\E i \in Ids : Submit(r, i)) \/ VerifyApp(r)
      PROVE  Basic' /\ Kinds
  BY <1>4, SentSteps, AnswerSteps
<1>5. ASSUME NEW r \in Requests,
             \/ Check(r) \/ Confirm(r) \/ Enable(r) \/ Disable(r) \/ Clear(r) \/ Fail(r)
             \/ \E u \in Users : TurnOff(r, u)
      PROVE  Basic' /\ Kinds
  BY <1>5, CalmSteps DEF Kinds
<1>6. ASSUME NEW r \in Requests, Counts(r)
      PROVE  Basic' /\ Grows
  BY <1>6, CountedSteps DEF Counts
<1>7. Kinds => Grows
  BY DEF Kinds, Calm, Opens, Uses
<1> QED
  BY <1>1, <1>2, <1>3, <1>4, <1>5, <1>6, <1>7 DEF Next, Counts

LEMMA InitBasic == Init => Basic
<1> SUFFICES ASSUME Init PROVE Basic
  OBVIOUS
<1>1. Minted
  BY DEF Init, Store!Init, Minted, Store!TypeOK, Store!Stages
<1>2. Tables
  BY DEF Init, Tables, Row
<1>3. Known
  BY IdleKnows DEF Init, Known, Knows
<1> QED
  BY <1>1, <1>2, <1>3 DEF Basic

LEMMA BasicHolds == Spec => []Basic
<1>1. Basic /\ [Next]_vars => Basic'
  BY NextKinds
<1> QED
  BY <1>1, InitBasic, PTL DEF Spec

\* Every variable holds what the code's annotations say, and a request has what the rest
\* of its handler uses.
THEOREM TypeCorrect == Spec => []TypeOK
<1>1. Basic => TypeOK
  BY DEF Basic, Minted, Tables, Known, Knows, TypeOK
<1> QED
  BY <1>1, BasicHolds, PTL

-------------------------------------------------------------------------------
\* One session for a code.

\* A code that was used is in the hands of one request, and has opened nothing yet.
Alone ==
    \A r, s \in Requests :
        /\ requests[r].at \in Using /\ requests[s].at \in Using
        /\ requests[r].code = requests[s].code
        => r = s
Unsigned == \A r \in Requests : requests[r].at \in Using => sessions[requests[r].code] = 0
SessionsInv == Alone /\ Unsigned /\ OneSessionPerCode

LEMMA SessionsQuiet ==
    ASSUME Basic, SessionsInv, Grows, UNCHANGED sessions,
           \A r \in Requests : requests'[r].at \in Using =>
             requests[r].at \in Using /\ requests'[r].code = requests[r].code
    PROVE  SessionsInv'
<1>1. Alone' /\ Unsigned'
  BY DEF SessionsInv, Alone, Unsigned
<1>2. OneSessionPerCode'
  BY DEF SessionsInv, OneSessionPerCode, Grows, PurposeOf
<1> QED
  BY <1>1, <1>2 DEF SessionsInv

LEMMA UsesKeepSessions ==
    ASSUME Basic, SessionsInv, NEW r \in Requests, NEW c \in Ids, Uses(r, c)
    PROVE  SessionsInv'
<1>1. PICK q : /\ requests' = [requests EXCEPT ![r] = q] /\ q.at = "checking" /\ q.code = c
  BY DEF Uses
<1>2. /\ \A s \in Requests : requests'[s] = IF s = r THEN q ELSE requests[s]
      /\ sessions' = sessions /\ Grows /\ stage[c] = "live"
  BY <1>1 DEF Uses, Basic, Known
<1>3. sessions[c] = 0
  BY <1>2 DEF SessionsInv, OneSessionPerCode, Basic, Tables
<1>4. \A s \in Requests : requests[s].at \in Using => requests[s].code # c
  BY <1>2, AtHand DEF Knows, Using
<1>5. Alone' /\ Unsigned'
  BY <1>1, <1>2, <1>3, <1>4 DEF SessionsInv, Alone, Unsigned
<1>6. OneSessionPerCode'
  BY <1>2 DEF SessionsInv, OneSessionPerCode, Grows, PurposeOf
<1> QED
  BY <1>5, <1>6 DEF SessionsInv

LEMMA SignInKeepsSessions ==
    ASSUME Basic, SessionsInv, NEW r \in Requests, SignIn(r)
    PROVE  SessionsInv'
<1> DEFINE c == requests[r].code
<1>1. /\ requests[r].at = "signing" /\ UNCHANGED <<stage, flow>>
      /\ \A s \in Requests : requests'[s] = IF s = r THEN Idle ELSE requests[s]
      /\ sessions' = [j \in Ids |-> sessions[j] + (IF j = c THEN 1 ELSE 0)]
  BY DEF SignIn, Ends, codes, Basic, Known
<1>2. /\ c \in Ids /\ stage[c] = "spent" /\ PurposeOf(c) = "login" /\ sessions[c] = 0
      /\ sessions \in [Ids -> Nat]
  <2>1. /\ c \in Ids /\ stage[c] = "spent" /\ sessions \in [Ids -> Nat]
        /\ flow[c] = <<requests[r].user, "login">>
    BY <1>1, AtHand DEF Knows, About, Tables
  <2>2. sessions[c] = 0
    BY <1>1 DEF SessionsInv, Unsigned, Using
  <2> QED
    BY <2>1, <2>2 DEF PurposeOf
<1>3. \A s \in Requests \ {r} : requests[s].at \in Using =>
        requests[s].code # c /\ requests[s].code \in Ids
  BY <1>1, AtHand DEF SessionsInv, Alone, Using, Knows, About
<1> HIDE DEF c
<1>4. Idle.at \notin Using
  BY DEF Idle, Using
<1>5. Alone' /\ Unsigned'
  BY <1>1, <1>2, <1>3, <1>4 DEF SessionsInv, Alone, Unsigned
<1>6. OneSessionPerCode'
  BY <1>1, <1>2 DEF SessionsInv, OneSessionPerCode, PurposeOf
<1> QED
  BY <1>5, <1>6 DEF SessionsInv

\* Where the other steps leave the requests.
LEMMA CountsMove ==
    ASSUME Basic, NEW r \in Requests, Counts(r)
    PROVE  /\ requests'[r].at \notin Using
           /\ \A s \in Requests \ {r} : requests'[s] = requests[s]
<1>1. requests \in [Requests -> Request] /\ requests[r] \in Request
  BY AtHand DEF Basic, Known
<1>2. CASE Authorize(r) \/ SignIn(r) \/ Wipe(r)
  BY <1>1, <1>2 DEF Authorize, SignIn, Wipe, Ends, Idle, Using
<1>3. CASE Replace(r)
  BY <1>1, <1>3 DEF Replace, Using, Request
<1>4. ASSUME NEW a \in authorizations, Complete(r, a)
      PROVE  /\ requests'[r].at \notin Using
             /\ \A s \in Requests \ {r} : requests'[s] = requests[s]
  BY <1>1, <1>4 DEF Complete, Enters, Idle, Using
<1> QED
  BY <1>2, <1>3, <1>4 DEF Counts

LEMMA StepSessions == Basic /\ SessionsInv /\ [Next]_vars => SessionsInv'
<1> SUFFICES ASSUME Basic, SessionsInv, [Next]_vars PROVE SessionsInv'
  OBVIOUS
<1>0. Grows
  BY NextKinds
<1>1. CASE Calm
  BY <1>0, <1>1, SessionsQuiet DEF Calm, Using
<1>2. ASSUME NEW i \in Ids, Opens(i) PROVE SessionsInv'
  <2>1. \A r \in Requests : requests'[r] = requests[r] \/ requests'[r] = Idle
    BY <1>2 DEF Opens, Basic, Known
  <2> QED
    BY <1>0, <1>2, <2>1, SessionsQuiet DEF Opens, Idle, Using
<1>3. ASSUME NEW r \in Requests, NEW c \in Ids, Uses(r, c) PROVE SessionsInv'
  BY <1>3, UsesKeepSessions
<1>4. ASSUME NEW r \in Requests, Counts(r) PROVE SessionsInv'
  <2>1. CASE SignIn(r)
    BY <2>1, SignInKeepsSessions
  <2>2. CASE ~SignIn(r)
    <3>1. UNCHANGED sessions
      BY <1>4, <2>2 DEF Counts, Authorize, Replace, Wipe, Complete, ghosts
    <3> QED
      BY <1>0, <1>4, <3>1, CountsMove, SessionsQuiet
  <2> QED
    BY <2>1, <2>2
<1> QED
  BY <1>1, <1>2, <1>3, <1>4, NextKinds DEF Kinds

\* complete_otp_login: however verifications of one code overlap, it opens one session
\* at most, and only once it is spent.
THEOREM CodesOpenOneSession == Spec => []OneSessionPerCode
<1>1. Init => SessionsInv
  BY DEF Init, SessionsInv, Alone, Unsigned, OneSessionPerCode, Idle, Using
<1>2. SessionsInv => OneSessionPerCode
  BY DEF SessionsInv
<1> QED
  BY <1>1, <1>2, StepSessions, BasicHolds, PTL DEF Spec

-------------------------------------------------------------------------------
\* One code for a switch.

\* What was switched away from is over by the time the new code is live.
Superseded ==
    \A i \in Ids : stage[i] \in {"live", "spent"} /\ supersedes[i] # None =>
        stage[supersedes[i]] \in {"dead", "spent"}
SwitchInv == Superseded /\ SwitchedOnce

LEMMA SwitchQuiet ==
    ASSUME Basic, SwitchInv, Grows,
           \A i \in Ids : stage'[i] \in {"live", "spent"} => stage[i] \in {"live", "spent"}
    PROVE  SwitchInv'
<1>1. \A i \in Ids : supersedes[i] \in Ids \cup {None}
  BY DEF Basic, Tables
<1>2. \A i \in Ids : stage'[i] \in {"live", "spent"} =>
        stage[i] \in {"live", "spent"} /\ supersedes'[i] = supersedes[i]
  BY DEF Grows
<1>3. Superseded'
  BY <1>1, <1>2 DEF SwitchInv, Superseded, Grows
<1>4. SwitchedOnce'
  BY <1>2 DEF SwitchInv, SwitchedOnce
<1> QED
  BY <1>3, <1>4 DEF SwitchInv

LEMMA OpensKeepSwitch ==
    ASSUME Basic, SwitchInv, NEW i \in Ids, Opens(i) PROVE SwitchInv'
<1>1. /\ Grows /\ stage'[i] = "live" /\ stage[i] \in {"new", "sending"}
      /\ \A j \in Ids \ {i} :
           stage'[j] = IF stage[j] = "live" /\ flow[j] = flow'[i] THEN "dead" ELSE stage[j]
      /\ supersedes'[i] # None =>
           /\ supersedes'[i] \in Ids /\ stage[supersedes'[i]] = "live"
           /\ flow[supersedes'[i]] = flow'[i]
  BY DEF Opens
<1>2. \A j \in Ids \ {i} : stage'[j] \in {"live", "spent"} =>
        /\ stage[j] \in {"live", "spent"} /\ supersedes'[j] = supersedes[j]
        /\ supersedes[j] \in Ids \cup {None}
  BY <1>1 DEF Grows, Basic, Tables
<1>3. supersedes'[i] # None =>
        supersedes'[i] \in Ids \ {i} /\ stage'[supersedes'[i]] = "dead"
  BY <1>1
<1>4. Superseded'
  BY <1>1, <1>2, <1>3 DEF SwitchInv, Superseded, Grows
<1>5. SwitchedOnce'
  BY <1>1, <1>2 DEF SwitchInv, Superseded, SwitchedOnce
<1> QED
  BY <1>4, <1>5 DEF SwitchInv

LEMMA CountsStages ==
    ASSUME Basic, NEW r \in Requests, Counts(r)
    PROVE  \A i \in Ids : stage'[i] \in {"live", "spent"} => stage'[i] = stage[i]
<1>1. CASE Wipe(r)
  <2>1. LiveOf(requests[r].user) \in SUBSET Store!Held
    BY DEF LiveOf, Store!Held
  <2> QED
    BY <1>1, <2>1, AtHand, Dropping DEF Wipe
<1>2. CASE ~Wipe(r)
  BY <1>2 DEF Counts, Authorize, SignIn, Replace, Complete, codes
<1> QED
  BY <1>1, <1>2

\* commit's "replaces": of the switches that race from one code, one goes through.
THEOREM SwitchesGoOnce == Spec => []SwitchedOnce
<1>1. Init => SwitchInv
  BY DEF Init, Store!Init, SwitchInv, Superseded, SwitchedOnce
<1>2. ASSUME Basic, SwitchInv, [Next]_vars PROVE SwitchInv'
  <2>0. Grows
    BY <1>2, NextKinds
  <2>1. CASE Calm
    BY <1>2, <2>0, <2>1, SwitchQuiet DEF Calm
  <2>2. ASSUME NEW i \in Ids, Opens(i) PROVE SwitchInv'
    BY <1>2, <2>2, OpensKeepSwitch
  <2>3. ASSUME NEW r \in Requests, NEW c \in Ids, Uses(r, c) PROVE SwitchInv'
    BY <1>2, <2>0, <2>3, SwitchQuiet DEF Uses
  <2>4. ASSUME NEW r \in Requests, Counts(r) PROVE SwitchInv'
    BY <1>2, <2>0, <2>4, CountsStages, SwitchQuiet
  <2> QED
    BY <1>2, <2>1, <2>2, <2>3, <2>4, NextKinds DEF Kinds
<1>3. SwitchInv => SwitchedOnce
  BY DEF SwitchInv
<1> QED
  BY <1>1, <1>2, <1>3, BasicHolds, PTL DEF Spec

-------------------------------------------------------------------------------
\* The end of a reset.

LEMMA ResetQuiet ==
    ASSUME Basic, ResetDropsWhatWasOpen, Grows, UNCHANGED <<opened, finished>>,
           authorizations' \subseteq authorizations,
           \A i \in Ids : stage'[i] = "live" => stage[i] = "live"
    PROVE  ResetDropsWhatWasOpen'
  BY DEF ResetDropsWhatWasOpen, Grows, UserOf

LEMMA OpensKeepReset ==
    ASSUME Basic, ResetDropsWhatWasOpen, NEW i \in Ids, Opens(i)
    PROVE  ResetDropsWhatWasOpen'
<1>1. /\ Grows /\ finished' = finished /\ authorizations' = authorizations
      /\ opened' = [opened EXCEPT ![i] = finished[flow'[i][1]]]
      /\ \A j \in Ids \ {i} : stage'[j] = "live" => stage[j] = "live"
  BY DEF Opens
<1>2. opened'[i] = finished'[UserOf(i)']
  BY <1>1 DEF UserOf, Basic, Tables
<1>3. \A j \in Ids \ {i} : stage'[j] = "live" => opened'[j] = finished'[UserOf(j)']
  BY <1>1 DEF ResetDropsWhatWasOpen, Grows, UserOf, Basic, Tables
<1> QED
  BY <1>1, <1>2, <1>3 DEF ResetDropsWhatWasOpen

LEMMA WipeKeepsReset ==
    ASSUME Basic, ResetDropsWhatWasOpen, NEW r \in Requests, Wipe(r)
    PROVE  ResetDropsWhatWasOpen'
<1>1. PICK u : u = requests[r].user
  OBVIOUS
<1>2. /\ Store!Drop(LiveOf(u)) /\ opened' = opened
      /\ authorizations' = {a \in authorizations : a.user # u}
      /\ \A v \in Users \ {u} : finished'[v] = finished[v]
  BY <1>1 DEF Wipe, Basic, Tables
<1>3. \A i \in Ids : stage'[i] = "live" =>
        /\ stage[i] = "live" /\ UserOf(i) # u /\ UserOf(i)' = UserOf(i)
        /\ UserOf(i) \in Users
  <2>1. flow' = flow /\ stage' = Store!Lapse(LiveOf(u))
    BY <1>2 DEF Store!Drop
  <2>2. \A i \in Ids : stage[i] = "live" => flow[i][1] \in Users
    BY DEF Basic, Minted, Flows
  <2> QED
    BY <2>1, <2>2 DEF Store!Lapse, LiveOf, UserOf
<1>4. \A a \in authorizations : a.user \in Users
  BY DEF Basic, Tables, Authorization
<1> QED
  BY <1>2, <1>3, <1>4 DEF ResetDropsWhatWasOpen

\* complete, its end: what was live or outstanding when a reset finished is good for
\* nothing afterwards.
THEOREM ResetsCloseWhatWasOpen == Spec => []ResetDropsWhatWasOpen
<1>1. Init => ResetDropsWhatWasOpen
  BY DEF Init, Store!Init, ResetDropsWhatWasOpen
<1>2. ASSUME Basic, ResetDropsWhatWasOpen, [Next]_vars PROVE ResetDropsWhatWasOpen'
  <2>0. Grows
    BY <1>2, NextKinds
  <2>1. CASE Calm
    BY <1>2, <2>0, <2>1, ResetQuiet DEF Calm
  <2>2. ASSUME NEW i \in Ids, Opens(i) PROVE ResetDropsWhatWasOpen'
    BY <1>2, <2>2, OpensKeepReset
  <2>3. ASSUME NEW r \in Requests, NEW c \in Ids, Uses(r, c) PROVE ResetDropsWhatWasOpen'
    BY <1>2, <2>0, <2>3, ResetQuiet DEF Uses
  <2>4. ASSUME NEW r \in Requests, Counts(r) PROVE ResetDropsWhatWasOpen'
    <3>1. CASE Wipe(r)
      BY <1>2, <3>1, WipeKeepsReset
    <3>2. CASE Authorize(r)
      <4>1. stage' = stage /\ flow' = flow /\ opened' = opened /\ finished' = finished
        BY <3>2 DEF Authorize, codes, ghosts
      <4> QED
        BY <1>2, <3>2, <4>1 DEF Authorize, ResetDropsWhatWasOpen, UserOf
    <3>3. CASE ~Wipe(r) /\ ~Authorize(r)
      <4>1. UNCHANGED <<opened, finished>> /\ authorizations' \subseteq authorizations
        BY <2>4, <3>3 DEF Counts, SignIn, Replace, Complete, ghosts
      <4> QED
        BY <1>2, <2>0, <2>4, <4>1, CountsStages, ResetQuiet
    <3> QED
      BY <3>1, <3>2, <3>3
  <2> QED
    BY <1>2, <2>1, <2>2, <2>3, <2>4, NextKinds DEF Kinds
<1> QED
  BY <1>1, <1>2, BasicHolds, PTL DEF Spec

-------------------------------------------------------------------------------
\* One change of password for a code.

\* A request that may still change the password, or be authorized to.
Resetting(q) == \/ q.at = "replacing"
                \/ q.at = "checking" /\ q.purpose = "password_reset"
Pending(u) == {r \in Requests : Resetting(requests[r]) /\ requests[r].user = u}
Granted(u) == {a \in authorizations : a.user = u}
Recovered(u) == {i \in Ids : stage[i] = "spent" /\ flow[i] = <<u, "password_reset">>}

\* Every password replaced, and every one that can still be, is paid for by a code.
Paid ==
    \A u \in Users :
        account[u].password + Cardinality(Granted(u)) + Cardinality(Pending(u))
          <= Cardinality(Recovered(u))
PaidInv == Paid /\ IsFiniteSet(authorizations)

LEMMA Sizes ==
    ASSUME IsFiniteSet(authorizations), NEW u \in Users
    PROVE  /\ IsFiniteSet(Pending(u)) /\ IsFiniteSet(Granted(u)) /\ IsFiniteSet(Recovered(u))
           /\ Cardinality(Pending(u)) \in Nat /\ Cardinality(Granted(u)) \in Nat
           /\ Cardinality(Recovered(u)) \in Nat
<1>1. /\ Pending(u) \subseteq Requests /\ Granted(u) \subseteq authorizations
      /\ Recovered(u) \subseteq Ids
  BY DEF Pending, Granted, Recovered
<1> QED
  BY <1>1, AccountConstants, FS_Subset, FS_CardinalityType DEF AccountConstants

LEMMA RecoveredStay ==
    ASSUME Basic, Grows, NEW u \in Users
    PROVE  /\ Recovered(u) \subseteq Recovered(u)'
           /\ Cardinality(Recovered(u)) <= Cardinality(Recovered(u)')
           /\ IsFiniteSet(Recovered(u)') /\ Cardinality(Recovered(u)') \in Nat
<1>1. Recovered(u) \subseteq Recovered(u)' /\ Recovered(u)' \subseteq Ids
  BY DEF Recovered, Grows
<1> QED
  BY <1>1, AccountConstants, FS_Subset, FS_CardinalityType DEF AccountConstants

\* Nothing is paid and nothing comes to be owed.
LEMMA PaidQuiet ==
    ASSUME Basic, PaidInv, Grows, authorizations' \subseteq authorizations,
           \A u \in Users : account'[u].password = account[u].password,
           \A r \in Requests : Resetting(requests'[r]) =>
             Resetting(requests[r]) /\ requests'[r].user = requests[r].user
    PROVE  PaidInv'
<1>1. IsFiniteSet(authorizations) /\ IsFiniteSet(authorizations')
  BY FS_Subset DEF PaidInv
<1>2. ASSUME NEW u \in Users
      PROVE  account'[u].password + Cardinality(Granted(u)') + Cardinality(Pending(u)')
               <= Cardinality(Recovered(u)')
  <2>1. Granted(u)' \subseteq Granted(u) /\ Pending(u)' \subseteq Pending(u)
    BY DEF Granted, Pending
  <2>2. /\ Cardinality(Granted(u)') <= Cardinality(Granted(u))
        /\ Cardinality(Pending(u)') <= Cardinality(Pending(u))
        /\ Cardinality(Granted(u)') \in Nat /\ Cardinality(Pending(u)') \in Nat
    BY <1>1, <2>1, Sizes, FS_Subset, FS_CardinalityType
  <2>3. account[u].password \in Nat
    BY DEF Basic, Tables, Row
  <2> QED
    BY <1>1, <2>2, <2>3, Sizes, RecoveredStay DEF PaidInv, Paid
<1> QED
  BY <1>1, <1>2 DEF PaidInv, Paid

\* A recovery code is used: it pays for what its request may come to.
LEMMA UsesPay ==
    ASSUME Basic, PaidInv, NEW r \in Requests, NEW c \in Ids, Uses(r, c)
    PROVE  PaidInv'
<1>1. PICK q : /\ requests' = [requests EXCEPT ![r] = q] /\ q.at = "checking" /\ q.code = c
               /\ flow'[c] = <<q.user, q.purpose>>
  BY DEF Uses, Knows, About
<1>2. /\ \A s \in Requests : requests'[s] = IF s = r THEN q ELSE requests[s]
      /\ Grows /\ UNCHANGED <<account, authorizations>>
      /\ stage[c] = "live" /\ stage'[c] = "spent"
      /\ ~Resetting(requests[r])
  BY <1>1 DEF Uses, Basic, Known, Resetting, Using
<1>3. IsFiniteSet(authorizations) /\ IsFiniteSet(authorizations')
  BY <1>2 DEF PaidInv
<1>4. ASSUME NEW u \in Users
      PROVE  account'[u].password + Cardinality(Granted(u)') + Cardinality(Pending(u)')
               <= Cardinality(Recovered(u)')
  <2>1. /\ account[u].password \in Nat /\ account'[u] = account[u]
        /\ Granted(u)' = Granted(u)
    BY <1>2 DEF Basic, Tables, Row, Granted
  <2>2. CASE u = q.user /\ q.purpose = "password_reset"
    <3>1. Pending(u)' = Pending(u) \cup {r} /\ r \notin Pending(u)
      BY <1>1, <1>2, <2>2 DEF Pending, Resetting
    <3>2. Recovered(u) \cup {c} \subseteq Recovered(u)' /\ c \notin Recovered(u)
      BY <1>1, <1>2, <2>2, RecoveredStay DEF Recovered
    <3>3. Cardinality(Pending(u)') = Cardinality(Pending(u)) + 1
      BY <1>3, <3>1, Sizes, FS_AddElement
    <3>4. Cardinality(Recovered(u) \cup {c}) = Cardinality(Recovered(u)) + 1
      BY <1>3, <3>2, Sizes, FS_AddElement
    <3>5. Cardinality(Recovered(u) \cup {c}) <= Cardinality(Recovered(u)')
      BY <1>2, <3>2, RecoveredStay, FS_Subset
    <3> QED
      BY <1>2, <1>3, <2>1, <3>3, <3>4, <3>5, Sizes, RecoveredStay DEF PaidInv, Paid
  <2>3. CASE ~(u = q.user /\ q.purpose = "password_reset")
    <3>1. Pending(u)' = Pending(u)
      BY <1>1, <1>2, <2>3 DEF Pending, Resetting
    <3> QED
      BY <1>2, <1>3, <2>1, <3>1, Sizes, RecoveredStay DEF PaidInv, Paid
  <2> QED
    BY <2>2, <2>3
<1> QED
  BY <1>3, <1>4 DEF PaidInv, Paid

\* A verified recovery becomes an authorization, that a change under way, that a password.
LEMMA CountsPay ==
    ASSUME Basic, PaidInv, NEW r \in Requests,
           Authorize(r) \/ Replace(r) \/ \E a \in authorizations : Complete(r, a)
    PROVE  PaidInv'
<1> DEFINE w == requests[r].user
<1>0. /\ Grows /\ requests \in [Requests -> Request] /\ requests[r] \in Request
      /\ requests'[r].at \notin Using
      /\ \A s \in Requests \ {r} : requests'[s] = requests[s]
      /\ IsFiniteSet(authorizations)
      /\ \A u \in Users :
           /\ account[u].password \in Nat
           /\ account[u].password + Cardinality(Granted(u)) + Cardinality(Pending(u))
                <= Cardinality(Recovered(u))
  BY CountedSteps, CountsMove DEF Counts, Basic, Known, Tables, Row, PaidInv, Paid
<1>1. CASE Authorize(r)
  <2>1. PICK a : a = [code |-> requests[r].code, user |-> w, since |-> finished[w]]
    OBVIOUS
  <2>2. /\ authorizations' = authorizations \cup {a} /\ a.user = w
        /\ account' = account /\ requests[r].at = "checking"
        /\ requests[r].purpose = "password_reset" /\ requests'[r].at = "idle"
    BY <1>0, <1>1, <2>1 DEF Authorize, Ends, Idle
  <2>3. IsFiniteSet(authorizations')
    BY <1>0, <2>2, FS_AddElement
  <2>4. ASSUME NEW u \in Users
        PROVE  account'[u].password + Cardinality(Granted(u)') + Cardinality(Pending(u)')
                 <= Cardinality(Recovered(u)')
    <3>1. CASE u = w
      <4>1. /\ Granted(u)' = Granted(u) \cup {a}
            /\ Pending(u)' = Pending(u) \ {r} /\ r \in Pending(u)
        BY <1>0, <2>2, <3>1 DEF Granted, Pending, Resetting, Using
      <4>2. Cardinality(Pending(u)') = Cardinality(Pending(u)) - 1
        BY <1>0, <4>1, Sizes, FS_RemoveElement
      <4>3. /\ Cardinality(Granted(u)') <= Cardinality(Granted(u)) + 1
            /\ Cardinality(Granted(u)') \in Nat
        <5>1. Cardinality(Granted(u) \cup {a}) \in
                {Cardinality(Granted(u)), Cardinality(Granted(u)) + 1}
          BY <1>0, Sizes, FS_AddElement
        <5> QED
          BY <1>0, <4>1, <5>1, Sizes
      <4> QED
        BY <1>0, <2>2, <4>2, <4>3, Sizes, RecoveredStay
    <3>2. CASE u # w
      <4>1. Granted(u)' = Granted(u) /\ Pending(u)' = Pending(u)
        BY <1>0, <2>2, <3>2 DEF Granted, Pending, Resetting, Using
      <4> QED
        BY <1>0, <2>2, <4>1, Sizes, RecoveredStay
    <3> QED
      BY <3>1, <3>2
  <2> QED
    BY <2>3, <2>4 DEF PaidInv, Paid
<1>2. ASSUME NEW a \in authorizations, Complete(r, a) PROVE PaidInv'
  <2>1. /\ authorizations' = authorizations \ {a} /\ account' = account
        /\ requests[r].at = "idle" /\ requests'[r].at = "replacing"
        /\ requests'[r].user = a.user
    <3>1. PICK q : q = [Idle EXCEPT !.at = "replacing", !.user = a.user]
      OBVIOUS
    <3>2. q.at = "replacing" /\ q.user = a.user /\ Idle.at = "idle"
      BY <3>1 DEF Idle
    <3> QED
      BY <1>0, <1>2, <3>1, <3>2 DEF Complete, Enters
  <2>2. IsFiniteSet(authorizations')
    BY <1>0, <2>1, FS_RemoveElement
  <2>3. ASSUME NEW u \in Users
        PROVE  account'[u].password + Cardinality(Granted(u)') + Cardinality(Pending(u)')
                 <= Cardinality(Recovered(u)')
    <3>1. CASE u = a.user
      <4>1. /\ Granted(u)' = Granted(u) \ {a} /\ a \in Granted(u)
            /\ Pending(u)' = Pending(u) \cup {r} /\ r \notin Pending(u)
        BY <1>0, <2>1, <3>1 DEF Granted, Pending, Resetting
      <4>2. Cardinality(Granted(u)') = Cardinality(Granted(u)) - 1
        BY <1>0, <4>1, Sizes, FS_RemoveElement
      <4>3. Cardinality(Pending(u)') = Cardinality(Pending(u)) + 1
        BY <1>0, <4>1, Sizes, FS_AddElement
      <4> QED
        BY <1>0, <2>1, <4>2, <4>3, Sizes, RecoveredStay
    <3>2. CASE u # a.user
      <4>1. Granted(u)' = Granted(u) /\ Pending(u)' = Pending(u)
        BY <1>0, <2>1, <3>2 DEF Granted, Pending, Resetting
      <4> QED
        BY <1>0, <2>1, <4>1, Sizes, RecoveredStay
    <3> QED
      BY <3>1, <3>2
  <2> QED
    BY <2>2, <2>3 DEF PaidInv, Paid
<1>3. CASE Replace(r)
  <2>1. /\ authorizations' = authorizations
        /\ requests[r].at = "replacing" /\ requests'[r].at = "wiping"
        /\ \A u \in Users : account'[u].password =
             IF u = w THEN account[u].password + 1 ELSE account[u].password
    BY <1>0, <1>3 DEF Replace, Request, Basic, Tables, Row
  <2>2. ASSUME NEW u \in Users
        PROVE  account'[u].password + Cardinality(Granted(u)') + Cardinality(Pending(u)')
                 <= Cardinality(Recovered(u)')
    <3>0. Granted(u)' = Granted(u)
      BY <2>1 DEF Granted
    <3>1. CASE u = w
      <4>1. Pending(u)' = Pending(u) \ {r} /\ r \in Pending(u)
        BY <1>0, <2>1, <3>1 DEF Pending, Resetting
      <4>2. Cardinality(Pending(u)') = Cardinality(Pending(u)) - 1
        BY <1>0, <4>1, Sizes, FS_RemoveElement
      <4> QED
        BY <1>0, <2>1, <3>0, <3>1, <4>2, Sizes, RecoveredStay
    <3>2. CASE u # w
      <4>1. Pending(u)' = Pending(u)
        BY <1>0, <2>1, <3>2 DEF Pending, Resetting
      <4> QED
        BY <1>0, <2>1, <3>0, <3>2, <4>1, Sizes, RecoveredStay
    <3> QED
      BY <3>1, <3>2
  <2> QED
    BY <1>0, <2>1, <2>2 DEF PaidInv, Paid
<1> QED
  BY <1>1, <1>2, <1>3

\* verify and complete: however many verifications and completions of one recovery run
\* at once, and whichever fail, a spent code changes the password once at most.
THEOREM CodesChangeOnce == Spec => []OneChangePerCode
<1>1. Init => PaidInv
  <2> SUFFICES ASSUME Init PROVE PaidInv
    OBVIOUS
  <2>1. /\ authorizations = {} /\ IsFiniteSet(authorizations)
        /\ \A u \in Users : account[u].password = 0 /\ Granted(u) = {} /\ Pending(u) = {}
                            /\ Recovered(u) = {}
    BY FS_EmptySet DEF Init, Store!Init, Granted, Pending, Recovered, Resetting, Idle
  <2> QED
    BY <2>1, FS_EmptySet DEF PaidInv, Paid
<1>2. ASSUME Basic, PaidInv, [Next]_vars PROVE PaidInv'
  <2>0. Grows
    BY <1>2, NextKinds
  <2>1. CASE Calm
    BY <1>2, <2>0, <2>1, PaidQuiet DEF Calm, Resetting, Using
  <2>2. ASSUME NEW i \in Ids, Opens(i) PROVE PaidInv'
    <3>1. \A r \in Requests : requests'[r] = requests[r] \/ requests'[r] = Idle
      BY <1>2, <2>2 DEF Opens, Basic, Known
    <3> QED
      BY <1>2, <2>0, <2>2, <3>1, PaidQuiet DEF Opens, Resetting, Idle
  <2>3. ASSUME NEW r \in Requests, NEW c \in Ids, Uses(r, c) PROVE PaidInv'
    BY <1>2, <2>3, UsesPay
  <2>4. ASSUME NEW r \in Requests, Counts(r) PROVE PaidInv'
    <3>1. CASE SignIn(r) \/ Wipe(r)
      <4>1. /\ authorizations' \subseteq authorizations /\ account' = account
            /\ requests'[r] = Idle
            /\ \A s \in Requests \ {r} : requests'[s] = requests[s]
        BY <1>2, <3>1 DEF SignIn, Wipe, Ends, Basic, Known
      <4> QED
        BY <1>2, <2>0, <4>1, PaidQuiet DEF Resetting, Idle
    <3>2. CASE ~(SignIn(r) \/ Wipe(r))
      BY <1>2, <2>4, <3>2, CountsPay DEF Counts
    <3> QED
      BY <3>1, <3>2
  <2> QED
    BY <1>2, <2>1, <2>2, <2>3, <2>4, NextKinds DEF Kinds
<1>3. Basic /\ PaidInv => OneChangePerCode
  <2> SUFFICES ASSUME Basic, PaidInv, NEW u \in Users
               PROVE  account[u].password <= Cardinality(Recovered(u))
    BY DEF OneChangePerCode, Recovered
  <2>1. account[u].password \in Nat
    BY DEF Basic, Tables, Row
  <2> QED
    BY <2>1, Sizes DEF PaidInv, Paid
<1> QED
  BY <1>1, <1>2, <1>3, BasicHolds, PTL DEF Spec

-------------------------------------------------------------------------------
\* The store of codes, as all of this uses it.

\* A step that the store of codes takes, or one it does not notice.
StoreMoves == [Store!Next]_(Store!vars)

LEMMA StoreDrops ==
    ASSUME NEW gone \in SUBSET Store!Held, Store!Drop(gone) PROVE StoreMoves
  BY DEF StoreMoves, Store!Next

LEMMA StoreSpends ==
    ASSUME NEW i \in Ids, Store!Spend(i, {}) PROVE StoreMoves
<1>1. {} \in SUBSET Store!Held
  OBVIOUS
<1> QED
  BY <1>1 DEF StoreMoves, Store!Next

\* What a handler that asks for a code does to the store.
LEMMA StoreIssues ==
    ASSUME NEW r \in Requests, NEW q, Asks(q), NEW i \in Ids,
           SendCode(r, q, i) \/ OpenApp(r, q, i)
    PROVE  StoreMoves
<1> DEFINE f == <<q.user, q.purpose>>
<1>1. /\ f \in Flows
      /\ {} \in SUBSET Store!Held /\ Store!LiveIn(f) \in SUBSET Store!Held
  BY DEF Asks, Flows, Store!LiveIn, Store!Held
<1>2. \E gone \in SUBSET Store!Held :
        Store!StartSending(i, f, gone) \/ Store!Open(i, f, gone) \/ Store!Refuse(i, f, gone)
  BY <1>1 DEF SendCode, OpenApp
<1> QED
  BY <1>1, <1>2 DEF StoreMoves, Store!Next

\* A handler that asks for a code: what it asks with is what the store needs.
LEMMA AskingMoves ==
    ASSUME Basic, NEW r \in Requests, NEW i \in Ids,
           \/ StartOtpLogin(r, i)
           \/ \E u \in Users : StartEnable(r, u, i) \/ StartTotpEnroll(r, u, i)
                                 \/ RequestRecovery(r, u, i)
    PROVE  StoreMoves
<1>1. CASE StartOtpLogin(r, i)
  <2>1. requests[r].at = "deciding" /\ Issues(r, requests[r], i)
    BY <1>1 DEF StartOtpLogin
  <2>2. Asks(requests[r])
    BY <2>1, AtHand DEF Knows, Shaped, Asks, Purposes
  <2> QED
    BY <2>1, <2>2, StoreIssues DEF Issues
<1>2. ASSUME NEW u \in Users, NEW p \in {"verify_contact", "password_reset"}, NEW q,
             q = [Idle EXCEPT !.user = u, !.purpose = p],
             SendCode(r, q, i) \/ OpenApp(r, q, i)
      PROVE  StoreMoves
  <2>1. q \in Request /\ q.user = u /\ q.purpose = p /\ q.from = None
    BY <1>2 DEF Idle, Request, Steps, Purposes
  <2>2. Asks(q)
    BY <2>1 DEF Asks, From, Purposes
  <2> QED
    BY <1>2, <2>2, StoreIssues
<1> QED
  BY <1>1, <1>2 DEF StartEnable, StartTotpEnroll, RequestRecovery, Issues

\* The answer of the provider.
LEMMA AnsweredMoves ==
    ASSUME Basic, NEW r \in Requests, Sent(r) \/ NotSent(r) PROVE StoreMoves
<1>1. requests[r].at = "sending" /\ requests[r].code \in Ids
  BY AtHand DEF Shaped, Sent, NotSent, Ends
<1>2. Held({requests[r].code}) \in SUBSET Store!Held
  BY DEF Held
<1>3. CASE Store!Drop(Held({requests[r].code}))
  BY <1>2, <1>3, StoreDrops
<1>4. CASE Store!Install(requests[r].code, Store!LiveIn(flow[requests[r].code]))
  <2>1. Store!LiveIn(flow[requests[r].code]) \in SUBSET Store!Held
    BY DEF Store!LiveIn, Store!Held
  <2> QED
    BY <1>1, <1>4, <2>1 DEF StoreMoves, Store!Next
<1> QED
  BY <1>3, <1>4 DEF Sent, NotSent

\* A code that is entered.
LEMMA EnteredMoves ==
    ASSUME Basic, NEW r \in Requests, VerifyApp(r) \/ \E i \in Ids : Submit(r, i)
    PROVE  StoreMoves
<1>1. CASE VerifyApp(r)
  <2>1. requests[r].code \in Ids /\ Store!Spend(requests[r].code, {})
    BY <1>1, AtHand DEF Shaped, VerifyApp, Resumes
  <2> QED
    BY <2>1, StoreSpends
<1>2. ASSUME NEW i \in Ids, Submit(r, i) PROVE StoreMoves
  <2>1. Store!Spend(i, {}) \/ UNCHANGED codes
    BY <1>2 DEF Submit
  <2> QED
    BY <2>1, StoreSpends DEF StoreMoves, Store!vars, codes
<1> QED
  BY <1>1, <1>2

\* Codes that are let go.
LEMMA LosingMoves ==
    ASSUME \/ \E r \in Requests : Clear(r) \/ Wipe(r)
           \/ Lapse \/ Restart
    PROVE  StoreMoves
<1>1. \A u : LiveOf(u) \in SUBSET Store!Held
  BY DEF LiveOf, Store!Held
<1>2. Store!Held \in SUBSET Store!Held /\ \A i \in Store!Held : {i} \in SUBSET Store!Held
  OBVIOUS
<1>3. \/ \E gone \in SUBSET Store!Held : Store!Drop(gone)
      \/ UNCHANGED codes
  BY <1>1, <1>2 DEF Clear, Wipe, Lapse, Restart
<1> QED
  BY <1>3, StoreDrops DEF StoreMoves, Store!vars, codes

LEMMA EveryStepMoves ==
    ASSUME Basic, [Next]_vars PROVE StoreMoves
<1>1. CASE UNCHANGED codes
  BY <1>1 DEF StoreMoves, Store!vars, codes
<1>2. ASSUME NEW r \in Requests,
             \/ \E u \in Users : TurnOff(r, u) \/ Login(r, u)
             \/ \E i \in Ids : SwitchMethod(r, i)
             \/ \E a \in authorizations : Complete(r, a)
             \/ Check(r) \/ Authorize(r) \/ Confirm(r) \/ SignIn(r)
             \/ Enable(r) \/ Disable(r) \/ Replace(r) \/ Fail(r)
      PROVE  UNCHANGED codes
  BY <1>2 DEF TurnOff, Login, SwitchMethod, ReadsRow, Complete, Check, Authorize, Confirm,
     SignIn, Enable, Disable, Replace, Fail
<1>3. CASE UNCHANGED vars
  BY <1>1, <1>3 DEF vars
<1>4. ASSUME NEW r \in Requests, NEW i \in Ids,
             \/ StartOtpLogin(r, i)
             \/ \E u \in Users : StartEnable(r, u, i) \/ StartTotpEnroll(r, u, i)
                                   \/ RequestRecovery(r, u, i)
      PROVE  StoreMoves
  BY <1>4, AskingMoves
<1>5. ASSUME NEW r \in Requests, Sent(r) \/ NotSent(r) PROVE StoreMoves
  BY <1>5, AnsweredMoves
<1>6. ASSUME NEW r \in Requests, VerifyApp(r) \/ \E i \in Ids : Submit(r, i)
      PROVE  StoreMoves
  BY <1>6, EnteredMoves
<1>7. ASSUME \/ \E r \in Requests : Clear(r) \/ Wipe(r)
             \/ Lapse \/ Restart
      PROVE  StoreMoves
  BY <1>7, LosingMoves
<1> QED
  BY <1>1, <1>2, <1>3, <1>4, <1>5, <1>6, <1>7 DEF Next

\* Every handler of this module moves codes the way CodeLifecycle allows, and so what
\* OtpService is proved to promise is all that the ways into an account rely on.
THEOREM AccessKeepsThePromise == Spec => Store!Spec
<1>1. Init => Store!Init
  BY DEF Init
<1>2. Basic /\ [Next]_vars => [Store!Next]_(Store!vars)
  BY EveryStepMoves DEF StoreMoves
<1> QED
  BY <1>1, <1>2, BasicHolds, PTL DEF Spec, Store!Spec

\* A flow never has two live codes, and a code that was spent or has died stays so:
\* what CodeLifecycle is proved to promise holds of these requests too.
COROLLARY AccessCodesAreSingleUse == Spec => []Store!OneLivePerFlow /\ Store!NoReturn
  BY AccessKeepsThePromise, Store!LiveCodesAreUnique, Store!CodesNeverReturn
===============================================================================

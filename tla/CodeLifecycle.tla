---------------------------- MODULE CodeLifecycle -----------------------------
(***************************************************************************)
(* What the store of one-time codes promises its callers, whatever the     *)
(* limits, lifetimes and guesses are: a code is sent aside, becomes live,  *)
(* and is spent at most once; a flow (a user and a purpose) has at most    *)
(* one live code, the one installed last.  OtpService implements this.     *)
(***************************************************************************)
EXTENDS TLAPS

CONSTANTS
    Ids,
    Flows,
    NoFlow   \* the flow of an id not minted yet

VARIABLES
    stage,  \* where each code is in its life
    flow    \* whom and what each code was minted for

vars == <<stage, flow>>

Stages == {"new", "sending", "live", "spent", "dead"}

Init ==
    /\ stage = [i \in Ids |-> "new"]
    /\ flow = [i \in Ids |-> NoFlow]

Held == {i \in Ids : stage[i] \in {"sending", "live"}}
LiveIn(f) == {i \in Ids : stage[i] = "live" /\ flow[i] = f}

\* Any call may find that codes in gone have lapsed; the rest stay where they are.
Lapse(gone) == [i \in Ids |-> IF i \in gone THEN "dead" ELSE stage[i]]
Move(i, to, gone) == stage' = [Lapse(gone) EXCEPT ![i] = to]
Mint(i, f) == stage[i] = "new" /\ flow' = [flow EXCEPT ![i] = f]

Drop(gone) == stage' = Lapse(gone) /\ UNCHANGED flow
StartSending(i, f, gone) == Mint(i, f) /\ Move(i, "sending", gone)
\* An authenticator code is not sent: it opens live, or is refused as it opens.
Open(i, f, gone) == Mint(i, f) /\ LiveIn(f) \subseteq gone /\ Move(i, "live", gone)
Refuse(i, f, gone) == Mint(i, f) /\ Move(i, "dead", gone)
Install(i, gone) ==
    /\ stage[i] = "sending" /\ i \notin gone
    /\ LiveIn(flow[i]) \subseteq gone
    /\ Move(i, "live", gone) /\ UNCHANGED flow
Spend(i, gone) ==
    /\ stage[i] = "live" /\ i \notin gone
    /\ Move(i, "spent", gone) /\ UNCHANGED flow

Next ==
    \E gone \in SUBSET Held :
        \/ Drop(gone)
        \/ \E i \in Ids, f \in Flows :
              StartSending(i, f, gone) \/ Open(i, f, gone) \/ Refuse(i, f, gone)
        \/ \E i \in Ids : Install(i, gone) \/ Spend(i, gone)

Spec == Init /\ [][Next]_vars

-------------------------------------------------------------------------------
\* Every id has a stage, and a flow once it is minted.
TypeOK == stage \in [Ids -> Stages] /\ flow \in [Ids -> Flows \cup {NoFlow}]

\* commit: at most one code of a flow is live.
OneLivePerFlow == \A i, j \in Ids :
    stage[i] = "live" /\ stage[j] = "live" /\ flow[i] = flow[j] => i = j

\* verify: a code that was spent or has died never comes back.
NoReturn == [][\A i \in Ids : stage[i] \in {"spent", "dead"} => stage'[i] = stage[i]]_vars

-------------------------------------------------------------------------------
(* Both hold for any number of codes and flows. *)

CodeInv == TypeOK /\ OneLivePerFlow

\* Where each kind of step leaves the codes it is not about.
LEMMA LapseKeepsStages ==
    ASSUME TypeOK, NEW gone
    PROVE  /\ Lapse(gone) \in [Ids -> Stages]
           /\ \A i \in Ids : Lapse(gone)[i] # "dead" => Lapse(gone)[i] = stage[i] /\ i \notin gone
  BY DEF TypeOK, Stages, Lapse

\* A step that moves one code leaves every other where it was, or dead.
LEMMA MoveMoves ==
    ASSUME TypeOK, NEW gone, NEW i \in Ids, NEW to \in Stages, Move(i, to, gone)
    PROVE  /\ stage' \in [Ids -> Stages] /\ stage'[i] = to
           /\ \A j \in Ids \ {i} : stage'[j] # "dead" => stage'[j] = stage[j] /\ j \notin gone
<1>1. stage' = [Lapse(gone) EXCEPT ![i] = to]
  BY DEF Move
<1> QED BY <1>1, LapseKeepsStages

\* A flow is written once, when the code of that flow is minted.
LEMMA MintKeepsFlows ==
    ASSUME TypeOK, NEW i \in Ids, NEW f \in Flows, Mint(i, f)
    PROVE  /\ flow' \in [Ids -> Flows \cup {NoFlow}] /\ flow'[i] = f
           /\ \A j \in Ids \ {i} : flow'[j] = flow[j]
  BY DEF TypeOK, Mint

LEMMA NextKeepsCodeInv ==
    ASSUME CodeInv, [Next]_vars
    PROVE  CodeInv'
<1>1. TypeOK /\ OneLivePerFlow
  BY DEF CodeInv
<1>2. CASE UNCHANGED vars
  BY <1>1, <1>2 DEF CodeInv, TypeOK, OneLivePerFlow, vars
<1>3. ASSUME NEW gone \in SUBSET Held, Drop(gone)
      PROVE  CodeInv'
  <2>1. stage' = Lapse(gone) /\ flow' = flow
    BY <1>3 DEF Drop
  <2>2. TypeOK'
    BY <1>1, <2>1, LapseKeepsStages DEF TypeOK
  <2>3. OneLivePerFlow'
    BY <1>1, <2>1, LapseKeepsStages DEF OneLivePerFlow
  <2> QED BY <2>2, <2>3 DEF CodeInv
<1>4. ASSUME NEW gone \in SUBSET Held, NEW i \in Ids, NEW f \in Flows,
             NEW to \in {"sending", "dead"}, Mint(i, f), Move(i, to, gone)
      PROVE  CodeInv'
  <2>1. /\ stage' \in [Ids -> Stages] /\ stage'[i] = to
        /\ \A j \in Ids \ {i} : stage'[j] # "dead" => stage'[j] = stage[j] /\ j \notin gone
    BY <1>1, <1>4, MoveMoves DEF Stages
  <2>2. /\ flow' \in [Ids -> Flows \cup {NoFlow}]
        /\ \A j \in Ids \ {i} : flow'[j] = flow[j]
    BY <1>1, <1>4, MintKeepsFlows
  <2>3. OneLivePerFlow'
    BY <1>1, <2>1, <2>2 DEF OneLivePerFlow
  <2> QED BY <2>1, <2>2, <2>3 DEF CodeInv, TypeOK
<1>5. ASSUME NEW gone \in SUBSET Held, NEW i \in Ids, NEW f \in Flows, Open(i, f, gone)
      PROVE  CodeInv'
  <2>1. /\ stage' \in [Ids -> Stages]
        /\ \A j \in Ids \ {i} : stage'[j] # "dead" => stage'[j] = stage[j] /\ j \notin gone
    BY <1>1, <1>5, MoveMoves DEF Open, Stages
  <2>2. /\ flow' \in [Ids -> Flows \cup {NoFlow}] /\ flow'[i] = f
        /\ \A j \in Ids \ {i} : flow'[j] = flow[j]
    BY <1>1, <1>5, MintKeepsFlows DEF Open
  <2>3. \A j \in Ids \ {i} : stage'[j] = "live" => flow'[j] # f
    BY <1>5, <2>1, <2>2 DEF Open, LiveIn
  <2>4. OneLivePerFlow'
    BY <1>1, <2>1, <2>2, <2>3 DEF OneLivePerFlow
  <2> QED BY <2>1, <2>2, <2>4 DEF CodeInv, TypeOK
<1>6. ASSUME NEW gone \in SUBSET Held, NEW i \in Ids, Install(i, gone)
      PROVE  CodeInv'
  <2>1. /\ stage' \in [Ids -> Stages] /\ flow' = flow
        /\ \A j \in Ids \ {i} : stage'[j] # "dead" => stage'[j] = stage[j] /\ j \notin gone
    BY <1>1, <1>6, MoveMoves DEF Install, Stages
  <2>2. \A j \in Ids \ {i} : stage'[j] = "live" => flow[j] # flow[i]
    BY <1>6, <2>1 DEF Install, LiveIn
  <2>3. OneLivePerFlow'
    BY <1>1, <2>1, <2>2 DEF OneLivePerFlow
  <2> QED BY <1>1, <2>1, <2>3 DEF CodeInv, TypeOK
<1>7. ASSUME NEW gone \in SUBSET Held, NEW i \in Ids, Spend(i, gone)
      PROVE  CodeInv'
  <2>1. /\ stage' \in [Ids -> Stages] /\ flow' = flow /\ stage'[i] = "spent"
        /\ \A j \in Ids \ {i} : stage'[j] # "dead" => stage'[j] = stage[j] /\ j \notin gone
    BY <1>1, <1>7, MoveMoves DEF Spend, Stages
  <2>2. OneLivePerFlow'
    BY <1>1, <2>1 DEF OneLivePerFlow
  <2> QED BY <1>1, <2>1, <2>2 DEF CodeInv, TypeOK
<1> QED
  BY <1>2, <1>3, <1>4, <1>5, <1>6, <1>7 DEF Next, StartSending, Refuse

\* commit: whatever is sent, opened, lapses or is spent, in any order, a flow never
\* has two live codes.
THEOREM LiveCodesAreUnique == Spec => []OneLivePerFlow
<1>1. Init => CodeInv
  BY DEF Init, CodeInv, TypeOK, Stages, OneLivePerFlow
<1>2. CodeInv => OneLivePerFlow
  BY DEF CodeInv
<1> QED BY <1>1, <1>2, NextKeepsCodeInv, PTL DEF Spec

\* verify: a spent or dead code stays what it is.
THEOREM CodesNeverReturn == Spec => NoReturn
<1>1. Init => CodeInv
  BY DEF Init, CodeInv, TypeOK, Stages, OneLivePerFlow
<1>2. ASSUME CodeInv, [Next]_vars
      PROVE  [\A i \in Ids : stage[i] \in {"spent", "dead"} => stage'[i] = stage[i]]_vars
  <2>1. TypeOK
    BY <1>2 DEF CodeInv
  <2>2. CASE UNCHANGED vars
    BY <2>2
  <2>3. ASSUME NEW gone \in SUBSET Held, Drop(gone), NEW i \in Ids, stage[i] \in {"spent", "dead"}
        PROVE  stage'[i] = stage[i]
    BY <2>3 DEF Drop, Lapse, Held
  <2>4. ASSUME NEW gone \in SUBSET Held, NEW i \in Ids, NEW to,
               stage[i] \in {"new", "sending", "live"}, Move(i, to, gone),
               NEW j \in Ids, stage[j] \in {"spent", "dead"}
        PROVE  stage'[j] = stage[j]
    <3>1. j # i /\ j \notin gone
      BY <2>4 DEF Held
    <3> QED BY <2>4, <3>1 DEF Move, Lapse
  <2> QED
    BY <1>2, <2>2, <2>3, <2>4 DEF Next, StartSending, Open, Refuse, Install, Spend, Mint
<1> QED BY <1>1, <1>2, NextKeepsCodeInv, PTL DEF Spec, NoReturn
===============================================================================

----------------------- MODULE PromptRegistryTheorems -----------------------
(***************************************************************************)
(* Theorems about PromptRegistry, for any callers, versions and texts.     *)
(***************************************************************************)
EXTENDS PromptRegistry, TLAPS

\* SELECT MAX(version) has an answer.
HasLatest == Known # {} => \E m \in Known : \A v \in Known : m >= v

\* What a caller carries at each point of resolve_prompt_id.
FrameOK(c) ==
  /\ ~At(c, "idle") => /\ Me(c).version \in Nat \ {0}
                       /\ Me(c).text \in Texts /\ Me(c).policy \in AllPolicies
  /\ At(c, "used") \/ At(c, "update") \/ At(c, "max") \/ At(c, "bump") =>
       Me(c).version \in Known /\ Me(c).policy = "update_unused"
  /\ At(c, "bump") => Me(c).prompt \in Nat \ {0}

RegistryInv ==
  /\ TypeOK
  /\ HasLatest
  /\ \A c \in Callers : FrameOK(c)
  /\ AlwaysRegistered

-----------------------------------------------------------------------------
(* What the statements do to the table. *)

\* INSERT IGNORE adds the row or leaves the one that is there.
LEMMA InsertEffect ==
  ASSUME NEW v \in Nat \ {0}, NEW text \in Texts, TypeOK, HasLatest, InsertIgnore(v, text)
  PROVE  /\ Known' = Known \cup {v}
         /\ Known' \subseteq Nat \ {0}
         /\ prompts' \in [Known' -> Texts]
         /\ \A w \in Known : prompts'[w] = prompts[w]
         /\ v \notin Known => prompts'[v] = text
         /\ HasLatest'
<1>1. /\ Known' = Known \cup {v}
      /\ \A w \in Known' : prompts'[w] = IF w \in Known THEN prompts[w] ELSE text
      /\ prompts' = [w \in Known' |-> prompts'[w]]
  BY DEF InsertIgnore, Known
<1>2. \A w \in Known : prompts[w] \in Texts
  BY DEF TypeOK
<1>3. Known' \subseteq Nat \ {0} /\ prompts' \in [Known' -> Texts]
  BY <1>1, <1>2 DEF TypeOK
<1>4. HasLatest'
  <2>1. CASE Known = {}
    BY <1>1, <2>1 DEF HasLatest
  <2>2. CASE Known # {}
    <3>1. PICK m \in Known : \A w \in Known : m >= w
      BY <2>2 DEF HasLatest
    <3>2. \E n \in Known \cup {v} : \A w \in Known \cup {v} : n >= w
      <4>1. m \in Nat /\ Known \subseteq Nat
        BY <3>1 DEF TypeOK
      <4>2. CASE m >= v
        BY <3>1, <4>2
      <4>3. CASE v >= m
        BY <3>1, <4>1, <4>3
      <4> QED  BY <4>1, <4>2, <4>3
    <3> QED  BY <1>1, <3>2 DEF HasLatest
  <2> QED  BY <2>1, <2>2
<1> QED  BY <1>1, <1>3, <1>4

\* MAX(version) + 1 is a version that no row has.
LEMMA NextIsFree ==
  ASSUME NEW c \in Callers, TypeOK, HasLatest, Known # {}
  PROVE  NextVersion(c) \in Nat \ {0} /\ NextVersion(c) \notin Known
<1>1. PICK m \in Known : \A v \in Known : m >= v
  BY DEF HasLatest
<1>2. Max(Known) \in Known /\ \A v \in Known : Max(Known) >= v
  BY <1>1 DEF Max
<1> DEFINE n == Max(Known)
<1>3. n \in Nat /\ Known \subseteq Nat
  BY <1>2 DEF TypeOK
<1>4. n + 1 \notin Known
  BY <1>2, <1>3
<1> QED  BY <1>3, <1>4 DEF NextVersion

\* UPDATE changes one text.
LEMMA UpdateEffect ==
  ASSUME NEW v \in Known, NEW text \in Texts, TypeOK,
         prompts' = [prompts EXCEPT ![v] = text]
  PROVE  /\ Known' = Known
         /\ prompts' \in [Known' -> Texts]
         /\ \A w \in Known : w # v => prompts'[w] = prompts[w]
         /\ prompts'[v] = text
BY DEF TypeOK, Known

\* A step moves one caller.
LEMMA OthersStay ==
  ASSUME TypeOK, NEW c \in Callers,
         \/ Begin(c) \/ Read(c) \/ Insert(c) \/ Used(c) \/ Update(c) \/ ReadMax(c) \/ Bump(c)
         \/ Chat(c) \/ Record(c)
  PROVE  \A d \in Callers \ {c} : caller'[d] = caller[d]
BY DEF TypeOK, Begin, Read, Insert, Used, Update, ReadMax, Bump, Chat, Record, Goto, Answer

\* No row is deleted.
LEMMA RowsStay ==
  ASSUME RegistryInv, [Next]_vars
  PROVE  Known \subseteq Known' /\ HasLatest' /\ prompts' \in [Known' -> Texts]
           /\ Known' \subseteq Nat \ {0}
<1>1. TypeOK /\ HasLatest /\ \A c \in Callers : FrameOK(c)
  BY DEF RegistryInv
<1>2. ASSUME UNCHANGED prompts
      PROVE  Known \subseteq Known' /\ HasLatest' /\ prompts' \in [Known' -> Texts]
               /\ Known' \subseteq Nat \ {0}
  <2>1. Known' = Known
    BY <1>2 DEF Known
  <2> QED  BY <1>1, <1>2, <2>1 DEF TypeOK, HasLatest
<1>3. ASSUME NEW c \in Callers, Insert(c)
      PROVE  Known \subseteq Known' /\ HasLatest' /\ prompts' \in [Known' -> Texts]
               /\ Known' \subseteq Nat \ {0}
  <2>1. Me(c).version \in Nat \ {0} /\ Me(c).text \in Texts
    BY <1>1, <1>3 DEF Insert, FrameOK, At
  <2> QED  BY <1>1, <1>3, <2>1, InsertEffect DEF Insert
<1>4. ASSUME NEW c \in Callers, Bump(c)
      PROVE  Known \subseteq Known' /\ HasLatest' /\ prompts' \in [Known' -> Texts]
               /\ Known' \subseteq Nat \ {0}
  <2>1. Me(c).prompt \in Nat \ {0} /\ Me(c).text \in Texts
    BY <1>1, <1>4 DEF Bump, FrameOK, At
  <2> QED  BY <1>1, <1>4, <2>1, InsertEffect DEF Bump
<1>5. ASSUME NEW c \in Callers, Update(c)
      PROVE  Known \subseteq Known' /\ HasLatest' /\ prompts' \in [Known' -> Texts]
               /\ Known' \subseteq Nat \ {0}
  <2>1. Me(c).version \in Known /\ Me(c).text \in Texts
    BY <1>1, <1>5 DEF Update, FrameOK, At
  <2>2. prompts' = [prompts EXCEPT ![Me(c).version] = Me(c).text]
    BY <1>5 DEF Update
  <2>3. Known' = Known /\ prompts' \in [Known' -> Texts]
    BY <1>1, <2>1, <2>2, UpdateEffect
  <2> QED  BY <1>1, <2>3 DEF TypeOK, HasLatest
<1>6. QED
  <2>1. \/ UNCHANGED prompts
        \/ \E c \in Callers : Insert(c) \/ Bump(c) \/ Update(c)
    BY DEF Next, vars, Begin, Read, Used, ReadMax, Chat, Record
  <2> QED  BY <1>2, <1>3, <1>4, <1>5, <2>1

-----------------------------------------------------------------------------
(* The invariant. *)

LEMMA TypeStep ==
  ASSUME RegistryInv, [Next]_vars
  PROVE  TypeOK'
<1> USE DEF Pcs, AllPolicies
<1>1. TypeOK /\ (\A c \in Callers : FrameOK(c)) /\ AlwaysRegistered /\ HasLatest
  BY DEF RegistryInv
<1>2. prompts' \in [Known' -> Texts] /\ Known' \subseteq Nat \ {0}
  BY RowsStay
<1>3. /\ IdleCall \in Call
      /\ Known \subseteq Nat
      /\ \A c \in Callers : caller[c] \in Call
  BY <1>1 DEF TypeOK, IdleCall, Call
<1>4. ASSUME NEW c \in Callers, NEW pc \in Pcs, Goto(c, pc)
      PROVE  caller' \in [Callers -> Call]
  <2>1. [caller[c] EXCEPT !.pc = pc] \in Call
    BY <1>3 DEF Call
  <2>2. caller' = [caller EXCEPT ![c] = [caller[c] EXCEPT !.pc = pc]]
    BY <1>4 DEF Goto
  <2> QED  BY <1>1, <2>1, <2>2 DEF TypeOK
<1>5. ASSUME NEW c \in Callers, NEW id \in Nat, Answer(c, id)
      PROVE  caller' \in [Callers -> Call]
  <2>1. [caller[c] EXCEPT !.pc = "chat", !.prompt = id] \in Call
    BY <1>3 DEF Call
  <2>2. caller' = [caller EXCEPT ![c] = [caller[c] EXCEPT !.pc = "chat", !.prompt = id]]
    BY <1>5 DEF Answer
  <2> QED  BY <1>1, <2>1, <2>2 DEF TypeOK
<1>6. ASSUME NEW c \in Callers, Begin(c)  PROVE TypeOK'
  <2>1. PICK v \in Versions, t \in Texts, p \in Policies :
          caller' = [caller EXCEPT ![c] = [IdleCall EXCEPT !.pc = "read", !.version = v,
                                                           !.text = t, !.policy = p]]
    BY <1>6 DEF Begin
  <2>2. v \in Nat /\ p \in AllPolicies
    BY VersionAssumption, PolicyAssumption
  <2>3. [IdleCall EXCEPT !.pc = "read", !.version = v, !.text = t, !.policy = p] \in Call
    BY <2>2 DEF IdleCall, Call
  <2>4. caller' \in [Callers -> Call]
    BY <1>1, <2>1, <2>3 DEF TypeOK
  <2> QED  BY <1>1, <1>2, <1>6, <2>4 DEF TypeOK, Begin
<1>7. ASSUME NEW c \in Callers, Read(c)  PROVE TypeOK'
  <2>1. Me(c).version \in Nat
    BY <1>3 DEF Me, Call
  <2>2. caller' \in [Callers -> Call]
    BY <1>1, <1>3, <1>4, <1>5, <1>7, <2>1 DEF Read, TypeOK
  <2> QED  BY <1>1, <1>2, <1>7, <2>2 DEF TypeOK, Read
<1>8. ASSUME NEW c \in Callers, Insert(c) \/ Update(c) \/ Bump(c)  PROVE TypeOK'
  <2>1. Me(c).version \in Nat /\ (At(c, "bump") => Me(c).prompt \in Nat)
    BY <1>1, <1>3 DEF Me, Call, FrameOK
  <2>2. caller' \in [Callers -> Call]
    BY <1>5, <1>8, <2>1 DEF Insert, Update, Bump
  <2> QED  BY <1>1, <1>2, <1>8, <2>2 DEF TypeOK, Insert, Update, Bump
<1>9. ASSUME NEW c \in Callers, Used(c) \/ Chat(c)  PROVE TypeOK'
  <2>1. caller' \in [Callers -> Call]
    BY <1>4, <1>9 DEF Used, Chat
  <2> QED  BY <1>1, <1>2, <1>9, <2>1 DEF TypeOK, Used, Chat
<1>10. ASSUME NEW c \in Callers, ReadMax(c)  PROVE TypeOK'
  <2>1. Known # {}
    BY <1>1, <1>10 DEF ReadMax, FrameOK
  <2>2. NextVersion(c) \in Nat
    BY <1>1, <2>1, NextIsFree
  <2>3. caller' \in [Callers -> Call]
    <3>1. [caller[c] EXCEPT !.pc = "bump", !.prompt = NextVersion(c)] \in Call
      BY <1>3, <2>2 DEF Call
    <3>2. caller' = [caller EXCEPT
            ![c] = [caller[c] EXCEPT !.pc = "bump", !.prompt = NextVersion(c)]]
      BY <1>10 DEF ReadMax
    <3> QED  BY <1>1, <3>1, <3>2 DEF TypeOK
  <2> QED  BY <1>1, <1>2, <1>10, <2>3 DEF TypeOK, ReadMax
<1>11. ASSUME NEW c \in Callers, Record(c)  PROVE TypeOK'
  <2>1. Me(c).prompt \in Nat /\ Me(c).text \in Texts /\ Me(c).policy \in AllPolicies
    BY <1>1, <1>3, <1>11 DEF Record, AlwaysRegistered, FrameOK, At
  <2>2. runs' \subseteq [cites : Nat, text : Texts, policy : AllPolicies]
    BY <1>1, <1>11, <2>1 DEF Record, TypeOK
  <2>3. caller' \in [Callers -> Call]
    BY <1>1, <1>3, <1>11 DEF Record, TypeOK
  <2> QED  BY <1>1, <1>2, <1>11, <2>2, <2>3 DEF TypeOK, Record
<1>12. CASE UNCHANGED vars
  BY <1>1, <1>2, <1>12 DEF TypeOK, vars
<1> QED  BY <1>6, <1>7, <1>8, <1>9, <1>10, <1>11, <1>12 DEF Next

\* Whatever a step does, each caller carries what its point needs, and whoever goes on
\* to the call has a row.
LEMMA FrameStep ==
  ASSUME RegistryInv, [Next]_vars
  PROVE  (\A c \in Callers : FrameOK(c)') /\ AlwaysRegistered'
<1>1. TypeOK /\ (\A c \in Callers : FrameOK(c)) /\ AlwaysRegistered /\ HasLatest
  BY DEF RegistryInv
<1>2. Known \subseteq Known'
  BY RowsStay
<1> DEFINE Cites(d) == At(d, "chat") \/ At(d, "record") => Me(d).prompt \in Known
<1>3. ASSUME NEW d \in Callers, caller'[d] = caller[d]
      PROVE  FrameOK(d)' /\ Cites(d)'
  <2>1. FrameOK(d) /\ Cites(d)
    BY <1>1 DEF AlwaysRegistered
  <2> QED  BY <1>2, <1>3, <2>1 DEF FrameOK, At, Me
<1>4. ASSUME NEW c \in Callers,
             \/ Begin(c) \/ Read(c) \/ Insert(c) \/ Used(c) \/ Update(c) \/ ReadMax(c)
             \/ Bump(c) \/ Chat(c) \/ Record(c)
      PROVE  FrameOK(c)' /\ Cites(c)'
  <2>0. FrameOK(c) /\ Cites(c) /\ caller \in [Callers -> Call]
    BY <1>1 DEF AlwaysRegistered, TypeOK
  <2>1. CASE Begin(c)
    <3>1. PICK v \in Versions, t \in Texts, p \in Policies :
            caller' = [caller EXCEPT ![c] = [IdleCall EXCEPT !.pc = "read", !.version = v,
                                                             !.text = t, !.policy = p]]
      BY <2>1 DEF Begin
    <3>2. v \in Nat \ {0} /\ p \in AllPolicies
      BY VersionAssumption, PolicyAssumption
    <3>3. /\ caller'[c].pc = "read" /\ caller'[c].version = v
          /\ caller'[c].text = t /\ caller'[c].policy = p
      BY <2>0, <3>1 DEF IdleCall
    <3> QED  BY <3>2, <3>3 DEF FrameOK, At, Me
  <2>2. CASE Read(c)
    BY <1>2, <2>0, <2>2 DEF Read, Goto, Answer, FrameOK, At, Me, Call, AllPolicies, IdleCall
  <2>3. CASE Insert(c)
    <3>1. Me(c).version \in Nat \ {0} /\ Me(c).text \in Texts
      BY <2>0, <2>3 DEF Insert, FrameOK, At
    <3>2. Me(c).version \in Known'
      BY <1>1, <2>3, <3>1, InsertEffect DEF Insert
    <3>3. /\ caller'[c].pc = "chat" /\ caller'[c].prompt = Me(c).version
          /\ caller'[c].version = Me(c).version /\ caller'[c].text = Me(c).text
          /\ caller'[c].policy = Me(c).policy
      BY <2>0, <2>3 DEF Insert, Answer, Me, Call
    <3> QED  BY <2>0, <2>3, <3>1, <3>2, <3>3 DEF Insert, FrameOK, At, Me
  <2>4. CASE Used(c)
    BY <1>2, <2>0, <2>4 DEF Used, Goto, FrameOK, At, Me, Call
  <2>5. CASE Update(c)
    BY <1>2, <2>0, <2>5 DEF Update, Answer, FrameOK, At, Me, Call
  <2>6. CASE ReadMax(c)
    <3>1. Known # {}
      BY <2>0, <2>6 DEF ReadMax, FrameOK
    <3>2. NextVersion(c) \in Nat \ {0}
      BY <1>1, <3>1, NextIsFree
    <3>3. /\ caller'[c].pc = "bump" /\ caller'[c].prompt = NextVersion(c)
          /\ caller'[c].version = Me(c).version /\ caller'[c].text = Me(c).text
          /\ caller'[c].policy = Me(c).policy
      BY <2>0, <2>6 DEF ReadMax, Me, Call
    <3> QED  BY <1>2, <2>0, <2>6, <3>2, <3>3 DEF ReadMax, FrameOK, At, Me
  <2>7. CASE Bump(c)
    <3>1. Me(c).prompt \in Nat \ {0} /\ Me(c).text \in Texts
      BY <2>0, <2>7 DEF Bump, FrameOK, At
    <3>2. Me(c).prompt \in Known'
      BY <1>1, <2>7, <3>1, InsertEffect DEF Bump
    <3>3. /\ caller'[c].pc = "chat" /\ caller'[c].prompt = Me(c).prompt
          /\ caller'[c].version = Me(c).version /\ caller'[c].text = Me(c).text
          /\ caller'[c].policy = Me(c).policy
      BY <2>0, <2>7 DEF Bump, Answer, Me, Call
    <3> QED  BY <2>0, <2>7, <3>1, <3>2, <3>3 DEF Bump, FrameOK, At, Me
  <2>8. CASE Chat(c)
    BY <1>2, <2>0, <2>8 DEF Chat, Goto, FrameOK, At, Me, Call
  <2>9. CASE Record(c)
    BY <2>0, <2>9 DEF Record, IdleCall, FrameOK, At, Me
  <2> QED  BY <1>4, <2>1, <2>2, <2>3, <2>4, <2>5, <2>6, <2>7, <2>8, <2>9
<1>5. ASSUME NEW d \in Callers
      PROVE  FrameOK(d)' /\ Cites(d)'
  <2>1. CASE UNCHANGED vars
    BY <1>3, <2>1 DEF vars
  <2>2. ASSUME NEW c \in Callers,
               \/ Begin(c) \/ Read(c) \/ Insert(c) \/ Used(c) \/ Update(c) \/ ReadMax(c)
               \/ Bump(c) \/ Chat(c) \/ Record(c)
        PROVE  FrameOK(d)' /\ Cites(d)'
    <3>1. CASE d = c
      BY <1>4, <2>2, <3>1
    <3>2. CASE d # c
      <4>1. caller'[d] = caller[d]
        BY <1>1, <2>2, <3>2, OthersStay
      <4> QED  BY <1>3, <4>1
    <3> QED  BY <3>1, <3>2
  <2> QED  BY <2>1, <2>2 DEF Next
<1>6. \A r \in runs' : r.cites \in Known'
  <2>1. \A r \in runs : r.cites \in Known'
    BY <1>1, <1>2 DEF AlwaysRegistered
  <2>2. CASE runs' = runs
    BY <2>1, <2>2
  <2>3. ASSUME NEW c \in Callers, Record(c)
        PROVE  \A r \in runs' : r.cites \in Known'
    BY <1>1, <1>2, <2>1, <2>3 DEF Record, AlwaysRegistered, Me
  <2>4. runs' = runs \/ \E c \in Callers : Record(c)
    BY DEF Next, vars, Begin, Read, Insert, Used, Update, ReadMax, Bump, Chat
  <2> QED  BY <2>2, <2>3, <2>4
<1> QED  BY <1>5, <1>6 DEF AlwaysRegistered

LEMMA RegistryInit == Init => RegistryInv
BY DEF Init, RegistryInv, TypeOK, HasLatest, FrameOK, AlwaysRegistered, Known, At, Me, Call,
       Pcs, IdleCall

LEMMA RegistryStep ==
  ASSUME RegistryInv, [Next]_vars
  PROVE  RegistryInv'
BY TypeStep, RowsStay, FrameStep DEF RegistryInv

\* TypeOK: every variable keeps its type.
THEOREM TypeCorrect == Spec => []TypeOK
<1>1. RegistryInv => TypeOK
  BY DEF RegistryInv
<1> QED  BY <1>1, RegistryInit, RegistryStep, PTL DEF Spec

\* AlwaysRegistered: resolve_prompt_id answers the id of a row, also to the callers that
\* lost a race for an INSERT, and no row a run cites is lost.
THEOREM EveryCallCites == Spec => []AlwaysRegistered
<1>1. RegistryInv => AlwaysRegistered
  BY DEF RegistryInv
<1> QED  BY <1>1, RegistryInit, RegistryStep, PTL DEF Spec

-----------------------------------------------------------------------------
(* Calls with update_unused that overlap with no other call. *)

UpdatesAlone == "update_unused" \in Exclusive

Updating(c) == ~At(c, "idle") /\ Me(c).policy = "update_unused"

Alone == \A c, d \in Callers : c # d /\ Updating(c) => At(d, "idle")

\* What the caller has found out is still so.
FoundOK(c) ==
  /\ At(c, "insert") /\ Updating(c) => Me(c).version \notin Known
  /\ At(c, "bump") => Me(c).prompt \notin Known
  /\ At(c, "update") => ~Cited(Me(c).version)
  /\ (At(c, "chat") \/ At(c, "record")) /\ Updating(c) => prompts[Me(c).prompt] = Me(c).text

AloneInv ==
  /\ RegistryInv
  /\ Alone
  /\ \A c \in Callers : FoundOK(c)
  /\ RunsCiteTheirText

\* While one caller updates, no other caller takes a step.
LEMMA NobodyElse ==
  ASSUME UpdatesAlone, AloneInv, NEW c \in Callers, NEW d \in Callers \ {c},
         Updating(d),
         \/ Begin(c) \/ Read(c) \/ Insert(c) \/ Used(c) \/ Update(c) \/ ReadMax(c) \/ Bump(c)
         \/ Chat(c) \/ Record(c)
  PROVE  FALSE
<1>1. At(c, "idle")
  BY DEF AloneInv, Alone
<1>2. Begin(c)
  BY <1>1 DEF At, Read, Insert, Used, Update, ReadMax, Bump, Chat, Record
<1>3. \E p \in Policies : MayBegin(p)
  BY <1>2 DEF Begin
<1> QED  BY <1>3 DEF MayBegin, Updating, UpdatesAlone

\* A caller keeps its policy until it is done.
LEMMA AloneStep ==
  ASSUME UpdatesAlone, AloneInv, [Next]_vars
  PROVE  Alone'
<1>1. TypeOK /\ Alone
  BY DEF AloneInv, RegistryInv
<1>2. ASSUME NEW c \in Callers,
             \/ Read(c) \/ Insert(c) \/ Used(c) \/ Update(c) \/ ReadMax(c)
             \/ Bump(c) \/ Chat(c) \/ Record(c)
      PROVE  Updating(c)' => Updating(c)
  BY <1>1, <1>2 DEF TypeOK, Call, Updating, Read, Insert, Used, Update, ReadMax, Bump, Chat,
                    Record, Goto, Answer, At, Me, IdleCall
<1>3. ASSUME NEW c \in Callers,
             \/ Read(c) \/ Insert(c) \/ Used(c) \/ Update(c) \/ ReadMax(c)
             \/ Bump(c) \/ Chat(c) \/ Record(c)
      PROVE  Alone'
  <2>1. \A d \in Callers \ {c} : caller'[d] = caller[d]
    BY <1>1, <1>3, OthersStay
  <2>2. \A d \in Callers \ {c} : ~Updating(d)
    BY <1>3, NobodyElse
  <2>3. \A d \in Callers \ {c} : ~Updating(d)'
    BY <2>1, <2>2 DEF Updating, At, Me
  <2>4. Updating(c)' => \A d \in Callers \ {c} : At(d, "idle")'
    BY <1>1, <1>2, <1>3, <2>1 DEF Alone, At
  <2> QED  BY <2>3, <2>4 DEF Alone
<1>4. ASSUME NEW c \in Callers, Begin(c)
      PROVE  Alone'
  <2>1. \A d \in Callers \ {c} : caller'[d] = caller[d]
    BY <1>1, <1>4, OthersStay
  <2>2. \A d \in Callers \ {c} : ~Updating(d)'
    <3>1. \A d \in Callers \ {c} : ~Updating(d)
      BY <1>4, NobodyElse
    <3> QED  BY <2>1, <3>1 DEF Updating, At, Me
  <2>3. PICK v \in Versions, t \in Texts, p \in Policies :
          /\ MayBegin(p)
          /\ caller' = [caller EXCEPT ![c] = [IdleCall EXCEPT !.pc = "read", !.version = v,
                                                              !.text = t, !.policy = p]]
    BY <1>4 DEF Begin
  <2>4. caller'[c].policy = p
    BY <1>1, <2>3 DEF TypeOK, IdleCall
  <2>5. p = "update_unused" => \A d \in Callers : At(d, "idle")
    BY <2>3 DEF MayBegin, UpdatesAlone
  <2>6. Updating(c)' => \A d \in Callers \ {c} : At(d, "idle")'
    BY <2>1, <2>4, <2>5 DEF Updating, At, Me
  <2> QED  BY <2>2, <2>6 DEF Alone
<1>5. CASE UNCHANGED vars
  BY <1>1, <1>5 DEF Alone, Updating, At, Me, vars
<1> QED  BY <1>3, <1>4, <1>5 DEF Next

\* The text of a cited row: no statement of the transaction changes it.
LEMMA FrozenStep ==
  ASSUME AloneInv, [Next]_vars
  PROVE  \A r \in runs : prompts'[r.cites] = prompts[r.cites]
<1>1. /\ TypeOK /\ HasLatest /\ (\A c \in Callers : FrameOK(c))
      /\ (\A c \in Callers : FoundOK(c)) /\ (\A r \in runs : r.cites \in Known)
  BY DEF AloneInv, RegistryInv, AlwaysRegistered
<1>2. ASSUME NEW c \in Callers, Insert(c)
      PROVE  \A r \in runs : prompts'[r.cites] = prompts[r.cites]
  <2>1. Me(c).version \in Nat \ {0} /\ Me(c).text \in Texts
    BY <1>1, <1>2 DEF Insert, FrameOK, At
  <2> QED  BY <1>1, <1>2, <2>1, InsertEffect DEF Insert
<1>3. ASSUME NEW c \in Callers, Bump(c)
      PROVE  \A r \in runs : prompts'[r.cites] = prompts[r.cites]
  <2>1. Me(c).prompt \in Nat \ {0} /\ Me(c).text \in Texts
    BY <1>1, <1>3 DEF Bump, FrameOK, At
  <2> QED  BY <1>1, <1>3, <2>1, InsertEffect DEF Bump
<1>4. ASSUME NEW c \in Callers, Update(c)
      PROVE  \A r \in runs : prompts'[r.cites] = prompts[r.cites]
  <2>1. Me(c).version \in Known /\ Me(c).text \in Texts /\ ~Cited(Me(c).version)
    BY <1>1, <1>4 DEF Update, FrameOK, FoundOK, At
  <2>2. prompts' = [prompts EXCEPT ![Me(c).version] = Me(c).text]
    BY <1>4 DEF Update
  <2>3. \A w \in Known : w # Me(c).version => prompts'[w] = prompts[w]
    BY <1>1, <2>1, <2>2, UpdateEffect
  <2> QED  BY <1>1, <2>1, <2>3 DEF Cited
<1> QED
  <2>1. \/ UNCHANGED prompts
        \/ \E c \in Callers : Insert(c) \/ Bump(c) \/ Update(c)
    BY DEF Next, vars, Begin, Read, Used, ReadMax, Chat, Record
  <2> QED  BY <1>2, <1>3, <1>4, <2>1

\* What the moving caller finds out.
LEMMA FoundMover ==
  ASSUME UpdatesAlone, AloneInv, NEW c \in Callers,
         \/ Begin(c) \/ Read(c) \/ Insert(c) \/ Used(c) \/ Update(c) \/ ReadMax(c)
         \/ Bump(c) \/ Chat(c) \/ Record(c)
  PROVE  FoundOK(c)'
<1>1. /\ TypeOK /\ HasLatest /\ FrameOK(c) /\ FoundOK(c)
      /\ caller \in [Callers -> Call] /\ caller[c] \in Call
  BY DEF AloneInv, RegistryInv, TypeOK
<1>2. CASE Begin(c)
  BY <1>1, <1>2 DEF Begin, IdleCall, FoundOK, At
<1>3. CASE Read(c)
  <2>1. Known' = Known /\ prompts' = prompts
    BY <1>3 DEF Read, Known
  <2>2. CASE Me(c).version \notin Known
    <3>1. caller'[c].pc = "insert" /\ caller'[c].version = Me(c).version
      BY <1>1, <1>3, <2>2 DEF Read, Goto, Me, Call
    <3> QED  BY <2>1, <2>2, <3>1 DEF FoundOK, At, Me
  <2>3. CASE Me(c).version \in Known
    <3>1. \/ /\ caller'[c].pc = "chat" /\ caller'[c].prompt = Me(c).version
             /\ caller'[c].text = Me(c).text /\ caller'[c].policy = Me(c).policy
             /\ prompts[Me(c).version] = Me(c).text \/ Me(c).policy = "keep_first"
          \/ caller'[c].pc \in {"idle", "used"}
      BY <1>1, <1>3, <2>3 DEF Read, Goto, Answer, Me, Call, IdleCall
    <3> QED  BY <2>1, <3>1 DEF FoundOK, Updating, At, Me
  <2> QED  BY <2>2, <2>3
<1>4. CASE Insert(c)
  <2>1. Me(c).version \in Nat \ {0} /\ Me(c).text \in Texts
    BY <1>1, <1>4 DEF Insert, FrameOK, At
  <2>2. Updating(c) => prompts'[Me(c).version] = Me(c).text
    BY <1>1, <1>4, <2>1, InsertEffect DEF Insert, FoundOK
  <2>3. /\ caller'[c].pc = "chat" /\ caller'[c].prompt = Me(c).version
        /\ caller'[c].text = Me(c).text /\ caller'[c].policy = Me(c).policy
    BY <1>1, <1>4 DEF Insert, Answer, Me, Call
  <2> QED  BY <1>4, <2>2, <2>3 DEF FoundOK, Updating, Insert, At, Me
<1>5. CASE Used(c)
  <2>1. /\ caller'[c].pc = (IF Cited(Me(c).version) THEN "max" ELSE "update")
        /\ caller'[c].version = Me(c).version
        /\ runs' = runs
    BY <1>1, <1>5 DEF Used, Goto, Me, Call
  <2> QED  BY <2>1 DEF FoundOK, Cited, At, Me
<1>6. CASE Update(c)
  <2>1. Me(c).version \in Known /\ Me(c).text \in Texts
    BY <1>1, <1>6 DEF Update, FrameOK, At
  <2>2. prompts'[Me(c).version] = Me(c).text
    <3>1. prompts' = [prompts EXCEPT ![Me(c).version] = Me(c).text]
      BY <1>6 DEF Update
    <3> QED  BY <1>1, <2>1, <3>1, UpdateEffect
  <2>3. /\ caller'[c].pc = "chat" /\ caller'[c].prompt = Me(c).version
        /\ caller'[c].text = Me(c).text
    BY <1>1, <1>6 DEF Update, Answer, Me, Call
  <2> QED  BY <2>2, <2>3 DEF FoundOK, At, Me
<1>7. CASE ReadMax(c)
  <2>1. Known # {}
    BY <1>1, <1>7 DEF ReadMax, FrameOK
  <2>2. NextVersion(c) \notin Known
    BY <1>1, <2>1, NextIsFree
  <2>3. caller'[c].pc = "bump" /\ caller'[c].prompt = NextVersion(c) /\ Known' = Known
    BY <1>1, <1>7 DEF ReadMax, Me, Call, Known
  <2> QED  BY <2>2, <2>3 DEF FoundOK, At, Me
<1>8. CASE Bump(c)
  <2>1. Me(c).prompt \in Nat \ {0} /\ Me(c).text \in Texts
    BY <1>1, <1>8 DEF Bump, FrameOK, At
  <2>2. prompts'[Me(c).prompt] = Me(c).text
    BY <1>1, <1>8, <2>1, InsertEffect DEF Bump, FoundOK
  <2>3. /\ caller'[c].pc = "chat" /\ caller'[c].prompt = Me(c).prompt
        /\ caller'[c].text = Me(c).text
    BY <1>1, <1>8 DEF Bump, Answer, Me, Call
  <2> QED  BY <2>2, <2>3 DEF FoundOK, At, Me
<1>9. CASE Chat(c)
  BY <1>1, <1>9 DEF Chat, Goto, FoundOK, Updating, At, Me, Call
<1>10. CASE Record(c)
  BY <1>1, <1>10 DEF Record, IdleCall, FoundOK, At
<1> QED  BY <1>2, <1>3, <1>4, <1>5, <1>6, <1>7, <1>8, <1>9, <1>10

LEMMA FoundStep ==
  ASSUME UpdatesAlone, AloneInv, [Next]_vars, NEW d \in Callers
  PROVE  FoundOK(d)'
<1>1. TypeOK /\ FoundOK(d) /\ FrameOK(d)
  BY DEF AloneInv, RegistryInv
<1>2. ASSUME NEW c \in Callers,
             \/ Begin(c) \/ Read(c) \/ Insert(c) \/ Used(c) \/ Update(c) \/ ReadMax(c)
             \/ Bump(c) \/ Chat(c) \/ Record(c)
      PROVE  FoundOK(d)'
  <2>1. CASE d = c
    BY <1>2, <2>1, FoundMover
  <2>2. CASE d # c
    <3>1. caller'[d] = caller[d]
      BY <1>1, <1>2, <2>2, OthersStay
    <3>2. ~Updating(d)
      BY <1>2, <2>2, NobodyElse
    <3>3. ~At(d, "bump") /\ ~At(d, "update")
      BY <1>1, <3>2 DEF FrameOK, Updating, At
    <3> QED  BY <3>1, <3>2, <3>3 DEF FoundOK, Updating, At, Me
  <2> QED  BY <2>1, <2>2
<1>3. CASE UNCHANGED vars
  BY <1>1, <1>3 DEF FoundOK, Updating, Known, Cited, At, Me, vars
<1> QED  BY <1>2, <1>3 DEF Next

LEMMA CitesStep ==
  ASSUME AloneInv, [Next]_vars
  PROVE  RunsCiteTheirText'
<1>1. \A r \in runs : prompts'[r.cites] = prompts[r.cites]
  BY FrozenStep
<1>2. RunsCiteTheirText /\ \A c \in Callers : FoundOK(c)
  BY DEF AloneInv
<1>3. ASSUME NEW c \in Callers, Record(c)
      PROVE  RunsCiteTheirText'
  <2>1. /\ prompts' = prompts
        /\ \/ runs' = runs
           \/ runs' = runs \cup {[cites |-> Me(c).prompt, text |-> Me(c).text,
                                  policy |-> Me(c).policy]}
    BY <1>3 DEF Record
  <2>2. Me(c).policy = "update_unused" => prompts[Me(c).prompt] = Me(c).text
    BY <1>2, <1>3 DEF Record, FoundOK, Updating, At
  <2> QED  BY <1>2, <2>1, <2>2 DEF RunsCiteTheirText
<1>4. CASE runs' = runs
  BY <1>1, <1>2, <1>4 DEF RunsCiteTheirText
<1>5. runs' = runs \/ \E c \in Callers : Record(c)
  BY DEF Next, vars, Begin, Read, Insert, Used, Update, ReadMax, Bump, Chat
<1> QED  BY <1>3, <1>4, <1>5

LEMMA AloneInit == Init => AloneInv
<1>1. Init => Alone /\ (\A c \in Callers : FoundOK(c)) /\ RunsCiteTheirText
  BY DEF Init, Alone, FoundOK, Updating, RunsCiteTheirText, At, IdleCall
<1> QED  BY <1>1, RegistryInit DEF AloneInv

LEMMA AloneInvStep ==
  ASSUME UpdatesAlone, AloneInv, [Next]_vars
  PROVE  AloneInv'
<1>1. RegistryInv'
  BY RegistryStep DEF AloneInv
<1> QED  BY <1>1, AloneStep, FoundStep, CitesStep DEF AloneInv

\* RunsCiteTheirText: a run recorded under update_unused cites a row with the text that
\* it sent, if calls under that policy do not overlap with others.
THEOREM CitesWhatItSent ==
  ASSUME UpdatesAlone
  PROVE  Spec => []RunsCiteTheirText
<1>1. AloneInv => RunsCiteTheirText
  BY DEF AloneInv
<1>2. AloneInv /\ [Next]_vars => AloneInv'
  BY AloneInvStep
<1> QED  BY <1>1, <1>2, AloneInit, PTL DEF Spec

\* CitedTextFrozen: under the same assumption no statement of resolve_prompt_id changes
\* the text of a row that a run cites.
THEOREM CitedIsFrozen ==
  ASSUME UpdatesAlone
  PROVE  Spec => CitedTextFrozen
<1>1. AloneInv /\ [Next]_vars => [\A r \in runs : prompts'[r.cites] = prompts[r.cites]]_vars
  BY FrozenStep
<1>2. AloneInv /\ [Next]_vars => AloneInv'
  BY AloneInvStep
<1> QED  BY <1>1, <1>2, AloneInit, PTL DEF Spec, CitedTextFrozen
\* CitesWhatIsThere: under the same assumption every run cites a row that is there, and
\* under update_unused one that holds the text that the run sent.
THEOREM CitesIsThere ==
  ASSUME UpdatesAlone
  PROVE  Spec => []CitesWhatIsThere
BY EveryCallCites, CitesWhatItSent, PTL DEF CitesWhatIsThere
=============================================================================

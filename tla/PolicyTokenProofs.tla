------------------------- MODULE PolicyTokenProofs --------------------------
(***************************************************************************)
(* Proofs about policy tokens, for every number of token slots and of      *)
(* generations, over the proofs about the kernel.  Three facts about the   *)
(* tokens are inductive with the kernel's type invariant and its lineage   *)
(* invariant Parented: the generation of a slot is ahead of every handle   *)
(* that was spent; the capability a token is bound to is never ahead of    *)
(* its table; and the capability of a token that has lapsed stays invalid, *)
(* because an entry that stays in place does not become valid again.       *)
(***************************************************************************)
EXTENDS PolicyTokens, KernelProofs

(* A slot stands past every handle of it that was spent.                   *)
SpentBehind == \A x \in spent : x.gen < token[x.slot].gen

(* The capability of an approval is or was in its table.                   *)
GrantPast ==
  \A s \in TokenSlot : token[s].active =>
    LET g == token[s].grant
        e == ent[<<g.owner, g.cap.slot>>]
    IN  /\ g.cap.gen # 0
        /\ \/ e.gen = 0
           \/ e.gen > g.cap.gen
           \/ e.gen = g.cap.gen /\ e.active

(* A lapsed approval is bound to a capability that is not valid.           *)
LapsedDead ==
  \A s \in lapsed : ~Valid(incn, ent, token[s].grant.owner, token[s].grant.cap)

TokenInv == TokenTypeOK /\ EntryInv /\ Parented /\ SpentBehind /\ GrantPast /\ LapsedDead

(* What a step does to the tokens: nothing, one is minted in a free slot   *)
(* for a capability that is valid, or one is spent.                        *)
Mints(s) ==
  /\ ~token[s].active
  /\ \E g \in Grant :
       /\ Valid(incn, ent, g.owner, g.cap)
       /\ token' = [token EXCEPT ![s] = [active |-> TRUE, gen |-> FirstGen(@.gen), grant |-> g]]
  /\ UNCHANGED <<vars, clock, spent>>

Spends(k) == Current(k) /\ Clear(k) /\ UNCHANGED vars

TokenShape ==
  \/ [Next]_vars /\ UNCHANGED <<token, spent>>
  \/ \E s \in TokenSlot : Mints(s)
  \/ \E k \in TokenHandle : Spends(k)

(* A slot of a token is in its range, and its entry has the fields it was  *)
(* given.                                                                  *)
LEMMA TokenFacts ==
  /\ \A g \in 0 .. MaxTokenGen : g \in Nat /\ FirstGen(g) \in 1 .. MaxTokenGen /\ FirstGen(g) >= g
  /\ \A e \in Token : /\ EntryCleared(e) \in Token /\ ~EntryCleared(e).active
                      /\ EntryCleared(e).gen = 0 \/ EntryCleared(e).gen = e.gen + 1
  /\ \A k \in TokenHandle : k.slot \in TokenSlot /\ k.gen \in 0 .. MaxTokenGen
                            /\ k.gen \in Nat
<1>1. MaxTokenGen \in Nat \ {0}
  BY PolicyTokenAssumption
<1>2. ASSUME NEW g \in 0 .. MaxTokenGen
      PROVE  g \in Nat /\ FirstGen(g) \in 1 .. MaxTokenGen /\ FirstGen(g) >= g
  BY <1>1 DEF FirstGen
<1>3. ASSUME NEW e \in Token
      PROVE  /\ EntryCleared(e) \in Token /\ ~EntryCleared(e).active
             /\ EntryCleared(e).gen = 0 \/ EntryCleared(e).gen = e.gen + 1
  <2>1. e.gen \in 0 .. MaxTokenGen
    BY DEF Token
  <2>2. (IF e.gen = MaxTokenGen THEN 0 ELSE e.gen + 1) \in 0 .. MaxTokenGen
    BY <1>1, <2>1
  <2> QED BY <2>2 DEF EntryCleared, Token
<1>4. ASSUME NEW k \in TokenHandle
      PROVE  k.slot \in TokenSlot /\ k.gen \in 0 .. MaxTokenGen /\ k.gen \in Nat
  BY <1>1 DEF TokenHandle
<1> QED BY <1>2, <1>3, <1>4

(* Every step is one of the three kinds.                                   *)
LEMMA ShapeOfTokenNext ==
  ASSUME TokenTypeOK, TokenNext
  PROVE  TokenShape /\ clock' \in 0 .. MaxClock
<1>1. clock \in 0 .. MaxClock /\ MaxClock \in Nat
  BY PolicyTokenAssumption DEF TokenTypeOK
<1>2. CASE KernelStep
  BY <1>1, <1>2 DEF KernelStep, TokenShape, tokenVars
<1>3. ASSUME NEW p \in Proc, NEW h \in Handle, NEW c \in Handle, NEW owner \in Proc,
             NEW nonce \in Nonce, NEW expires \in Deadline,
             TokenMint(p, h, owner, c, nonce, expires)
      PROVE  TokenShape /\ clock' \in 0 .. MaxClock
  <2> DEFINE g == [owner |-> owner, cap |-> c, nonce |-> nonce, expires |-> expires]
  <2>1. g \in Grant /\ g.owner = owner /\ g.cap = c
    BY DEF Grant
  <2>2. PICK s \in TokenSlot :
          /\ ~token[s].active
          /\ token' = [token EXCEPT ![s] = [active |-> TRUE, gen |-> FirstGen(@.gen), grant |-> g]]
    BY <1>3 DEF TokenMint
  <2>3. Valid(incn, ent, g.owner, g.cap) /\ UNCHANGED <<vars, clock, spent>>
    BY <1>3, <2>1 DEF TokenMint
  <2> HIDE DEF g
  <2>4. Mints(s)
    BY <2>1, <2>2, <2>3 DEF Mints
  <2> QED BY <1>1, <2>3, <2>4 DEF TokenShape
<1>4. ASSUME NEW p \in Proc, NEW k \in TokenHandle, NEW c \in Handle, NEW nonce \in Nonce,
             TokenConsume(p, k, c, nonce)
      PROVE  TokenShape /\ clock' \in 0 .. MaxClock
  <2>1. clock' \in 0 .. MaxClock /\ UNCHANGED vars
    BY <1>1, <1>4 DEF TokenConsume
  <2>2. CASE Accepts(k, p, c, nonce, clock + 1)
    BY <1>4, <2>1, <2>2 DEF TokenConsume, Accepts, Spends, TokenShape
  <2>3. CASE ~Accepts(k, p, c, nonce, clock + 1)
    BY <1>4, <2>1, <2>3 DEF TokenConsume, TokenShape
  <2> QED BY <2>1, <2>2, <2>3
<1>5. ASSUME NEW p \in Proc, NEW k \in TokenHandle, TokenRevoke(p, k)
      PROVE  TokenShape /\ clock' \in 0 .. MaxClock
  BY <1>1, <1>5 DEF TokenRevoke, Spends, TokenShape
<1> QED BY <1>2, <1>3, <1>4, <1>5 DEF TokenNext, TokenStep

(* The kernel's part of the invariant.                                     *)
LEMMA TokenKernelStep ==
  ASSUME TokenInv, [Next]_vars
  PROVE  TypeOK' /\ EntryInv' /\ Parented'
<1>1. TypeOK /\ EntryInv /\ Parented
  BY DEF TokenInv, TokenTypeOK
<1>2. TypeOK' /\ EntryInv'
  BY <1>1, TypeStep
<1>3. CASE Next
  BY <1>1, <1>2, <1>3, ParentedStep
<1>4. CASE UNCHANGED vars
  BY <1>1, <1>2, <1>4 DEF vars, Parented
<1> QED BY <1>2, <1>3, <1>4

(* A capability that was in its table and is not valid does not become so. *)
LEMMA StaysInvalid ==
  ASSUME TypeOK, EntryInv, Parented, [Next]_vars, NEW t \in Proc, NEW c \in Handle, c.gen # 0,
         \/ ent[<<t, c.slot>>].gen = 0
         \/ ent[<<t, c.slot>>].gen > c.gen
         \/ ent[<<t, c.slot>>].gen = c.gen /\ ent[<<t, c.slot>>].active,
         ~Valid(incn, ent, t, c)
  PROVE  ~Valid(incn', ent', t, c)
<1> DEFINE r == <<t, c.slot>>
<1>1. CASE UNCHANGED vars
  <2>1. ent' = ent /\ incn' = incn
    BY <1>1 DEF vars, procVars, incn, Incarnation
  <2> QED BY <2>1
<1>2. CASE Next
  <2> SUFFICES ASSUME Valid(incn', ent', t, c) PROVE FALSE
    OBVIOUS
  <2>1. ent'[r].active /\ ent'[r].gen = c.gen /\ r \in LivePos'
    BY DEF Valid, LivePos
  <2>2. r \in Pos
    BY PosFacts
  <2> HIDE DEF r
  <2>3. EntryStep(r) /\ ent[r] \in Entry
    BY <1>2, <2>2, TablesStepOfNext DEF TablesStep, TypeOK
  <2>4. ent[r].gen \in Nat /\ c.gen \in Nat
    BY <2>3, CapabilityAssumption DEF Entry, Handle
  <2>5. CASE ent'[r] = ent[r]
    <3>1. r \in LivePos
      BY <1>2, <2>1, <2>5, NoRepair
    <3> QED BY <2>1, <2>5, <3>1 DEF r, Valid, LivePos
  <2>6. CASE Retired(r)
    BY <2>1, <2>3, <2>6, RetireType DEF Retired
  <2>7. CASE Reaped(r)
    BY <2>1, <2>7 DEF Reaped, Blank
  <2>8. CASE Filled(r)
    BY <2>1, <2>4, <2>8 DEF Filled, r
  <2> QED BY <2>3, <2>5, <2>6, <2>7, <2>8 DEF EntryStep
<1> QED BY <1>1, <1>2

(* Every step keeps the invariant of the tokens.                           *)
LEMMA TokenInvStep ==
  ASSUME TokenInv, TokenNext
  PROVE  TokenInv'
<1>1. TokenShape /\ clock' \in 0 .. MaxClock
  BY ShapeOfTokenNext DEF TokenInv
<1>2. [Next]_vars
  BY <1>1 DEF TokenShape, Mints, Spends
<1>3. TypeOK' /\ EntryInv' /\ Parented'
  BY <1>2, TokenKernelStep
<1>4. /\ token \in [TokenSlot -> Token] /\ spent \subseteq TokenHandle
      /\ \A s \in TokenSlot : token[s].active => token[s].gen # 0 /\ token[s].grant \in Grant
      /\ \A s \in TokenSlot : token[s].gen \in 0 .. MaxTokenGen /\ token[s].gen \in Nat
      /\ SpentBehind
  <2>1. token \in [TokenSlot -> Token]
    BY DEF TokenInv, TokenTypeOK
  <2>2. \A s \in TokenSlot : token[s].gen \in 0 .. MaxTokenGen
    BY <2>1 DEF Token
  <2> QED BY <2>1, <2>2, TokenFacts DEF TokenInv, TokenTypeOK
<1> DEFINE Kept ==
      /\ token' \in [TokenSlot -> Token] /\ spent' \subseteq TokenHandle
      /\ \A s \in TokenSlot : token'[s].active => token'[s].gen # 0 /\ token'[s].grant \in Grant
      /\ SpentBehind'
      /\ \A s \in TokenSlot : token'[s].active =>
           \/ token'[s] = token[s]
           \/ /\ Valid(incn, ent, token'[s].grant.owner, token'[s].grant.cap)
              /\ UNCHANGED vars
<1>5. Kept
  <2>1. CASE [Next]_vars /\ UNCHANGED <<token, spent>>
    BY <1>4, <2>1 DEF SpentBehind
  <2>2. ASSUME NEW s \in TokenSlot, Mints(s)
        PROVE  Kept
    <3>1. PICK g \in Grant :
            /\ Valid(incn, ent, g.owner, g.cap)
            /\ token' = [token EXCEPT ![s] = [active |-> TRUE, gen |-> FirstGen(token[s].gen), grant |-> g]]
      BY <2>2 DEF Mints
    <3> DEFINE e == [active |-> TRUE, gen |-> FirstGen(token[s].gen), grant |-> g]
    <3>2. FirstGen(token[s].gen) \in 1 .. MaxTokenGen /\ FirstGen(token[s].gen) >= token[s].gen
      BY <1>4, TokenFacts
    <3>3. e \in Token /\ e.gen # 0 /\ e.grant = g /\ e.gen >= token[s].gen /\ e.gen \in Nat
      BY <3>2, PolicyTokenAssumption DEF Token
    <3> HIDE DEF e
    <3>4. token' = [token EXCEPT ![s] = e] /\ spent' = spent /\ UNCHANGED vars
      BY <2>2, <3>1 DEF Mints, e
    <3>5. token' \in [TokenSlot -> Token] /\ token'[s] = e
          /\ \A r \in TokenSlot \ {s} : token'[r] = token[r]
      BY <1>4, <3>3, <3>4
    <3>6. SpentBehind'
      <4> SUFFICES ASSUME NEW x \in spent PROVE x.gen < token'[x.slot].gen
        BY <3>4 DEF SpentBehind
      <4>1. x \in TokenHandle /\ x.gen < token[x.slot].gen
        BY <1>4 DEF SpentBehind
      <4>2. x.slot \in TokenSlot /\ x.gen \in Nat /\ token[x.slot].gen \in Nat
        BY <1>4, <4>1, TokenFacts
      <4> QED BY <1>4, <3>3, <3>5, <4>1, <4>2
    <3> QED BY <1>4, <3>1, <3>3, <3>4, <3>5, <3>6
  <2>3. ASSUME NEW k \in TokenHandle, Spends(k)
        PROVE  Kept
    <3> DEFINE s == k.slot
               e == EntryCleared(token[s])
    <3>1. s \in TokenSlot /\ k.gen \in Nat
      BY TokenFacts
    <3>2. e \in Token /\ ~e.active /\ (e.gen = 0 \/ e.gen = token[s].gen + 1)
      BY <1>4, <3>1, TokenFacts
    <3>3. token' = [token EXCEPT ![s] = e] /\ token[s].gen = k.gen
      BY <2>3 DEF Spends, Clear, Current
    <3> HIDE DEF e
    <3>4. token' \in [TokenSlot -> Token] /\ token'[s] = e
          /\ \A r \in TokenSlot \ {s} : token'[r] = token[r]
      BY <1>4, <3>1, <3>2, <3>3
    <3>5. spent' = IF e.gen = 0 THEN {x \in spent : x.slot # s} ELSE spent \cup {k}
      BY <2>3, <3>4 DEF Spends, Clear
    <3>6. SpentBehind'
      <4> SUFFICES ASSUME NEW x \in spent' PROVE x.gen < token'[x.slot].gen
        BY DEF SpentBehind
      <4>1. x \in spent \/ (x = k /\ e.gen # 0)
        BY <3>5
      <4>2. CASE x \in spent
        <5>1. x.slot \in TokenSlot /\ x.gen \in Nat /\ x.gen < token[x.slot].gen
          BY <1>4, <4>2, TokenFacts DEF SpentBehind
        <5>2. CASE x.slot = s
          BY <1>4, <3>1, <3>2, <3>4, <3>5, <5>1, <5>2
        <5>3. CASE x.slot # s
          BY <3>4, <5>1, <5>3
        <5> QED BY <5>2, <5>3
      <4>3. CASE x = k /\ e.gen # 0
        BY <1>4, <3>1, <3>2, <3>3, <3>4, <4>3
      <4> QED BY <4>1, <4>2, <4>3
    <3> QED BY <1>4, <3>1, <3>2, <3>4, <3>5, <3>6
  <2> QED BY <1>1, <2>1, <2>2, <2>3 DEF TokenShape
<1>6. TypeOK /\ EntryInv /\ Parented /\ GrantPast /\ LapsedDead
      /\ lapsed \subseteq {s \in TokenSlot : token[s].active}
  BY DEF TokenInv, TokenTypeOK
<1>7. \A s \in TokenSlot : token'[s].active =>
        token'[s].grant.owner \in Proc /\ token'[s].grant.cap \in Handle
  BY <1>5 DEF Grant
<1>8. GrantPast'
  <2> SUFFICES ASSUME NEW s \in TokenSlot, token'[s].active
               PROVE  LET g == token'[s].grant
                          e == ent'[<<g.owner, g.cap.slot>>]
                      IN  /\ g.cap.gen # 0
                          /\ \/ e.gen = 0
                             \/ e.gen > g.cap.gen
                             \/ e.gen = g.cap.gen /\ e.active
    BY DEF GrantPast
  <2>1. CASE token'[s] = token[s]
    <3> DEFINE g == token[s].grant
               r == <<g.owner, g.cap.slot>>
    <3>1. r \in Pos /\ g.cap.gen \in 0 .. MaxGen
      BY <1>7, <2>1, PosFacts DEF Handle
    <3>2. /\ g.cap.gen # 0
          /\ \/ ent[r].gen = 0
             \/ ent[r].gen > g.cap.gen
             \/ ent[r].gen = g.cap.gen /\ ent[r].active
      BY <1>6, <2>1 DEF GrantPast
    <3> HIDE DEF r
    <3>3. CASE Next
      BY <1>6, <2>1, <3>1, <3>2, <3>3, PastStaysPast DEF r
    <3>4. CASE UNCHANGED vars
      BY <2>1, <3>2, <3>4 DEF vars, r
    <3> QED BY <1>2, <3>3, <3>4
  <2>2. CASE Valid(incn, ent, token'[s].grant.owner, token'[s].grant.cap) /\ UNCHANGED vars
    BY <2>2 DEF Valid, vars
  <2> QED BY <1>5, <2>1, <2>2
<1>9. Lapses
  BY DEF TokenNext
<1>10. lapsed' \subseteq {s \in TokenSlot : token'[s].active}
  BY <1>9 DEF Lapses
<1>11. LapsedDead'
  <2> SUFFICES ASSUME NEW s \in lapsed'
               PROVE  ~Valid(incn', ent', token'[s].grant.owner, token'[s].grant.cap)
    BY DEF LapsedDead
  <2>1. s \in TokenSlot /\ token'[s].active
    BY <1>10
  <2>2. SUFFICES ASSUME s \in lapsed
                 PROVE  ~Valid(incn', ent', token'[s].grant.owner, token'[s].grant.cap)
    BY <1>9 DEF Lapses
  <2>3. ~Valid(incn, ent, token[s].grant.owner, token[s].grant.cap) /\ token[s].active
    BY <1>6, <2>2 DEF LapsedDead
  <2>4. token'[s] = token[s]
    <3>1. CASE [Next]_vars /\ UNCHANGED <<token, spent>>
      BY <3>1
    <3>2. ASSUME NEW r \in TokenSlot, Mints(r) PROVE token'[s] = token[s]
      <4>1. r # s
        BY <2>3, <3>2 DEF Mints
      <4> QED BY <1>4, <2>1, <3>2, <4>1 DEF Mints
    <3>3. ASSUME NEW k \in TokenHandle, Spends(k) PROVE token'[s] = token[s]
      <4>1. token' = [token EXCEPT ![k.slot] = EntryCleared(@)] /\ k.slot \in TokenSlot
        BY <3>3, TokenFacts DEF Spends, Clear
      <4>2. k.slot # s
        BY <1>4, <2>1, <4>1, TokenFacts
      <4> QED BY <1>4, <2>1, <4>1, <4>2
    <3> QED BY <1>1, <3>1, <3>2, <3>3 DEF TokenShape
  <2> DEFINE o == token[s].grant.owner
             c == token[s].grant.cap
  <2>5. o \in Proc /\ c \in Handle
    BY <1>7, <2>1, <2>4
  <2>6. /\ c.gen # 0
        /\ \/ ent[<<o, c.slot>>].gen = 0
           \/ ent[<<o, c.slot>>].gen > c.gen
           \/ ent[<<o, c.slot>>].gen = c.gen /\ ent[<<o, c.slot>>].active
    BY <1>6, <2>1, <2>3 DEF GrantPast
  <2>7. ~Valid(incn, ent, o, c)
    BY <2>3
  <2>8. token'[s].grant.owner = o /\ token'[s].grant.cap = c
    BY <2>4
  <2> HIDE DEF o, c
  <2>9. ~Valid(incn', ent', o, c)
    BY <1>2, <1>6, <2>5, <2>6, <2>7, StaysInvalid
  <2> QED BY <2>8, <2>9
<1> QED
  BY <1>1, <1>3, <1>5, <1>8, <1>10, <1>11 DEF TokenInv, TokenTypeOK

(* Boot leaves every token slot free, under generation one.                *)
LEMMA TokenInvInit == TokenInit => TokenInv
<1> SUFFICES ASSUME TokenInit PROVE TokenInv
  OBVIOUS
<1>1. TypeOK /\ EntryInv /\ Parented
  BY TypeInit, EntryInit, ParentedInit DEF TokenInit
<1>2. token = [s \in TokenSlot |-> [active |-> FALSE, gen |-> 1, grant |-> NoGrant]]
  BY DEF TokenInit
<1>3. \A s \in TokenSlot : token[s] \in Token /\ ~token[s].active
  BY <1>2, PolicyTokenAssumption DEF Token
<1>4. token \in [TokenSlot -> Token]
  BY <1>2, <1>3
<1>5. clock = 0 /\ 0 \in 0 .. MaxClock /\ spent = {} /\ lapsed = {}
  BY PolicyTokenAssumption DEF TokenInit
<1> QED
  BY <1>1, <1>3, <1>4, <1>5 DEF TokenInv, TokenTypeOK, SpentBehind, GrantPast, LapsedDead

(* Every step of the system, or none.                                      *)
LEMMA TokenInvKept == TokenInv /\ [TokenNext]_allVars => TokenInv'
<1> SUFFICES ASSUME TokenInv, [TokenNext]_allVars PROVE TokenInv'
  OBVIOUS
<1>1. CASE TokenNext
  BY <1>1, TokenInvStep
<1>2. CASE UNCHANGED allVars
  <2>1. UNCHANGED <<vars, tokenVars, lapsed>>
    BY <1>2 DEF allVars
  <2>2. TypeOK' /\ EntryInv' /\ Parented'
    BY <2>1, TokenKernelStep
  <2>3. GrantPast' /\ SpentBehind'
    BY <2>1 DEF TokenInv, GrantPast, SpentBehind, vars, tokenVars
  <2>4. LapsedDead'
    <3>1. ent' = ent /\ incn' = incn /\ token' = token /\ lapsed' = lapsed
      BY <2>1 DEF vars, procVars, tokenVars, incn, Incarnation
    <3> QED BY <3>1 DEF TokenInv, LapsedDead
  <2> QED
    BY <2>1, <2>2, <2>3, <2>4 DEF TokenInv, TokenTypeOK, tokenVars
<1> QED BY <1>1, <1>2

(* The token table of the running system stays in range: a token in use    *)
(* has a valid generation and what it approves, whatever mix of system     *)
(* calls, consumptions and restarts comes in between.                      *)
THEOREM TokensTypeCorrect == TokenSpec => []TokenTypeOK
<1>1. TokenInv => TokenTypeOK
  BY DEF TokenInv
<1> QED
  BY <1>1, TokenInvInit, TokenInvKept, PTL DEF TokenSpec

(* A token that was consumed or revoked is not handed out again before the *)
(* generation of its slot has wrapped: a retried consume fails closed      *)
(* (policy_token.c:76).                                                    *)
THEOREM TokensAreUsedOnce == TokenSpec => []UsedOnce
<1>1. TokenInv => UsedOnce
  <2> SUFFICES ASSUME TokenInv, NEW s \in TokenSlot, token[s].active,
                      [slot |-> s, gen |-> token[s].gen] \in spent
               PROVE  FALSE
    BY DEF UsedOnce
  <2>1. token[s].gen < token[s].gen
    BY DEF TokenInv, SpentBehind
  <2>2. token[s].gen \in 0 .. MaxTokenGen
    BY DEF TokenInv, TokenTypeOK, Token
  <2> QED BY <2>1, <2>2, TokenFacts
<1> QED
  BY <1>1, TokenInvInit, TokenInvKept, PTL DEF TokenSpec

(* A token is consumed by the process it was minted for, outside the       *)
(* emergency pause, before its deadline, and only if the capability it was *)
(* minted for has been valid ever since: neither a restart nor a transfer  *)
(* revives an approval.                                                    *)
THEOREM ApprovalsHold == TokenSpec => ApprovalHolds
<1> DEFINE Rightly(s) ==
             token[s].active /\ ~token'[s].active /\ clock' # clock =>
               /\ Running(token[s].grant.owner)
               /\ s \notin lapsed
               /\ ~paused
               /\ token[s].grant.expires # 0 => clock' < token[s].grant.expires
<1>1. TokenInv /\ TokenNext => \A s \in TokenSlot : Rightly(s)
  <2> SUFFICES ASSUME TokenInv, TokenNext, NEW s \in TokenSlot,
                      token[s].active, ~token'[s].active, clock' # clock
               PROVE  /\ Running(token[s].grant.owner)
                      /\ s \notin lapsed
                      /\ ~paused
                      /\ token[s].grant.expires # 0 => clock' < token[s].grant.expires
    OBVIOUS
  <2>1. PICK p \in Proc, k \in TokenHandle, c \in Handle, nonce \in Nonce :
          TokenConsume(p, k, c, nonce)
    BY DEF TokenNext, KernelStep, tokenVars, TokenStep, TokenMint, TokenRevoke
  <2>2. Accepts(k, p, c, nonce, clock + 1) /\ Clear(k)
    BY <2>1 DEF TokenConsume
  <2>3. k.slot = s
    <3>1. token \in [TokenSlot -> Token] /\ k.slot \in TokenSlot
      BY TokenFacts DEF TokenInv, TokenTypeOK
    <3> QED BY <2>2, <3>1 DEF Clear
  <2>4. token[s].grant.owner = p /\ token[s].grant.cap = c
        /\ (token[s].grant.expires = 0 \/ clock + 1 < token[s].grant.expires)
    BY <2>2, <2>3 DEF Accepts
  <2>5. Running(p) /\ Valid(incn, ent, p, c) /\ ~paused /\ clock' = clock + 1
    BY <2>1 DEF TokenConsume, Eligible
  <2>6. s \notin lapsed
    BY <2>4, <2>5 DEF TokenInv, LapsedDead
  <2> QED BY <2>4, <2>5, <2>6
<1>2. TokenInv /\ [TokenNext]_allVars => [\A s \in TokenSlot : Rightly(s)]_allVars
  BY <1>1
<1> HIDE DEF Rightly
<1>3. TokenSpec => [][\A s \in TokenSlot : Rightly(s)]_allVars
  BY <1>2, TokenInvInit, TokenInvKept, PTL DEF TokenSpec
<1> QED BY <1>3 DEF ApprovalHolds, Rightly
=============================================================================

---------------------------- MODULE PolicyTokens ----------------------------
(***************************************************************************)
(* Policy tokens on top of the kernel: the one-shot approvals an admin     *)
(* mints for a capability of some process (kernel/src/policy_token.c and   *)
(* the SYS_POLICY_TOKEN_* handlers of kernel.c).  A token is bound to its  *)
(* owner, to a capability handle and to an action nonce; it may expire on  *)
(* a clock that only consumption advances.  Every step of Kernel can come  *)
(* between minting and consuming.                                          *)
(***************************************************************************)
EXTENDS Kernel

CONSTANTS
  TokenSlots,   \* AGENT_OS_POLICY_TOKEN_SLOTS
  MaxTokenGen,  \* UINT32_MAX, the last generation of a token slot
  Nonce,        \* the action nonces callers pass
  Deadline,     \* the expiry words callers pass
  MaxClock      \* bound: consumptions the instance looks at

TokenSlot   == 0 .. TokenSlots - 1
TokenHandle == [slot : TokenSlot, gen : 0 .. MaxTokenGen]

ASSUME PolicyTokenAssumption ==
  /\ TokenSlots \in Nat \ {0}
  /\ MaxTokenGen \in Nat \ {0}
  /\ Deadline \subseteq Nat
  /\ MaxClock \in Nat

VARIABLES
  token,   \* token slot -> its entry
  clock,   \* policy_token_clock
  spent,   \* history: handles that were consumed or revoked, of the slots'
           \* current run of generations
  lapsed   \* history: slots of active tokens whose capability has been
           \* invalid at some time since they were minted

tokenVars == <<token, clock, spent>>
allVars   == <<vars, tokenVars, lapsed>>

\* What the words of an inactive entry are cleared to.
NoGrant == [owner |-> NoProc, cap |-> [slot |-> 0, gen |-> 0],
            nonce |-> 0, expires |-> 0]
Grant   == [owner : Proc, cap : Handle, nonce : Nonce, expires : Deadline]

Token == [active : BOOLEAN, gen : 0 .. MaxTokenGen, grant : Grant \cup {NoGrant}]

TokenInit ==
  /\ Init
  /\ token = [s \in TokenSlot |-> [active |-> FALSE, gen |-> 1, grant |-> NoGrant]]
  /\ clock = 0
  /\ spent = {}
  /\ lapsed = {}

-----------------------------------------------------------------------------
\* Slip: the generation is left at zero.
FirstGenLeft(g) == g

(* A slot whose generation wrapped to zero starts again at one. *)
FirstGen(g) == IF g = 0 THEN 1 ELSE g

\* Slip: the slot keeps its generation.
EntryClearedOnly(e) == [active |-> FALSE, gen |-> e.gen, grant |-> NoGrant]

(* A consumed or revoked entry. *)
EntryCleared(e) ==
  [active |-> FALSE, gen |-> IF e.gen = MaxTokenGen THEN 0 ELSE e.gen + 1,
   grant |-> NoGrant]

Clear(k) ==
  /\ token' = [token EXCEPT ![k.slot] = EntryCleared(@)]
  /\ spent' = IF token'[k.slot].gen = 0 THEN {x \in spent : x.slot # k.slot}
                                        ELSE spent \cup {k}

(* The entry a token handle names. *)
Current(k) == k.gen # 0 /\ token[k.slot].active /\ token[k.slot].gen = k.gen

(* SYS_POLICY_TOKEN_MINT: process p, with the policy authority h, approves *)
(* the use of owner's capability c, whatever its rights.                   *)
TokenMint(p, h, owner, c, nonce, expires) ==
  /\ Running(p)
  /\ HasAuthority(p, h)
  /\ state[owner] # "UNUSED"
  /\ Valid(incn, ent, owner, c)
  /\ ~paused
  /\ nonce # 0
  /\ \E s \in TokenSlot :
       /\ ~token[s].active
       /\ \A r \in TokenSlot : r < s => token[r].active
       /\ token' = [token EXCEPT ![s] =
                      [active |-> TRUE, gen |-> FirstGen(@.gen),
                       grant |-> [owner |-> owner, cap |-> c,
                                  nonce |-> nonce, expires |-> expires]]]
  /\ UNCHANGED <<vars, clock, spent>>

\* Slip: the capability is only compared with the one of the token.
EligibleByWord(p, c) == c.gen # 0 /\ ~paused

(* What SYS_POLICY_TOKEN_CONSUME asks for before it looks at the token. *)
Eligible(p, c) == Valid(incn, ent, p, c) /\ ~paused

(* agent_os_policy_token_consume answers OK. *)
Accepts(k, p, c, nonce, now) ==
  LET g == token[k.slot].grant IN
    /\ Current(k)
    /\ g.owner = p /\ g.cap = c /\ g.nonce = nonce
    /\ g.expires = 0 \/ now < g.expires

(* SYS_POLICY_TOKEN_CONSUME.  The clock moves on with every eligible call, *)
(* whoever makes it and whatever token it names; a token found expired is  *)
(* left where it is.                                                       *)
TokenConsume(p, k, c, nonce) ==
  /\ Running(p)
  /\ Eligible(p, c)
  /\ clock < MaxClock
  /\ clock' = clock + 1
  /\ IF Accepts(k, p, c, nonce, clock + 1) THEN Clear(k) ELSE UNCHANGED <<token, spent>>
  /\ UNCHANGED vars

(* SYS_POLICY_TOKEN_REVOKE: the owner's alone, the pause notwithstanding. *)
TokenRevoke(p, k) ==
  /\ Running(p)
  /\ Current(k)
  /\ token[k.slot].grant.owner = p
  /\ Clear(k)
  /\ UNCHANGED <<vars, clock>>

KernelStep == Next /\ UNCHANGED tokenVars

(* History: an active token lapses when its capability does. *)
Lapses ==
  lapsed' = {s \in TokenSlot :
               /\ token'[s].active
               /\ \/ s \in lapsed
                  \/ ~Valid(incn', ent', token'[s].grant.owner, token'[s].grant.cap)}

TokenStep ==
  \E p \in Proc :
    \/ \E h, c \in Handle, owner \in Proc, nonce \in Nonce, expires \in Deadline :
         TokenMint(p, h, owner, c, nonce, expires)
    \/ \E k \in TokenHandle, c \in Handle, nonce \in Nonce : TokenConsume(p, k, c, nonce)
    \/ \E k \in TokenHandle : TokenRevoke(p, k)

TokenNext == (KernelStep \/ TokenStep) /\ Lapses

TokenSpec == TokenInit /\ [][TokenNext]_allVars

-----------------------------------------------------------------------------
(* Properties. *)

TokenTypeOK ==
  /\ TypeOK
  /\ token \in [TokenSlot -> Token]
  /\ \A s \in TokenSlot : token[s].active => token[s].gen # 0 /\ token[s].grant \in Grant
  /\ clock \in 0 .. MaxClock
  /\ spent \subseteq TokenHandle
  /\ lapsed \subseteq {s \in TokenSlot : token[s].active}

(* An approval is used once: a handle that was consumed or revoked is not  *)
(* handed out again before the generation of its slot has wrapped, so a    *)
(* retry fails closed (comment at policy_token.c:76).                      *)
UsedOnce ==
  \A s \in TokenSlot : token[s].active => [slot |-> s, gen |-> token[s].gen] \notin spent

(* A token is only consumed by the process it was minted for, outside the  *)
(* emergency pause and before its deadline, and while the capability it    *)
(* was minted for has been good all along: a restart or a transfer that    *)
(* gives the owner the object again does not revive the approval           *)
(* (README.md:209).                                                        *)
ApprovalHolds ==
  [][\A s \in TokenSlot :
       token[s].active /\ ~token'[s].active /\ clock' # clock =>
         /\ Running(token[s].grant.owner)
         /\ s \notin lapsed
         /\ ~paused
         /\ token[s].grant.expires # 0 => clock' < token[s].grant.expires]_allVars

=============================================================================

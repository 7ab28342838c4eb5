--------------------------- MODULE CapabilityTree ---------------------------
(***************************************************************************)
(* What the capability tables promise, without slots, generations or lazy  *)
(* checks: a forest of capabilities.  A capability has a name that is used *)
(* once, a child has its parent's object and at most its rights, and       *)
(* revoking a capability takes its whole subtree away at once, for good.   *)
(***************************************************************************)
CONSTANTS
  Name,       \* names of capabilities; n.table is the table that holds n
  NoName,     \* the parent of a root
  Table, Object, Right, TRANSFER, REVOKE

VARIABLES
  tree,       \* live capabilities: name -> [object, rights, parent]
  spent       \* names that will never be live again

vars == <<tree, spent>>

Alive == DOMAIN tree

Init == tree = [n \in {} |-> NoName] /\ spent = {}

Fresh == Name \ (Alive \cup spent)

(* The names that a step makes live for the first time. *)
Born == Fresh \cap Alive'

Add(n, object, rights, parent) ==
  /\ tree' = [m \in Alive \cup {n} |->
                IF m = n
                  THEN [object |-> object, rights |-> rights, parent |-> parent]
                  ELSE tree[m]]
  /\ spent' = spent

Grant(n, object, rights) == Add(n, object, rights, NoName)

Derive(p, n, rights) ==
  /\ rights \subseteq tree[p].rights
  /\ p.table # n.table => TRANSFER \in tree[p].rights
  /\ Add(n, tree[p].object, rights, p)

(* The capabilities with no ancestor in K and not in K themselves. *)
Survivors(K) ==
  UNION {S \in SUBSET (Alive \ K) :
           \A n \in S : tree[n].parent = NoName \/ tree[n].parent \in S}

(* Removing K removes every descendant of K and nothing else; what goes is *)
(* spent.  Names that were never used may be withdrawn with it.            *)
Prune(K) ==
  /\ tree' = [n \in Survivors(K) |-> tree[n]]
  /\ spent \cup (Alive \ Survivors(K)) \subseteq spent'
  /\ spent' \in SUBSET (Name \ Survivors(K))

Revoke(n)          == REVOKE \in tree[n].rights /\ Prune({n})
Drop(t)            == Prune({n \in Alive : n.table = t})
Forget(t, object)  == Prune({n \in Alive : n.table = t /\ tree[n].object = object})
Withdraw           == Prune({})

Next ==
  \/ \E n \in Born, object \in Object, rights \in SUBSET Right :
       Grant(n, object, rights)
  \/ \E n \in Born, p \in Alive, rights \in SUBSET Right : Derive(p, n, rights)
  \/ \E n \in Alive : Revoke(n)
  \/ \E t \in Table : Drop(t)
  \/ \E t \in Table, object \in Object : Forget(t, object)
  \/ Withdraw

Spec == Init /\ [][Next]_vars
=============================================================================

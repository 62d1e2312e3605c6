---------------------------- MODULE SchemaStore ----------------------------
(***************************************************************************)
(* What a schema store promises (the interface Store of pkg/store): it     *)
(* maps schemas to parsed revisions, and every request takes effect in one *)
(* step, so that a reader sees a whole revision or none and a reload never *)
(* hides the schema.  A change that no other change of its schema          *)
(* overlapped finds the schema as its check left it: a create replaces     *)
(* nothing, a reload revives nothing, and a reload parses the files the    *)
(* schema is made of or, if they were lost, none.  Changes that overlap    *)
(* take effect in some order, but what they checked may no longer hold.    *)
(***************************************************************************)
CONSTANTS Keys, Procs, Revs, None

VARIABLES
    store,    \* the revision of each schema, or None
    op,       \* the change a client is waiting for: its kind and key, or None
    lone,     \* no other change of the schema overlapped with it
    result    \* what the client's last request returned

vars == <<store, op, lone, result>>

Changes == {"create", "reload", "delete"}

Failed == [ok |-> FALSE, rev |-> None]
Succeeded(r) == [ok |-> TRUE, rev |-> r]

Pending(p, k) == op[p] # None /\ op[p].key = k

Init ==
    /\ store = [k \in Keys |-> None]
    /\ op = [p \in Procs |-> None]
    /\ lone = [p \in Procs |-> FALSE]
    /\ result = [p \in Procs |-> Failed]

Invoke(p, c, k) ==
    /\ op[p] = None
    /\ op' = [op EXCEPT ![p] = [op |-> c, key |-> k]]
    /\ lone' = [o \in Procs |->
                   IF o = p THEN \A x \in Procs \ {p} : ~ Pending(x, k)
                   ELSE lone[o] /\ ~ Pending(o, k)]
    /\ UNCHANGED <<store, result>>

Complete(p, k, r) ==
    /\ store' = [store EXCEPT ![k] = r]
    /\ op' = [op EXCEPT ![p] = None]
    /\ result' = [result EXCEPT ![p] = Succeeded(r)]
    /\ UNCHANGED lone

Create(p, k, r) ==
    /\ Pending(p, k) /\ op[p].op = "create"
    /\ lone[p] => store[k] = None
    /\ Complete(p, k, r)

Reload(p, k, r) ==
    /\ Pending(p, k) /\ op[p].op = "reload"
    /\ lone[p] => /\ store[k] # None
                  /\ DOMAIN r \in {DOMAIN store[k], {}}
    /\ Complete(p, k, r)

Delete(p, k) ==
    /\ Pending(p, k) /\ op[p].op = "delete"
    /\ lone[p] => store[k] # None
    /\ Complete(p, k, None)

(* A request that fails, at once or later, changes nothing. *)
Fail(p) ==
    /\ op' = [op EXCEPT ![p] = None]
    /\ result' = [result EXCEPT ![p] = Failed]
    /\ UNCHANGED <<store, lone>>

(* A lookup of any kind answers from the revision stored when it looks. *)
Read(p, k) ==
    /\ op[p] = None /\ store[k] # None
    /\ result' = [result EXCEPT ![p] = Succeeded(store[k])]
    /\ UNCHANGED <<store, op, lone>>

Next ==
    \E p \in Procs :
        \/ Fail(p)
        \/ \E k \in Keys :
              \/ \E c \in Changes : Invoke(p, c, k)
              \/ \E r \in Revs : Create(p, k, r) \/ Reload(p, k, r)
              \/ Delete(p, k) \/ Read(p, k)

Spec == Init /\ [][Next]_vars

=============================================================================

------------------------------ MODULE HookTable ------------------------------
(***************************************************************************)
(* The two fixed tables of a machine: the hooks (dcpuhook.c) and the       *)
(* devices (hw.c), as operators on a table, a function from slot to entry. *)
(* Registering takes the first empty slot; a full table yields slot 0 and  *)
(* halts the machine, which the caller sees as full.                       *)
(***************************************************************************)
LOCAL INSTANCE Integers
LOCAL INSTANCE Sequences

EmptySlot == [mode |-> "none", by |-> "nobody"]
EmptyTable(size) == [id \in 0 .. size - 1 |-> EmptySlot]

\* The scan for an empty slot, from slot 0 up.
FirstEmpty(t) == CHOOSE id \in DOMAIN t : /\ t[id] = EmptySlot
                                          /\ \A k \in 0 .. id - 1 : t[k] # EmptySlot
IsFull(t) == EmptySlot \notin {t[id] : id \in DOMAIN t}

vm_hook_register(t, mode, by) ==
    IF IsFull(t) THEN [table |-> t, id |-> 0, full |-> TRUE]
    ELSE [table |-> [t EXCEPT ![FirstEmpty(t)] = [mode |-> mode, by |-> by]],
          id |-> FirstEmpty(t), full |-> FALSE]

vm_hook_unregister(t, id) == [t EXCEPT ![id] = EmptySlot]

\* Who is called for an event, in slot order.
vm_hook_fire(t, mode) ==
    LET called(id) == id \in DOMAIN t /\ t[id].mode = mode
    IN  [k \in {id \in DOMAIN t : called(id)} |-> t[k].by]

vm_hw_register(t, device) == vm_hook_register(t, "device", device)

\* HWN counts up to the first hole.
vm_hw_count(t) == IF \E id \in DOMAIN t : t[id] = EmptySlot
                  THEN FirstEmpty(t)
                  ELSE 1 + CHOOSE id \in DOMAIN t : \A k \in DOMAIN t : k <= id
=============================================================================

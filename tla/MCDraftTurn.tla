---------------------------- MODULE MCDraftTurn -----------------------------
(* One Conversation with a few flows and a few values of every field.      *)
EXTENDS DraftTurn, TLC

Symmetry ==
    Permutations(Flow) \cup Permutations(Product)
        \cup Permutations(Wilaya) \cup Permutations(Commune)

\* The notes of a Conversation whose first Turn looked product p up in flow f.
ShownNotes(f, p) ==
    [EmptyNotes EXCEPT !.flows = {f}, !.active = f, !.shown[f] = {p}, !.selected = p]

\* A Conversation is new, with nothing in the store for a Turn after an exception
\* or a restart to read, or was shown a product and has all its Turns for orders.
\* A new one has a Turn less; with a row in the store an exception or a restart
\* only loses the Turn it falls in, so only a new one has them.
StartInit ==
    /\ pc = "idle" /\ resolved = None /\ choice = None /\ needsTool = FALSE
    /\ \/ /\ notes = EmptyNotes /\ row = None
          /\ turns = 1 /\ faults = 0 /\ restarts = 0
       \/ /\ \E f \in Flow, p \in Product : notes = ShownNotes(f, p)
          /\ row = notes
          /\ turns = 0 /\ faults = MaxFaults /\ restarts = MaxRestarts

StartSpec == StartInit /\ [][Next]_vars
=============================================================================

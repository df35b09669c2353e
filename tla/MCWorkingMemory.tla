--------------------------- MODULE MCWorkingMemory ---------------------------
(* An instance of WorkingMemory for TLC: two canonical labels, a custom one *)
(* and one note.                                                            *)
EXTENDS WorkingMemoryAlone, TLC

CONSTANTS persona, profile, custom, n

MCRequest ==
    [op : {"update"}, label : Label, value : {<<n>>}]
      \cup [op : {"update"}, label : {profile}, value : {<<>>}]
      \cup [op : {"create"}, label : {profile, custom}, value : {<<n>>}, ro : BOOLEAN]
      \cup [op : {"append"}, label : Label, note : {n}]
      \cup [op : {"delete"}, label : {profile, custom}]
      \cup [op : {"playbook"}, book : Book]
      \cup [op : {"evict", "read"}]

ASSUME MCRequest \subseteq Request

Symmetry == Permutations(Task) \cup Permutations(Book)

MCSpec == AloneInit /\ [][AloneNext(MCRequest)]_<<vars, history>>
============================================================================

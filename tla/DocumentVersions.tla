--------------------------- MODULE DocumentVersions ---------------------------
(***************************************************************************)
(* What the memory store promises of an indexed source: "Atomically        *)
(* replace a source's active chunks with a new content version"            *)
(* (ingest_document, s13code/core/memory/store.py).  Readers see one       *)
(* version of a source, all its chunks and none of another version's.      *)
(* Sources are told apart by their document ids.                           *)
(***************************************************************************)
EXTENDS Naturals

CONSTANTS Sources, Contents, Size

VARIABLE shown   \* what is in force of each source

NotIndexed == [version |-> 0, content |-> "none", chunks |-> 0]

Init == shown = [s \in Sources |-> NotIndexed]

Replace(s, c) ==
    /\ shown[s].content # c /\ shown'[s].content = c
    /\ shown' = [shown EXCEPT ![s] =
                    [version |-> @.version + 1, content |-> c, chunks |-> Size[c]]]

Next == \E s \in Sources, c \in Contents : Replace(s, c)

Spec == Init /\ [][Next]_shown

=============================================================================

---------------------------- MODULE ContentStore ---------------------------
(***************************************************************************)
(* What blob storage promises to the files: a store of contents in which   *)
(* a file's bytes stay for as long as the file.  Where they are, how often *)
(* they move and how many requests that takes is no part of it.            *)
(***************************************************************************)
CONSTANTS Shas, Files, Content

VARIABLES
    status,   \* of each file
    kept      \* the contents whose bytes can be read

Held(sha) == {f \in Files : Content[f] = sha /\ status[f] = "stored"}

Init ==
    /\ status \in [Files -> {"new", "stored"}]
    /\ kept \subseteq Shas
    /\ \A f \in Files : status[f] = "stored" => Content[f] \in kept

\* A file appears with its bytes.
Put(f) ==
    /\ status[f] = "new"
    /\ status' = [status EXCEPT ![f] = "stored"]
    /\ kept' = kept \cup {Content[f]}

\* An upload that failed, or a file that is deleted.
Remove(f) ==
    /\ status[f] \in {"new", "stored"}
    /\ status' = [status EXCEPT ![f] = "gone"]
    /\ UNCHANGED kept

\* Bytes that no file holds may come and go.
Keep(sha) ==
    /\ kept' = kept \cup {sha}
    /\ UNCHANGED status

Forget(sha) ==
    /\ Held(sha) = {}
    /\ kept' = kept \ {sha}
    /\ UNCHANGED status

Next ==
    \/ \E f \in Files : Put(f) \/ Remove(f)
    \/ \E sha \in Shas : Keep(sha) \/ Forget(sha)

Spec == Init /\ [][Next]_<<status, kept>>
============================================================================

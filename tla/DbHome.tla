------------------------------- MODULE DbHome -------------------------------
(***************************************************************************)
(* What a home promises its runtimes: it is plain, encrypted or closed.    *)
(* Runtimes run only while it is open, in its format; the format of a file *)
(* changes only while it is closed; and it reopens only in a format that   *)
(* all its files have.                                                     *)
(***************************************************************************)
Formats == {"plain", "enc"}

VARIABLES mode,     \* "plain", "enc" or "closed"
          running,  \* formats of the runtimes that run
          formats   \* formats of the files

Init ==
  /\ mode \in Formats \cup {"closed"} /\ running = {}
  /\ formats \subseteq Formats
  /\ mode # "closed" => formats \subseteq {mode}

Admit(k) == mode = k /\ running' = running \cup {k} /\ UNCHANGED <<mode, formats>>
Leave(k) == running' = running \ {k} /\ UNCHANGED <<mode, formats>>
Write(k) == k \in running /\ formats' = formats \cup {k} /\ UNCHANGED <<mode, running>>

Close == running = {} /\ mode' = "closed" /\ UNCHANGED <<running, formats>>
Convert == mode = "closed" /\ formats' \subseteq Formats /\ UNCHANGED <<mode, running>>
Reopen(k) == mode = "closed" /\ formats \subseteq {k} /\ mode' = k /\ UNCHANGED <<running, formats>>

Next ==
  \/ Close \/ Convert
  \/ \E k \in Formats : Admit(k) \/ Leave(k) \/ Write(k) \/ Reopen(k)

Spec == Init /\ [][Next]_<<mode, running, formats>>
=============================================================================

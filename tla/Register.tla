------------------------------- MODULE Register -------------------------------
(***************************************************************************)
(* What the platform's writers may rely on: the edits written are never    *)
(* lost again, by other writers, by readers or by a crash, and a writer    *)
(* is told of success only after its edit has been written.                *)
(***************************************************************************)
CONSTANT Edit       \* the changes handlers make, each once

VARIABLES written,  \* the edits that are part of the platform's state
          acked     \* the edits whose writer was told of success

TypeOK == written \subseteq Edit /\ acked \subseteq written

Init == written = {} /\ acked = {}

Write(e) ==
    /\ e \notin written
    /\ written' = written \cup {e}
    /\ UNCHANGED acked

Ack(e) ==
    /\ e \in written
    /\ acked' = acked \cup {e}
    /\ UNCHANGED written

Next == \E e \in Edit : Write(e) \/ Ack(e)

Spec == Init /\ [][Next]_<<written, acked>>
===============================================================================

-------------------------- MODULE TerminalVerdict --------------------------
(***************************************************************************)
(* What the packet-state authority promises about one packet, whatever the *)
(* order in which provider callbacks arrive: the verdict on the packet is  *)
(* the join of the terminal claims received, in an order where a newer     *)
(* claim beats an older one and failure beats success at the same time.    *)
(* CursorAuthority is shown to implement this specification.               *)
(***************************************************************************)
EXTENDS Naturals

CONSTANT Time  \* time stamps, 0 among them

Claim == [at : Time, outcome : {"positive", "negative"}]
NoVerdict == [at |-> 0, outcome |-> "none"]

VARIABLE verdict

Beats(c, v) ==
  \/ v = NoVerdict
  \/ c.at > v.at
  \/ c.at = v.at /\ c.outcome = "negative"

Init == verdict \in {NoVerdict} \cup {c \in Claim : c.at = 0}

Hear(c) == verdict' = IF Beats(c, verdict) THEN c ELSE verdict

Next == \E c \in Claim : Hear(c)

Spec == Init /\ [][Next]_verdict
=============================================================================

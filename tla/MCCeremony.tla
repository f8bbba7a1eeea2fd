---------------------------- MODULE MCCeremony ------------------------------
(* Small configurations for the ceremony. *)
EXTENDS Ceremony

CONSTANTS s1, s2, prompt, review, audit    \* model values

\* The first two schemas share an attestor set.
SharedSets == [s \in {prompt, review, audit} |-> IF s = audit THEN s2 ELSE s1]
ThreeEntries == <<prompt, review, audit>>

=============================================================================

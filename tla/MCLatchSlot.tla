----------------------------- MODULE MCLatchSlot -----------------------------
(* Two hashes that share a slot, three commands. *)
EXTENDS LatchSlot

MCHashes == {1, 2}
MCCids == {"c1", "c2", "c3"}
MCNoCid == "none"

=============================================================================
